---------------------------- MODULE ScrapyEngine ----------------------------
(***************************************************************************)
(* scrapy/core/engine.py with the slot of scrapy/core/scraper.py: start()  *)
(* feeds the scheduler, nextcall moves requests to the downloader, idle    *)
(* detection and explicit requests close the spider, stop_async() stops    *)
(* the engine.  One asyncio event loop runs it: an action is the code      *)
(* between two awaits.  The downloader is seen through what the engine     *)
(* uses of it, its active set and the end of each fetch.                   *)
(***************************************************************************)
EXTENDS Naturals, FiniteSets

CONSTANTS
  Request,     \* requests of start(), callbacks, redirects and idle handlers
  Item,        \* items that start() yields
  Direct,      \* requests of download_async()
  Total,       \* Downloader.total_concurrency, 0 is no limit
  MaxActive,   \* responses beyond which the scraper slot needs backout
  MaxVetoes,   \* bound: spider_idle handlers raising DontCloseSpider
  MaxPauses,   \* bound: calls of pause()
  MaxRefusals  \* bound: calls of next_request that return None with requests pending

ASSUME EngineAssumption ==
  /\ Request \cap Direct = {} /\ IsFiniteSet(Request) /\ IsFiniteSet(Direct)
  /\ Total \in Nat /\ MaxActive \in Nat /\ MaxVetoes \in Nat /\ MaxPauses \in Nat
  /\ MaxRefusals \in Nat

VARIABLES
  closeIfIdle,    \* slot.close_if_idle
  req,            \* where each request is
  item,           \* "new", "processing" or "done"
  direct,         \* where each download_async call is
  startOver,      \* engine._start is None
  starter,        \* _start_request_processing: "pull", "wait" for nextcall, "off"
  nextcall,       \* the CallLaterOnce: "idle", "scheduled" or "cancelled" for good
  heartbeat,      \* slot.heartbeat.running
  closing,        \* slot.closing: "no", "waiting" or "fired"
  scraperClosing, \* scraper.slot.closing, likewise
  phase,          \* where close_spider_async is
  reason,         \* why it was called first: "none", "finished", "cancelled", "shutdown"
  running,        \* engine.running
  stop,           \* stop_async: "no", "closer", "waiter" (of another close), "stopped"
  paused, pauses, vetoes,
  refused,        \* the last call ended on a None although requests were pending
  refusals

work == <<req, item, direct>>
start == <<startOver, starter>>
slot == <<nextcall, heartbeat, closing>>
close == <<scraperClosing, phase, reason>>
asked == <<refused, refusals>>
env == <<closeIfIdle, paused, pauses, vetoes, asked>>
vars == <<work, start, slot, close, running, stop, env>>

-----------------------------------------------------------------------------
At(stage) == {r \in Request : req[r] = stage}
Directs == {d \in Direct : direct[d] = "downloading"}

Inprogress == At("downloading") \cup At("scraping") \cup Directs
Downloading == At("downloading") \cup Directs   \* downloader.active

SpiderOpen == phase # "closed"

ScraperIdle == At("scraping") = {} /\ \A i \in Item : item[i] # "processing"

(* spider_is_idle *)
Idle == ScraperIdle /\ Downloading = {} /\ startOver /\ At("scheduled") = {}

Init ==
  /\ closeIfIdle \in BOOLEAN
  /\ req = [r \in Request |-> "new"]
  /\ item = [i \in Item |-> "new"]
  /\ direct = [d \in Direct |-> "new"]
  /\ startOver = FALSE
  /\ starter = "pull"
  /\ nextcall = "scheduled"
  /\ heartbeat = TRUE
  /\ closing = "no"
  /\ scraperClosing = "no"
  /\ phase = "none"
  /\ reason = "none"
  /\ running = TRUE
  /\ stop = "no"
  /\ paused = FALSE /\ pauses = 0 /\ vetoes = 0
  /\ refused = FALSE /\ refusals = 0

(* nextcall.schedule() in a turn that leaves the call in state n. *)
Schedule(n) == IF n = "idle" THEN "scheduled" ELSE n

BuggyMaybeFire(c, left) ==
  IF c # "no"
  THEN /\ closing' = "fired"
       /\ heartbeat' = FALSE
       /\ nextcall' = IF nextcall = "scheduled" THEN "cancelled" ELSE nextcall
  ELSE /\ closing' = c
       /\ UNCHANGED <<heartbeat, nextcall>>

(* _maybe_fire_closing when slot.closing is c and left is in progress:     *)
(* nextcall is cancelled if it is scheduled, and then never runs again.    *)
MaybeFire(c, left) ==
  IF c # "no" /\ left = {}
  THEN /\ closing' = "fired"
       /\ heartbeat' = FALSE
       /\ nextcall' = IF nextcall = "scheduled" THEN "cancelled" ELSE nextcall
  ELSE /\ closing' = c
       /\ UNCHANGED <<heartbeat, nextcall>>

BuggyRemoveAndSchedule(r, n) ==
  IF closing # "no" /\ Inprogress \ {r} = {}
  THEN closing' = "fired" /\ heartbeat' = FALSE /\ nextcall' = "cancelled"
  ELSE nextcall' = n /\ UNCHANGED <<closing, heartbeat>>

(* remove_request(r) with nextcall in state n, then nextcall.schedule().   *)
RemoveAndSchedule(r, n) ==
  IF closing # "no" /\ Inprogress \ {r} = {}
  THEN /\ closing' = "fired" /\ heartbeat' = FALSE
       /\ nextcall' = IF n = "idle" THEN "scheduled" ELSE "cancelled"
  ELSE /\ nextcall' = Schedule(n)
       /\ UNCHANGED <<closing, heartbeat>>

DownloaderBackout == 0 < Total /\ Total <= Cardinality(Downloading)
ScraperBackout == Cardinality(At("scraping")) > MaxActive
NeedsBackout ==
  ~ running \/ ~ SpiderOpen \/ closing # "no" \/ DownloaderBackout \/ ScraperBackout

-----------------------------------------------------------------------------
(* _start_request_processing *)

(* After an element: wait for nextcall unless there is backout, else on to *)
(* the next element at once.  over says whether start() is at its end.     *)
AfterElement(over) ==
  IF ~ NeedsBackout
  THEN starter' = "wait" /\ nextcall' = Schedule(nextcall)
  ELSE starter' = (IF over THEN "off" ELSE "pull") /\ UNCHANGED nextcall

(* The scheduler may drop the request as a duplicate. *)
PullRequest(r) ==
  /\ starter = "pull"
  /\ req[r] = "new"
  /\ \E where \in {"scheduled", "done"} : req' = [req EXCEPT ![r] = where]
  /\ starter' = IF ~ NeedsBackout THEN "wait" ELSE "pull"
  /\ nextcall' = Schedule(nextcall)
  /\ UNCHANGED <<item, direct, startOver, heartbeat, closing, close, running, stop, env>>

PullItem(i) ==
  /\ starter = "pull"
  /\ item[i] = "new"
  /\ item' = [item EXCEPT ![i] = "processing"]
  /\ starter' = IF ~ NeedsBackout THEN "wait" ELSE "pull"
  /\ nextcall' = Schedule(nextcall)
  /\ UNCHANGED <<req, direct, startOver, heartbeat, closing, close, running, stop, env>>

(* StopAsyncIteration, or an exception, which is logged. *)
PullEnd ==
  /\ starter = "pull"
  /\ startOver' = TRUE
  /\ AfterElement(TRUE)
  /\ UNCHANGED <<work, heartbeat, closing, close, running, stop, env>>

(* A close_spider_async task is created unless one is already closing. *)
RequestClose(why) ==
  IF phase = "none" THEN phase' = "requested" /\ reason' = why
  ELSE UNCHANGED <<phase, reason>>

PullCloseSpider ==
  /\ starter = "pull"
  /\ startOver' = TRUE
  /\ AfterElement(TRUE)
  /\ RequestClose("cancelled")
  /\ UNCHANGED <<work, heartbeat, closing, scraperClosing, running, stop, env>>

-----------------------------------------------------------------------------
(* nextcall runs: _start_scheduled_requests, then the starter goes on.     *)

Running ==
  /\ nextcall = "scheduled"
  /\ ~ (phase = "requested" /\ reason = "finished")  \* that task is ahead of any new call

WakeStarter ==
  starter' = IF starter # "wait" THEN starter
             ELSE IF startOver \/ ~ SpiderOpen \/ ~ running THEN "off" ELSE "pull"

NextCallReturns ==
  /\ Running
  /\ ~ SpiderOpen \/ closing # "no" \/ paused
  /\ nextcall' = "idle"
  /\ WakeStarter
  /\ UNCHANGED <<work, startOver, heartbeat, closing, close, running, stop, env>>

(* How many requests one call may send to the downloader. *)
Free ==
  IF NeedsBackout THEN 0
  ELSE IF Total = 0 THEN Cardinality(Request)
  ELSE Total - Cardinality(Downloading)

Active == ~ paused /\ closing = "no" /\ SpiderOpen

(* There is room for another request and there are others, but             *)
(* next_request returns None, as the scheduler may do (RequestStore): the  *)
(* loop breaks and the rest is left to the heartbeat.                      *)
Refused(S) == S # At("scheduled") /\ Cardinality(S) < Free

(* The requests that one call sends are S. *)
Sends(S) ==
  /\ S \subseteq At("scheduled")
  /\ Cardinality(S) <= Free
  /\ Refused(S) => refusals < MaxRefusals

NextCall ==
  /\ Running
  /\ Active
  /\ ~ (Idle /\ closeIfIdle)
  /\ \E S \in SUBSET Request :
       /\ Sends(S)
       /\ req' = [r \in Request |-> IF r \in S THEN "downloading" ELSE req[r]]
       /\ refused' = Refused(S)
       /\ refusals' = IF Refused(S) THEN refusals + 1 ELSE refusals
  /\ nextcall' = "idle"
  /\ WakeStarter
  /\ UNCHANGED <<item, direct, startOver, heartbeat, closing, close, running, stop,
                 closeIfIdle, paused, pauses, vetoes>>

(* _spider_idle: handlers may crawl requests, of which duplicates are      *)
(* dropped, and object to the closing; it is checked again that nothing    *)
(* came up.                                                                *)
BuggyStillIdle(crawled) == TRUE
StillIdle(crawled) == crawled = {}

NextCallIdle ==
  /\ Running
  /\ Active
  /\ Idle /\ closeIfIdle
  /\ \E crawled \in SUBSET At("new"), duplicate \in BOOLEAN, veto \in BOOLEAN :
       /\ Cardinality(crawled) <= 1
       /\ veto => vetoes < MaxVetoes
       /\ vetoes' = IF veto THEN vetoes + 1 ELSE vetoes
       /\ req' = [r \in Request |-> IF r \in crawled THEN "scheduled" ELSE req[r]]
       /\ nextcall' = IF crawled = {} /\ ~ duplicate THEN "idle" ELSE "scheduled"
       /\ IF ~ veto /\ StillIdle(crawled) THEN RequestClose("finished")
                                          ELSE UNCHANGED <<phase, reason>>
  /\ refused' = FALSE
  /\ WakeStarter
  /\ UNCHANGED <<item, direct, startOver, heartbeat, closing, scraperClosing, running,
                 stop, closeIfIdle, paused, pauses, refusals>>

BuggyHeartBeat ==
  /\ heartbeat
  /\ nextcall = "idle"
  /\ At("scheduled") # {}
  /\ nextcall' = "scheduled"
  /\ UNCHANGED <<work, start, heartbeat, closing, close, running, stop, env>>

(* Every five seconds nextcall is scheduled, if it is not already. *)
HeartBeat ==
  /\ heartbeat
  /\ nextcall = "idle"
  /\ nextcall' = "scheduled"
  /\ UNCHANGED <<work, start, heartbeat, closing, close, running, stop, env>>

-----------------------------------------------------------------------------
(* Requests in progress. *)

(* fetch returns a response or fails: the scraper slot takes it over. *)
Fetched(r) ==
  /\ req[r] = "downloading"
  /\ req' = [req EXCEPT ![r] = "scraping"]
  /\ nextcall' = Schedule(nextcall)
  /\ UNCHANGED <<item, direct, start, heartbeat, closing, close, running, stop, env>>

(* A middleware answers with another request, which may be dropped as a    *)
(* duplicate.                                                              *)
Redirected(r) ==
  /\ req[r] = "downloading"
  /\ \E S \in SUBSET At("new") :
       /\ Cardinality(S) <= 1
       /\ req' = [q \in Request |-> IF q = r THEN "done"
                                    ELSE IF q \in S THEN "scheduled" ELSE req[q]]
  /\ RemoveAndSchedule(r, Schedule(nextcall))
  /\ UNCHANGED <<item, direct, start, close, running, stop, env>>

(* The callback of r yields a request, perhaps a duplicate. *)
Yields(r, n) ==
  /\ req[r] = "scraping"
  /\ req[n] = "new"
  /\ \E where \in {"scheduled", "done"} : req' = [req EXCEPT ![n] = where]
  /\ nextcall' = Schedule(nextcall)
  /\ UNCHANGED <<item, direct, start, heartbeat, closing, close, running, stop, env>>

BuggyCheckIfClosing(c, idle) == scraperClosing' = IF idle THEN "fired" ELSE c

(* _check_if_closing, when the scraper slot is idle or not. *)
CheckIfClosing(c, idle) ==
  scraperClosing' = IF c # "no" /\ idle THEN "fired" ELSE c

(* finish_response in enqueue_scrape, then _remove_request. *)
Scraped(r) ==
  /\ req[r] = "scraping"
  /\ req' = [req EXCEPT ![r] = "done"]
  /\ CheckIfClosing(scraperClosing,
                    At("scraping") = {r} /\ \A i \in Item : item[i] # "processing")
  /\ RemoveAndSchedule(r, nextcall)
  /\ UNCHANGED <<item, direct, start, phase, reason, running, stop, env>>

(* An item of start() leaves the pipelines: nobody is told. *)
ItemDone(i) ==
  /\ item[i] = "processing"
  /\ item' = [item EXCEPT ![i] = "done"]
  /\ UNCHANGED <<req, direct, start, slot, close, running, stop, env>>

DirectStart(d) ==
  /\ direct[d] = "new"
  /\ SpiderOpen
  /\ direct' = [direct EXCEPT ![d] = "downloading"]
  /\ UNCHANGED <<req, item, start, slot, close, running, stop, env>>

(* remove_request raises AlreadyCalledError when closing has already fired *)
(* and nothing else is in progress; without a slot it fails too.           *)
RemoveFails(d) == ~ SpiderOpen \/ (closing = "fired" /\ Inprogress = {d})

DirectEnds(d) ==
  /\ direct[d] = "downloading"
  /\ direct' = [direct EXCEPT ![d] = IF RemoveFails(d) THEN "error" ELSE "answered"]
  /\ IF SpiderOpen THEN RemoveAndSchedule(d, Schedule(nextcall)) ELSE UNCHANGED slot
  /\ UNCHANGED <<req, item, start, close, running, stop, env>>

(* download_async follows a redirect: the request leaves, another enters. *)
DirectRedirected(d) ==
  /\ direct[d] = "downloading"
  /\ SpiderOpen
  /\ direct' = [direct EXCEPT ![d] = IF RemoveFails(d) THEN "error" ELSE @]
  /\ RemoveAndSchedule(d, Schedule(nextcall))
  /\ UNCHANGED <<req, item, start, close, running, stop, env>>

-----------------------------------------------------------------------------
(* Closing the spider and stopping the engine. *)

(* An extension, a callback raising CloseSpider. *)
AskToClose ==
  /\ phase = "none"
  /\ RequestClose("cancelled")
  /\ UNCHANGED <<work, start, slot, scraperClosing, running, stop, env>>

(* close_spider_async up to its first await. *)
StartClose ==
  /\ phase = "requested"
  /\ phase' = "requests"
  /\ MaybeFire("waiting", Inprogress)
  /\ UNCHANGED <<work, start, scraperClosing, reason, running, stop, env>>

(* The downloader is closed; the scraper fires its deferred once idle. *)
CloseScraper ==
  /\ phase = "requests"
  /\ closing = "fired"
  /\ phase' = "scraper"
  /\ CheckIfClosing("waiting", ScraperIdle)
  /\ UNCHANGED <<work, start, slot, reason, running, stop, env>>

ClosePipelines ==
  /\ phase = "scraper"
  /\ scraperClosing = "fired"
  /\ phase' = "pipelines"
  /\ UNCHANGED <<work, start, slot, scraperClosing, reason, running, stop, env>>

(* Scheduler and stats are closed, the slot and the spider dropped; the    *)
(* crawler's callback stops the engine if nobody has asked for that.       *)
SpiderClosed ==
  /\ phase = "pipelines"
  /\ phase' = "closed"
  /\ running' = FALSE
  /\ starter' = "off"
  /\ stop' = IF stop \in {"no", "closer"} THEN "stopped" ELSE stop
  /\ UNCHANGED <<work, startOver, slot, scraperClosing, reason, env>>

BuggyStopAsync ==
  /\ running
  /\ running' = FALSE
  /\ IF closing = "no"
     THEN /\ stop' = "closer" /\ phase' = "requests" /\ reason' = "shutdown"
          /\ MaybeFire("waiting", Inprogress)
     ELSE stop' = "waiter" /\ UNCHANGED <<phase, reason, slot>>
  /\ UNCHANGED <<work, start, scraperClosing, env>>

(* Crawler.stop_async: the start() task is cancelled and the spider closed *)
(* from here, or the close that is under way is waited for, but only until *)
(* its requests are done.                                                  *)
StopAsync ==
  /\ running
  /\ running' = FALSE
  /\ starter' = "off"
  /\ IF closing = "no"
     THEN /\ stop' = "closer" /\ phase' = "requests" /\ reason' = "shutdown"
          /\ MaybeFire("waiting", Inprogress)
     ELSE stop' = "waiter" /\ UNCHANGED <<phase, reason, slot>>
  /\ UNCHANGED <<work, startOver, scraperClosing, env>>

StopWaited ==
  /\ stop = "waiter"
  /\ closing = "fired"
  /\ stop' = "stopped"
  /\ UNCHANGED <<work, start, slot, close, running, env>>

Pause ==
  /\ ~ paused
  /\ pauses < MaxPauses
  /\ paused' = TRUE
  /\ pauses' = pauses + 1
  /\ UNCHANGED <<work, start, slot, close, running, stop, closeIfIdle, vetoes, asked>>

Unpause ==
  /\ paused
  /\ paused' = FALSE
  /\ UNCHANGED <<work, start, slot, close, running, stop, closeIfIdle, pauses, vetoes, asked>>

-----------------------------------------------------------------------------
Pull == (\E r \in Request : PullRequest(r)) \/ (\E i \in Item : PullItem(i))
          \/ PullEnd \/ PullCloseSpider

RunNextCall == NextCallReturns \/ NextCall \/ NextCallIdle

Progress(r) == Fetched(r) \/ Redirected(r) \/ Scraped(r)

CloseStep == StartClose \/ CloseScraper \/ ClosePipelines \/ SpiderClosed

Next ==
  \/ Pull \/ RunNextCall \/ HeartBeat
  \/ \E r \in Request : Progress(r) \/ \E n \in Request : Yields(r, n)
  \/ \E i \in Item : ItemDone(i)
  \/ \E d \in Direct : DirectStart(d) \/ DirectEnds(d) \/ DirectRedirected(d)
  \/ AskToClose \/ CloseStep \/ StopAsync \/ StopWaited
  \/ Pause \/ Unpause

Spec == Init /\ [][Next]_vars

(* The event loop runs what is ready and the heartbeat goes on; start(),   *)
(* downloads, callbacks and pipelines end.                                 *)
FairSpec ==
  /\ Spec
  /\ WF_vars(Pull) /\ WF_vars(RunNextCall) /\ WF_vars(HeartBeat)
  /\ WF_vars(CloseStep) /\ WF_vars(StopWaited)
  /\ \A r \in Request : WF_vars(Progress(r))
  /\ \A i \in Item : WF_vars(ItemDone(i))
  /\ \A d \in Direct : WF_vars(DirectEnds(d))

-----------------------------------------------------------------------------
(* The engine's state, and how the two deferreds and the phases of closing *)
(* go together.                                                            *)
TypeOK ==
  /\ req \in [Request -> {"new", "scheduled", "downloading", "scraping", "done"}]
  /\ item \in [Item -> {"new", "processing", "done"}]
  /\ direct \in [Direct -> {"new", "downloading", "answered", "error"}]
  /\ startOver \in BOOLEAN /\ running \in BOOLEAN /\ heartbeat \in BOOLEAN
  /\ refused \in BOOLEAN /\ refusals \in 0 .. MaxRefusals
  /\ starter \in {"pull", "wait", "off"}
  /\ nextcall \in {"idle", "scheduled", "cancelled"}
  /\ phase \in {"none", "requested", "requests", "scraper", "pipelines", "closed"}
  /\ reason \in {"none", "finished", "cancelled", "shutdown"}
  /\ stop \in {"no", "closer", "waiter", "stopped"}
  /\ closing = "no" <=> phase \in {"none", "requested"}
  /\ phase \in {"scraper", "pipelines", "closed"} => closing = "fired"
  /\ scraperClosing = "no" <=> phase \in {"none", "requested", "requests"}
  /\ phase \in {"pipelines", "closed"} => scraperClosing = "fired"
  /\ stop = "no" <=> running

(* Once the downloader is closed, no request of the crawl is in the        *)
(* downloader or the scraper, and none gets there any more, whatever       *)
(* nextcall and start() still do.  So it is when the engine says that it   *)
(* has stopped, although a stop that finds a close under way does not wait *)
(* for the spider to be closed.                                            *)
ClosedDrained ==
  closing = "fired" \/ stop = "stopped" => At("downloading") \cup At("scraping") = {}

(* A spider that closes because it has finished has nothing left to do:    *)
(* no request in the scheduler, no item in the pipelines, start() over.    *)
FinishedMeansFinished ==
  reason = "finished" =>
    startOver /\ ScraperIdle /\ At("scheduled") \cup At("downloading") = {}

(* The pipelines of a spider that finishes or is shut down are closed      *)
(* after the last item has left them.                                      *)
PipelinesCloseLast ==
  phase \in {"pipelines", "closed"} /\ reason \in {"finished", "shutdown"} =>
    \A i \in Item : item[i] # "processing"

(* Whenever a request could be sent, a call of nextcall is on its way,     *)
(* unless the engine was paused.  Only a None of the scheduler with        *)
(* requests pending, the scenario the heartbeat is there for, leaves them  *)
(* to the heartbeat, and then it is running.                               *)
NeverSleepsOnWork ==
  At("scheduled") # {} /\ ~ NeedsBackout /\ pauses = 0 =>
    nextcall = "scheduled" \/ (refused /\ heartbeat)

(* The scraper became idle after it was asked to close, by the end of an   *)
(* item of start(): its deferred will not fire.                            *)
MissedWakeup == phase = "scraper" /\ scraperClosing = "waiting" /\ ScraperIdle

(* "In all cases, close the spider and the downloader": once a close has   *)
(* begun the spider is closed.                                             *)
CloseEnds == phase # "none" ~> phase = "closed"

(* Items of start() still in the pipelines are the only obstacle, and a    *)
(* crawl that nobody interrupts closes by itself.                          *)
CrawlEnds ==
  \/ <>(phase = "closed" \/ MissedWakeup)
  \/ <>[]paused
  \/ (~ closeIfIdle /\ [](phase = "none"))
=============================================================================
