-------------------------- MODULE ScrapyEngineProofs --------------------------
(***************************************************************************)
(* The safety of closing a crawl (engine.py, scraper.py), for any finite   *)
(* sets of requests, items and downloads and all limits: what is closed is *)
(* drained, what has finished is finished, pipelines close last, and no    *)
(* wake-up is missed.                                                      *)
(***************************************************************************)
EXTENDS ScrapyEngine, FiniteSetTheorems, TLAPS

(* How the control state hangs together: what close was asked for, that    *)
(* start() is not pulled once it is over or cancelled, and that only the   *)
(* end of closing takes nextcall and the heartbeat away.                   *)
Control ==
  /\ reason = "none" <=> phase = "none"
  /\ startOver => starter # "pull"
  /\ reason = "shutdown" => starter = "off"
  /\ nextcall = "cancelled" \/ stop = "stopped" => closing = "fired"
  /\ closing = "no" => heartbeat
  /\ pauses \in Nat /\ paused \in BOOLEAN
  /\ paused => pauses # 0

NoItem == \A i \in Item : item[i] # "processing"

Drained == closing = "fired" => At("downloading") \cup At("scraping") = {}

(* After stop_async the scraper is told of its idleness for good. *)
ShutDown == reason = "shutdown" /\ scraperClosing = "fired" => NoItem

IInv ==
  TypeOK /\ Control /\ Drained /\ FinishedMeansFinished /\ ShutDown /\ NeverSleepsOnWork

-----------------------------------------------------------------------------
(* The crawl starts in the invariant. *)
LEMMA InitIInv == Init => IInv
<1> SUFFICES ASSUME Init PROVE IInv
  OBVIOUS
<1>1. TypeOK
  <2>1. refusals \in 0 .. MaxRefusals
    BY EngineAssumption DEF Init
  <2> QED
    BY <2>1 DEF Init, TypeOK
<1>2. Control
  BY DEF Init, Control
<1>3. Drained /\ FinishedMeansFinished /\ ShutDown
  BY DEF Init, Drained, FinishedMeansFinished, ShutDown
<1>4. NeverSleepsOnWork
  BY DEF Init, NeverSleepsOnWork
<1> QED
  BY <1>1, <1>2, <1>3, <1>4 DEF IInv

Calls == {"idle", "scheduled", "cancelled"}

(* What the end of a request does to the slot: it may fire the closing     *)
(* deferred, and cancels nextcall only then.                               *)
LEMMA RemoveAndScheduleFacts ==
  ASSUME heartbeat \in BOOLEAN, NEW r, NEW n \in Calls, RemoveAndSchedule(r, n)
  PROVE  /\ heartbeat' \in BOOLEAN
         /\ nextcall' \in Calls
         /\ closing' = closing \/ (closing # "no" /\ closing' = "fired")
         /\ nextcall' = "cancelled" => closing' = "fired" \/ n = "cancelled"
         /\ closing' = "fired" => closing = "fired" \/ Inprogress \ {r} = {}
         /\ closing' = "no" => nextcall' = Schedule(n) /\ heartbeat' = heartbeat
<1>1. heartbeat' \in BOOLEAN
  BY Zenon DEF RemoveAndSchedule
<1> QED
  BY <1>1 DEF RemoveAndSchedule, Schedule, Calls

(* What asking the slot to close does to it. *)
LEMMA MaybeFireFacts ==
  ASSUME heartbeat \in BOOLEAN, nextcall \in Calls, nextcall # "cancelled", NEW left,
         MaybeFire("waiting", left)
  PROVE  /\ heartbeat' \in BOOLEAN
         /\ nextcall' \in Calls
         /\ closing' \in {"waiting", "fired"}
         /\ nextcall' = "cancelled" => closing' = "fired"
         /\ closing' = "fired" => left = {}
<1>1. heartbeat' \in BOOLEAN
  BY Zenon DEF MaybeFire
<1> QED
  BY <1>1 DEF MaybeFire, Calls

(* Every step keeps the shape of the state and its control. *)
LEMMA NextControl == TypeOK /\ Control /\ [Next]_vars => TypeOK' /\ Control'
<1> SUFFICES ASSUME TypeOK, Control, [Next]_vars PROVE TypeOK' /\ Control'
  OBVIOUS
<1> USE EngineAssumption DEF TypeOK, Control, Schedule, SpiderOpen, asked
<1>1. ASSUME NEW r \in Request, PullRequest(r) PROVE TypeOK' /\ Control'
  BY <1>1 DEF PullRequest, close, env
<1>2. ASSUME NEW i \in Item, PullItem(i) PROVE TypeOK' /\ Control'
  BY <1>2 DEF PullItem, close, env
<1>3. CASE PullEnd
  BY <1>3 DEF PullEnd, AfterElement, work, close, env
<1>4. CASE PullCloseSpider
  BY <1>4 DEF PullCloseSpider, AfterElement, RequestClose, work, close, env
<1>5. CASE NextCallReturns
  BY <1>5 DEF NextCallReturns, WakeStarter, work, close, env
<1>6. CASE NextCall
  <2>1. PICK S \in SUBSET Request :
          /\ Sends(S)
          /\ req' = [r \in Request |-> IF r \in S THEN "downloading" ELSE req[r]]
          /\ refused' = Refused(S)
          /\ refusals' = IF Refused(S) THEN refusals + 1 ELSE refusals
    BY <1>6 DEF NextCall
  <2>2. refused' \in BOOLEAN
    BY <2>1, Zenon DEF Refused
  <2>3. refusals' \in 0 .. MaxRefusals
    BY <2>1 DEF Sends
  <2>4. req' \in [Request -> {"new", "scheduled", "downloading", "scraping", "done"}]
    BY <2>1
  <2> QED
    BY <1>6, <2>2, <2>3, <2>4 DEF NextCall, WakeStarter, close
<1>7. CASE NextCallIdle
  BY <1>7 DEF NextCallIdle, Running, Active, WakeStarter, RequestClose, close, env
<1>8. CASE HeartBeat
  BY <1>8 DEF start, HeartBeat, work, close, env
<1>9. ASSUME NEW r \in Request, Fetched(r) PROVE TypeOK' /\ Control'
  BY <1>9 DEF start, Fetched, close, env
<1>10. ASSUME NEW r \in Request, Redirected(r) PROVE TypeOK' /\ Control'
  <2>1. /\ req' \in [Request -> {"new", "scheduled", "downloading", "scraping", "done"}]
        /\ UNCHANGED <<item, direct, start, close, running, stop, env>>
    BY <1>10 DEF Redirected
  <2> QED
    BY <1>10, <2>1, RemoveAndScheduleFacts DEF Redirected, Calls, start, close, env
<1>11. ASSUME NEW r \in Request, Scraped(r) PROVE TypeOK' /\ Control'
  <2>1. /\ req' \in [Request -> {"new", "scheduled", "downloading", "scraping", "done"}]
        /\ UNCHANGED <<item, direct, start, phase, reason, running, stop, env>>
    BY <1>11 DEF Scraped
  <2>2. \/ scraperClosing' = scraperClosing
        \/ (scraperClosing # "no" /\ scraperClosing' = "fired")
    BY <1>11 DEF Scraped, CheckIfClosing
  <2> QED
    BY <1>11, <2>1, <2>2, RemoveAndScheduleFacts DEF Scraped, Calls, start, env
<1>12. ASSUME NEW r \in Request, NEW n \in Request, Yields(r, n) PROVE TypeOK' /\ Control'
  BY <1>12 DEF start, Yields, close, env
<1>13. ASSUME NEW i \in Item, ItemDone(i) PROVE TypeOK' /\ Control'
  BY <1>13 DEF start, ItemDone, slot, close, env
<1>14. ASSUME NEW d \in Direct, DirectStart(d) PROVE TypeOK' /\ Control'
  BY <1>14 DEF start, DirectStart, slot, close, env
<1>15. ASSUME NEW d \in Direct, DirectEnds(d) PROVE TypeOK' /\ Control'
  <2>1. /\ direct' \in [Direct -> {"new", "downloading", "answered", "error"}]
        /\ UNCHANGED <<req, item, start, close, running, stop, env>>
        /\ UNCHANGED slot \/ RemoveAndSchedule(d, Schedule(nextcall))
    BY <1>15 DEF DirectEnds
  <2> QED
    BY <2>1, RemoveAndScheduleFacts DEF Calls, start, slot, close, env
<1>16. ASSUME NEW d \in Direct, DirectRedirected(d) PROVE TypeOK' /\ Control'
  <2>1. /\ direct' \in [Direct -> {"new", "downloading", "answered", "error"}]
        /\ UNCHANGED <<req, item, start, close, running, stop, env>>
        /\ RemoveAndSchedule(d, Schedule(nextcall))
    BY <1>16 DEF DirectRedirected
  <2> QED
    BY <2>1, RemoveAndScheduleFacts DEF Calls, start, close, env
<1>17. CASE AskToClose
  BY <1>17 DEF start, AskToClose, RequestClose, work, slot, env
<1>18. CASE StartClose
  <2>1. /\ UNCHANGED <<work, start, scraperClosing, reason, running, stop, env>>
        /\ phase = "requested" /\ phase' = "requests"
        /\ MaybeFire("waiting", Inprogress)
    BY <1>18 DEF StartClose
  <2> QED
    BY <2>1, MaybeFireFacts DEF Calls, start, work, env
<1>19. CASE CloseScraper
  BY <1>19 DEF start, CloseScraper, CheckIfClosing, work, slot, env
<1>20. CASE ClosePipelines \/ SpiderClosed
  <2>1. CASE ClosePipelines
    BY <2>1 DEF ClosePipelines, start, work, slot, env
  <2>2. CASE SpiderClosed
    <3>1. running' \in BOOLEAN /\ ~ running'
      BY <2>2, Zenon DEF SpiderClosed
    <3> QED
      BY <2>2, <3>1 DEF SpiderClosed, work, slot, env
  <2> QED
    BY <1>20, <2>1, <2>2
<1>21. CASE StopAsync
  <2>1. running' \in BOOLEAN /\ ~ running'
    BY <1>21, Zenon DEF StopAsync
  <2>2. UNCHANGED <<work, startOver, scraperClosing, env>> /\ starter' = "off"
    BY <1>21 DEF StopAsync
  <2>3. CASE closing = "no"
    <3>1. /\ stop' = "closer" /\ phase' = "requests" /\ reason' = "shutdown"
          /\ MaybeFire("waiting", Inprogress)
      BY <1>21, <2>3 DEF StopAsync
    <3> QED
      BY <2>1, <2>2, <2>3, <3>1, MaybeFireFacts DEF Calls, work, env
  <2>4. CASE closing # "no"
    BY <1>21, <2>1, <2>2, <2>4 DEF StopAsync, work, slot, env
  <2> QED
    BY <2>3, <2>4
<1>22. CASE StopWaited
  BY <1>22 DEF start, StopWaited, work, slot, close, env
<1>23. CASE Pause \/ Unpause
  <2>1. paused' \in BOOLEAN
    BY <1>23, Zenon DEF Pause, Unpause
  <2> QED
    BY <1>23, <2>1 DEF Pause, Unpause, start, work, slot, close
<1>24. CASE UNCHANGED vars
  BY <1>24 DEF start, vars, work, slot, close, env
<1> QED
  BY <1>1, <1>2, <1>3, <1>4, <1>5, <1>6, <1>7, <1>8, <1>9, <1>10, <1>11, <1>12, <1>13,
     <1>14, <1>15, <1>16, <1>17, <1>18, <1>19, <1>20, <1>21, <1>22, <1>23, <1>24
     DEF Next, Pull, RunNextCall, Progress, CloseStep

-----------------------------------------------------------------------------
(* What a step does to the requests that are in the downloader and in the  *)
(* scraper: only a running call of nextcall sends requests, before closing.*)
LEMMA NothingSent ==
  ASSUME TypeOK, [Next]_vars, closing # "no"
  PROVE  At("downloading")' \cup At("scraping")' \subseteq At("downloading") \cup At("scraping")
<1> USE DEF TypeOK, At
<1>1. ASSUME NEW r \in Request, PullRequest(r)
      PROVE  At("downloading")' \cup At("scraping")' \subseteq At("downloading") \cup At("scraping")
  BY <1>1 DEF PullRequest
<1>2. CASE NextCall
  BY <1>2 DEF NextCall, Active
<1>3. CASE NextCallIdle
  BY <1>3 DEF NextCallIdle, Active
<1>4. ASSUME NEW r \in Request, Fetched(r) \/ Redirected(r) \/ Scraped(r)
      PROVE  At("downloading")' \cup At("scraping")' \subseteq At("downloading") \cup At("scraping")
  BY <1>4 DEF Fetched, Redirected, Scraped
<1>5. ASSUME NEW r \in Request, NEW n \in Request, Yields(r, n)
      PROVE  At("downloading")' \cup At("scraping")' \subseteq At("downloading") \cup At("scraping")
  BY <1>5 DEF Yields
<1>6. CASE UNCHANGED req
  BY <1>6
<1> QED
  <2>1. ASSUME NEW i \in Item, PullItem(i) \/ ItemDone(i) PROVE UNCHANGED req
    BY <2>1 DEF PullItem, ItemDone
  <2>2. CASE PullEnd \/ PullCloseSpider \/ NextCallReturns \/ HeartBeat
    BY <1>6, <2>2 DEF PullEnd, PullCloseSpider, NextCallReturns, HeartBeat, work
  <2>3. ASSUME NEW d \in Direct, DirectStart(d) \/ DirectEnds(d) \/ DirectRedirected(d)
        PROVE  UNCHANGED req
    BY <2>3 DEF DirectStart, DirectEnds, DirectRedirected
  <2>4. CASE AskToClose \/ CloseStep \/ StopAsync \/ StopWaited \/ Pause \/ Unpause
    BY <1>6, <2>4 DEF AskToClose, CloseStep, StartClose, CloseScraper, ClosePipelines,
       SpiderClosed, StopAsync, StopWaited, Pause, Unpause, work
  <2>5. CASE UNCHANGED vars
    BY <1>6, <2>5 DEF vars, work
  <2> QED
    BY <1>1, <1>2, <1>3, <1>4, <1>5, <1>6, <2>1, <2>2, <2>3, <2>4, <2>5
       DEF Next, Pull, RunNextCall, Progress

(* The closing deferred fires only when the crawl's requests are done.     *)
LEMMA NextDrained ==
  ASSUME TypeOK, Control, Drained, [Next]_vars
  PROVE  Drained'
<1> USE DEF Drained
<1>1. CASE closing = "fired"
  BY <1>1, NothingSent DEF TypeOK
<1>2. ASSUME NEW r \in Request, Redirected(r) \/ Scraped(r), closing' = "fired",
             closing # "fired"
      PROVE  At("downloading")' \cup At("scraping")' = {}
  <2>1. Inprogress \ {r} = {}
    BY <1>2 DEF Redirected, Scraped, RemoveAndSchedule
  <2>2. \A q \in Request : req[q] \in {"downloading", "scraping"} => q = r
    BY <2>1 DEF Inprogress, At
  <2>3. req' \in [Request -> {"new", "scheduled", "downloading", "scraping", "done"}]
    BY <1>2 DEF Redirected, Scraped, TypeOK
  <2>4. req'[r] = "done" /\ \A q \in Request \ {r} : req'[q] \in {req[q], "scheduled"}
    BY <1>2 DEF Redirected, Scraped, TypeOK, At
  <2> QED
    BY <2>2, <2>4 DEF At
<1>3. ASSUME NEW d \in Direct, DirectEnds(d) \/ DirectRedirected(d), closing' = "fired",
             closing # "fired"
      PROVE  At("downloading")' \cup At("scraping")' = {}
  <2>1. RemoveAndSchedule(d, Schedule(nextcall)) /\ UNCHANGED req
    BY <1>3 DEF DirectEnds, DirectRedirected, slot
  <2>2. Inprogress \ {d} = {}
    BY <1>3, <2>1 DEF RemoveAndSchedule
  <2>3. At("downloading") \cup At("scraping") = {}
    BY <2>2, EngineAssumption DEF Inprogress, At
  <2> QED
    BY <2>1, <2>3 DEF At
<1>4. ASSUME StartClose \/ StopAsync, closing' = "fired", closing # "fired"
      PROVE  At("downloading")' \cup At("scraping")' = {}
  <2>1. MaybeFire("waiting", Inprogress) /\ UNCHANGED req
    BY <1>4 DEF StartClose, StopAsync, slot, work
  <2>2. Inprogress = {}
    BY <1>4, <2>1 DEF MaybeFire
  <2> QED
    BY <2>1, <2>2 DEF Inprogress, At
<1>5. ASSUME closing' = "fired", closing # "fired",
             ~ \E r \in Request : Redirected(r) \/ Scraped(r),
             ~ \E d \in Direct : DirectEnds(d) \/ DirectRedirected(d)
      PROVE  StartClose \/ StopAsync
  <2>1. \/ UNCHANGED closing \/ StartClose \/ StopAsync
    <3>1. ASSUME NEW r \in Request, PullRequest(r) \/ Fetched(r) PROVE UNCHANGED closing
      BY <3>1 DEF PullRequest, Fetched
    <3>2. ASSUME NEW r \in Request, NEW n \in Request, Yields(r, n) PROVE UNCHANGED closing
      BY <3>2 DEF Yields
    <3>3. ASSUME NEW i \in Item, PullItem(i) \/ ItemDone(i) PROVE UNCHANGED closing
      BY <3>3 DEF PullItem, ItemDone, slot
    <3>4. ASSUME NEW d \in Direct, DirectStart(d) PROVE UNCHANGED closing
      BY <3>4 DEF DirectStart, slot
    <3>5. CASE PullEnd \/ PullCloseSpider \/ RunNextCall \/ HeartBeat
      BY <3>5 DEF PullEnd, PullCloseSpider, RunNextCall, NextCallReturns, NextCall,
         NextCallIdle, HeartBeat
    <3>6. CASE AskToClose \/ CloseScraper \/ ClosePipelines \/ SpiderClosed \/ StopWaited
      BY <3>6 DEF AskToClose, CloseScraper, ClosePipelines, SpiderClosed, StopWaited, slot
    <3>7. CASE Pause \/ Unpause \/ UNCHANGED vars
      BY <3>7 DEF Pause, Unpause, vars, slot
    <3> QED
      BY <1>5, <3>1, <3>2, <3>3, <3>4, <3>5, <3>6, <3>7
         DEF Next, Pull, Progress, CloseStep
  <2> QED
    BY <1>5, <2>1
<1> QED
  BY <1>1, <1>2, <1>3, <1>4, <1>5

-----------------------------------------------------------------------------
(* A spider that has finished stays finished: nothing is left that could   *)
(* produce a request or an item.                                           *)
LEMMA NextFinished ==
  ASSUME TypeOK, Control, FinishedMeansFinished, [Next]_vars
  PROVE  FinishedMeansFinished'
<1> USE DEF FinishedMeansFinished, ScraperIdle, At
<1>1. CASE reason = "finished"
  <2>1. startOver /\ starter # "pull" /\ \A r \in Request : req[r] \in {"new", "done"}
    BY <1>1 DEF Control, TypeOK
  <2>2. \A i \in Item : item[i] # "processing"
    BY <1>1
  <2>3. ~ Pull
    BY <2>1 DEF Pull, PullRequest, PullItem, PullEnd, PullCloseSpider
  <2>4. ~ NextCallIdle
    BY <1>1 DEF NextCallIdle, Running, Active, Control, TypeOK
  <2>5. \A r \in Request : ~ Progress(r) /\ \A n \in Request : ~ Yields(r, n)
    BY <2>1 DEF Progress, Fetched, Redirected, Scraped, Yields
  <2>6. \A i \in Item : ~ ItemDone(i)
    BY <2>2 DEF ItemDone
  <2>7. UNCHANGED <<req, item, startOver>>
    <3>1. CASE NextCall
      <4>1. PICK S \in SUBSET Request :
              /\ S \subseteq At("scheduled")
              /\ req' = [r \in Request |-> IF r \in S THEN "downloading" ELSE req[r]]
        BY <3>1 DEF NextCall, Sends
      <4>2. S = {}
        BY <2>1, <4>1
      <4>3. req' = req
        BY <4>1, <4>2 DEF TypeOK
      <4> QED
        BY <3>1, <4>3 DEF NextCall
    <3>2. CASE NextCallReturns \/ HeartBeat
      BY <3>2 DEF NextCallReturns, HeartBeat, work, start
    <3>3. ASSUME NEW d \in Direct, DirectStart(d) \/ DirectEnds(d) \/ DirectRedirected(d)
          PROVE  UNCHANGED <<req, item, startOver>>
      BY <3>3 DEF DirectStart, DirectEnds, DirectRedirected, start
    <3>4. CASE AskToClose \/ CloseStep
      BY <3>4 DEF AskToClose, CloseStep, StartClose, CloseScraper, ClosePipelines,
         SpiderClosed, work, start
    <3>5. CASE StopAsync \/ StopWaited
      BY <3>5 DEF StopAsync, StopWaited, work, start
    <3>6. CASE Pause \/ Unpause \/ UNCHANGED vars
      BY <3>6 DEF Pause, Unpause, vars, work, start
    <3> QED
      BY <2>3, <2>4, <2>5, <2>6, <3>1, <3>2, <3>3, <3>4, <3>5, <3>6 DEF Next, RunNextCall
  <2> QED
    BY <2>1, <2>2, <2>7
<1>2. CASE reason # "finished" /\ reason' = "finished"
  <2>1. NextCallIdle
    <3>1. ASSUME NEW r \in Request, PullRequest(r) \/ Progress(r) PROVE UNCHANGED reason
      BY <3>1 DEF PullRequest, Progress, Fetched, Redirected, Scraped, close
    <3>2. ASSUME NEW r \in Request, NEW n \in Request, Yields(r, n) PROVE UNCHANGED reason
      BY <3>2 DEF Yields, close
    <3>3. ASSUME NEW i \in Item, PullItem(i) \/ ItemDone(i) PROVE UNCHANGED reason
      BY <3>3 DEF PullItem, ItemDone, close
    <3>4. ASSUME NEW d \in Direct, DirectStart(d) \/ DirectEnds(d) \/ DirectRedirected(d)
          PROVE  UNCHANGED reason
      BY <3>4 DEF DirectStart, DirectEnds, DirectRedirected, close
    <3>5. CASE PullEnd \/ NextCallReturns \/ NextCall \/ HeartBeat
      BY <1>2, <3>5 DEF PullEnd, NextCallReturns, NextCall, HeartBeat, close
    <3>6. CASE PullCloseSpider \/ AskToClose
      BY <1>2, <3>6 DEF PullCloseSpider, AskToClose, RequestClose
    <3>7. CASE CloseStep \/ StopWaited
      BY <1>2, <3>7 DEF CloseStep, StartClose, CloseScraper, ClosePipelines,
         SpiderClosed, StopWaited, close
    <3>8. CASE StopAsync
      BY <1>2, <3>8 DEF StopAsync
    <3>9. CASE Pause \/ Unpause \/ UNCHANGED vars
      BY <1>2, <3>9 DEF Pause, Unpause, vars, close
    <3> QED
      BY <1>2, <3>1, <3>2, <3>3, <3>4, <3>5, <3>6, <3>7, <3>8, <3>9
         DEF Next, Pull, RunNextCall
  <2>2. Idle /\ UNCHANGED <<item, startOver>>
    BY <2>1 DEF NextCallIdle
  <2>3. UNCHANGED req
    <3>1. PICK crawled \in SUBSET At("new"), veto \in BOOLEAN :
            /\ req' = [r \in Request |-> IF r \in crawled THEN "scheduled" ELSE req[r]]
            /\ IF ~ veto /\ StillIdle(crawled) THEN RequestClose("finished")
                                               ELSE UNCHANGED <<phase, reason>>
      BY <2>1 DEF NextCallIdle
    <3>2. crawled = {}
      BY <1>2, <3>1 DEF StillIdle
    <3> QED
      BY <3>1, <3>2 DEF TypeOK
  <2> QED
    BY <2>2, <2>3 DEF Idle, Downloading
<1> QED
  BY <1>1, <1>2

(* After stop_async nothing enters the pipelines any more, and the scraper *)
(* is told that it may close them only when they are empty.                *)
LEMMA NextShutDown ==
  ASSUME TypeOK, Control, ShutDown, [Next]_vars
  PROVE  ShutDown'
<1> SUFFICES ASSUME reason' = "shutdown", scraperClosing' = "fired" PROVE NoItem'
  BY DEF ShutDown
<1> USE DEF ShutDown, NoItem
<1>1. ASSUME NEW i \in Item, PullItem(i) PROVE NoItem'
  BY <1>1 DEF PullItem, Control, close
<1>2. ASSUME NEW i \in Item, ItemDone(i) PROVE NoItem'
  BY <1>2 DEF ItemDone, close, TypeOK
<1>3. ASSUME NEW r \in Request, Scraped(r) PROVE NoItem'
  BY <1>3 DEF Scraped, CheckIfClosing
<1>4. CASE CloseScraper
  BY <1>4 DEF CloseScraper, CheckIfClosing, ScraperIdle, work
<1>5. CASE StopAsync
  BY <1>5 DEF StopAsync, TypeOK, work
<1>6. CASE UNCHANGED <<item, scraperClosing>> /\ (reason = "shutdown" \/ reason' # "shutdown")
  BY <1>6
<1> QED
  <2>1. ASSUME NEW r \in Request, PullRequest(r) \/ Fetched(r) \/ Redirected(r) PROVE NoItem'
    BY <1>6, <2>1 DEF PullRequest, Fetched, Redirected, close
  <2>2. ASSUME NEW r \in Request, NEW n \in Request, Yields(r, n) PROVE NoItem'
    BY <1>6, <2>2 DEF Yields, close
  <2>3. ASSUME NEW d \in Direct, DirectStart(d) \/ DirectEnds(d) \/ DirectRedirected(d)
        PROVE  NoItem'
    BY <1>6, <2>3 DEF DirectStart, DirectEnds, DirectRedirected, close
  <2>4. CASE PullEnd \/ NextCallReturns \/ NextCall \/ HeartBeat
    BY <1>6, <2>4 DEF PullEnd, NextCallReturns, NextCall, HeartBeat, work, close
  <2>5. CASE PullCloseSpider \/ AskToClose
    BY <1>6, <2>5 DEF PullCloseSpider, AskToClose, RequestClose, work
  <2>6. CASE NextCallIdle
    BY <1>6, <2>6 DEF NextCallIdle, RequestClose
  <2>7. CASE StartClose \/ ClosePipelines \/ SpiderClosed \/ StopWaited
    BY <1>6, <2>7 DEF StartClose, ClosePipelines, SpiderClosed, StopWaited, work, close
  <2>8. CASE Pause \/ Unpause \/ UNCHANGED vars
    BY <1>6, <2>8 DEF Pause, Unpause, vars, work, close
  <2> QED
    BY <1>1, <1>2, <1>3, <1>4, <1>5, <2>1, <2>2, <2>3, <2>4, <2>5, <2>6, <2>7, <2>8
       DEF Next, Pull, RunNextCall, Progress, CloseStep

-----------------------------------------------------------------------------
(* The sets that backout counts are finite, and so are the scheduled ones. *)
LEMMA FiniteParts ==
  /\ IsFiniteSet(At("scheduled")) /\ IsFiniteSet(Downloading) /\ IsFiniteSet(Downloading')
  /\ IsFiniteSet(At("scraping")')
  /\ Cardinality(At("scheduled")) \in Nat /\ Cardinality(Downloading) \in Nat
  /\ Cardinality(At("scheduled")) <= Cardinality(Request)
  /\ Cardinality(Request) \in Nat
<1>1. IsFiniteSet(Request) /\ IsFiniteSet(Direct) /\ IsFiniteSet(Request \cup Direct)
  BY EngineAssumption, FS_Union
<1>2. /\ At("scheduled") \in SUBSET Request /\ At("scraping")' \in SUBSET Request
      /\ Downloading \in SUBSET (Request \cup Direct)
      /\ Downloading' \in SUBSET (Request \cup Direct)
  BY DEF At, Downloading, Directs
<1> QED
  BY <1>1, <1>2, FS_Subset, FS_CardinalityType

(* Backout stays as long as no request leaves the downloader or the        *)
(* scraper.                                                                *)
LEMMA BackoutStays ==
  ASSUME NeedsBackout, running' => running, SpiderOpen' => SpiderOpen,
         closing' = "no" => closing = "no",
         At("scraping") \subseteq At("scraping")', Downloading \subseteq Downloading'
  PROVE  NeedsBackout'
<1>1. /\ Cardinality(Downloading) <= Cardinality(Downloading')
      /\ Cardinality(Downloading) \in Nat /\ Cardinality(Downloading') \in Nat
  BY FiniteParts, FS_Subset, FS_CardinalityType
<1>2. /\ Cardinality(At("scraping")) <= Cardinality(At("scraping")')
      /\ Cardinality(At("scraping")) \in Nat /\ Cardinality(At("scraping")') \in Nat
  BY FiniteParts, FS_Subset, FS_CardinalityType
<1>3. DownloaderBackout => DownloaderBackout'
  BY <1>1, EngineAssumption DEF DownloaderBackout
<1>4. ScraperBackout => ScraperBackout'
  BY <1>2, EngineAssumption DEF ScraperBackout
<1> QED
  BY <1>3, <1>4 DEF NeedsBackout

(* A call of nextcall that leaves requests behind has filled the           *)
(* downloader, or could not send any, or was refused one.                  *)
LEMMA NextCallFills ==
  ASSUME TypeOK, NextCall, At("scheduled")' # {}, ~ refused'
  PROVE  NeedsBackout'
<1> DEFINE sched == At("scheduled")
<1>1. PICK S \in SUBSET Request :
        /\ Sends(S)
        /\ req' = [r \in Request |-> IF r \in S THEN "downloading" ELSE req[r]]
        /\ refused' = Refused(S)
  BY DEF NextCall
<1>2. UNCHANGED <<running, closing, phase, direct>>
  BY DEF NextCall, close
<1>3. S \subseteq sched /\ S # sched
  BY <1>1 DEF Sends, At, TypeOK
<1>4. IsFiniteSet(S) /\ Cardinality(S) \in Nat /\ Cardinality(S) < Cardinality(sched)
  BY <1>3, FiniteParts, FS_Subset, FS_CardinalityType
<1>5. Free \in Int
  BY FiniteParts, EngineAssumption DEF Free
<1>6. ~ Cardinality(sched) <= Free /\ Cardinality(S) = Free
  <2>1. ~ Refused(S)
    BY <1>1, Zenon
  <2> QED
    BY <1>1, <1>3, <1>4, <1>5, <2>1, FiniteParts DEF Sends, Refused
<1>7. CASE NeedsBackout
  <2>1. Cardinality(S) = 0
    BY <1>6, <1>7 DEF Free
  <2>2. S = {}
    BY <1>4, <2>1, FS_EmptySet
  <2>3. req' = req
    BY <1>1, <2>2 DEF TypeOK
  <2>4. At("scraping")' = At("scraping") /\ Downloading' = Downloading
    BY <1>2, <2>3 DEF At, Downloading, Directs
  <2> QED
    BY <1>2, <1>7, <2>4, BackoutStays DEF SpiderOpen
<1>8. CASE ~ NeedsBackout
  <2>1. Total # 0
    BY <1>6, <1>8, FiniteParts DEF Free
  <2>2. Free = Total - Cardinality(Downloading)
    BY <1>8, <2>1 DEF Free
  <2>3. Downloading' = Downloading \cup S /\ Downloading \cap S = {}
    BY <1>1, <1>2, <1>3, EngineAssumption DEF Downloading, Directs, At, TypeOK
  <2>4. Cardinality(Downloading') = Cardinality(Downloading) + Cardinality(S)
    <3>1. Cardinality(Downloading \cup S) =
            Cardinality(Downloading) + Cardinality(S) - Cardinality(Downloading \cap S)
      BY <1>4, FiniteParts, FS_Union
    <3>2. Cardinality(Downloading \cap S) = 0
      BY <2>3, FS_EmptySet, Zenon
    <3>3. Cardinality(Downloading') = Cardinality(Downloading \cup S)
      BY <2>3, Zenon
    <3> QED
      BY <1>4, <3>1, <3>2, <3>3, FiniteParts
  <2>5. Cardinality(Downloading') = Total
    BY <1>6, <2>2, <2>4, FiniteParts, EngineAssumption
  <2> QED
    BY <2>1, <2>5, EngineAssumption DEF NeedsBackout, DownloaderBackout
<1> QED
  BY <1>7, <1>8

(* Whatever puts a request into the scheduler, ends one or ends a backout  *)
(* also schedules nextcall.                                                *)
LEMMA NextAwake ==
  ASSUME TypeOK, Control, NeverSleepsOnWork, [Next]_vars
  PROVE  NeverSleepsOnWork'
<1> SUFFICES ASSUME At("scheduled")' # {}, ~ NeedsBackout', pauses' = 0, ~ refused'
             PROVE  nextcall' = "scheduled"
  <2>1. ~ NeedsBackout' => heartbeat'
    BY NextControl DEF NeedsBackout, Control
  <2> QED
    BY <2>1 DEF NeverSleepsOnWork
<1> USE DEF asked
<1>1. TypeOK' /\ Control' /\ closing' = "no" /\ SpiderOpen' /\ running'
  BY NextControl DEF NeedsBackout
<1>2. nextcall' \in {"idle", "scheduled"} /\ ~ paused'
  BY <1>1 DEF TypeOK, Control
<1>3. ASSUME nextcall' = Schedule(nextcall) PROVE nextcall' = "scheduled"
  BY <1>2, <1>3 DEF Schedule
<1>4. ASSUME UNCHANGED <<nextcall, closing, pauses, refused>>,
             At("scheduled")' \subseteq At("scheduled"),
             running' => running, SpiderOpen' => SpiderOpen,
             At("scraping") \subseteq At("scraping")', Downloading \subseteq Downloading'
      PROVE  nextcall' = "scheduled"
  BY <1>4, BackoutStays DEF NeverSleepsOnWork
<1>5. ASSUME NEW r, NEW n \in Calls, RemoveAndSchedule(r, n) , n # "idle" \/ n = nextcall
      PROVE  nextcall' = "scheduled"
  BY <1>1, <1>2, <1>5, RemoveAndScheduleFacts DEF Schedule, TypeOK
<1>6. CASE Pull
  <2>1. ASSUME NEW r \in Request, PullRequest(r) PROVE nextcall' = "scheduled"
    BY <1>3, <2>1 DEF PullRequest
  <2>2. ASSUME NEW i \in Item, PullItem(i) PROVE nextcall' = "scheduled"
    BY <1>3, <2>2 DEF PullItem
  <2>3. CASE PullEnd
    BY <1>3, <1>4, <2>3 DEF PullEnd, AfterElement, work, close, env, SpiderOpen, At,
       Downloading, Directs
  <2>4. CASE PullCloseSpider
    <3>1. SpiderOpen' => SpiderOpen
      BY <2>4 DEF PullCloseSpider, RequestClose, SpiderOpen
    <3> QED
      BY <1>3, <1>4, <2>4, <3>1 DEF PullCloseSpider, AfterElement, work, env, At,
         Downloading, Directs
  <2> QED
    BY <1>6, <2>1, <2>2, <2>3, <2>4 DEF Pull
<1>7. CASE NextCallReturns
  BY <1>1, <1>2, <1>7 DEF NextCallReturns, close, env, SpiderOpen
<1>8. CASE NextCall
  BY <1>8, NextCallFills
<1>9. CASE NextCallIdle
  <2>1. PICK crawled \in SUBSET At("new") :
          /\ req' = [r \in Request |-> IF r \in crawled THEN "scheduled" ELSE req[r]]
          /\ crawled # {} => nextcall' = "scheduled"
    BY <1>9 DEF NextCallIdle
  <2>2. At("scheduled") = {}
    BY <1>9 DEF NextCallIdle, Idle
  <2>3. crawled # {}
    BY <2>1, <2>2 DEF At
  <2> QED
    BY <2>1, <2>3
<1>10. CASE HeartBeat
  BY <1>10 DEF HeartBeat
<1>11. ASSUME NEW r \in Request, Progress(r) PROVE nextcall' = "scheduled"
  <2>1. CASE Fetched(r)
    BY <1>3, <2>1 DEF Fetched
  <2>2. CASE Redirected(r)
    <3>1. RemoveAndSchedule(r, Schedule(nextcall))
      BY <2>2 DEF Redirected
    <3>2. Schedule(nextcall) \in Calls \ {"idle"}
      BY DEF Schedule, Calls, TypeOK
    <3> QED
      BY <1>5, <3>1, <3>2
  <2>3. CASE Scraped(r)
    BY <1>5, <2>3 DEF Scraped, Calls, TypeOK
  <2> QED
    BY <1>11, <2>1, <2>2, <2>3 DEF Progress
<1>12. ASSUME NEW r \in Request, NEW n \in Request, Yields(r, n) PROVE nextcall' = "scheduled"
  BY <1>3, <1>12 DEF Yields
<1>13. ASSUME NEW i \in Item, ItemDone(i) PROVE nextcall' = "scheduled"
  BY <1>4, <1>13 DEF ItemDone, slot, close, env, SpiderOpen, At, Downloading, Directs
<1>14. ASSUME NEW d \in Direct, DirectStart(d) PROVE nextcall' = "scheduled"
  <2>1. Downloading \subseteq Downloading'
    BY <1>14 DEF DirectStart, Downloading, Directs, At, TypeOK
  <2> QED
    BY <1>4, <1>14, <2>1 DEF DirectStart, slot, close, env, SpiderOpen, At
<1>15. ASSUME NEW d \in Direct, DirectEnds(d) \/ DirectRedirected(d)
       PROVE  nextcall' = "scheduled"
  <2>1. SpiderOpen
    BY <1>1, <1>15 DEF DirectEnds, DirectRedirected, close, SpiderOpen
  <2>2. RemoveAndSchedule(d, Schedule(nextcall))
    BY <1>15, <2>1 DEF DirectEnds, DirectRedirected
  <2>3. Schedule(nextcall) \in Calls \ {"idle"}
    BY DEF Schedule, Calls, TypeOK
  <2> QED
    BY <1>5, <2>2, <2>3
<1>16. CASE AskToClose
  <2>1. SpiderOpen' => SpiderOpen
    BY <1>16 DEF AskToClose, RequestClose, SpiderOpen
  <2> QED
    BY <1>4, <1>16, <2>1 DEF AskToClose, work, slot, env, At, Downloading, Directs
<1>17. CASE CloseStep
  BY <1>1, <1>17 DEF CloseStep, StartClose, CloseScraper, ClosePipelines, SpiderClosed, TypeOK
<1>18. CASE StopAsync \/ StopWaited
  BY <1>1, <1>18 DEF StopAsync, StopWaited, slot
<1>19. CASE Pause \/ Unpause
  BY <1>1, <1>19 DEF Pause, Unpause, Control
<1>20. CASE UNCHANGED vars
  BY <1>4, <1>20 DEF vars, work, slot, close, env, SpiderOpen, At, Downloading, Directs
<1> QED
  BY <1>6, <1>7, <1>8, <1>9, <1>10, <1>11, <1>12, <1>13, <1>14, <1>15, <1>16, <1>17,
     <1>18, <1>19, <1>20 DEF Next, RunNextCall

LEMMA NextIInv == IInv /\ [Next]_vars => IInv'
<1> SUFFICES ASSUME IInv, [Next]_vars PROVE IInv'
  OBVIOUS
<1>1. TypeOK' /\ Control'
  BY NextControl DEF IInv
<1>2. Drained'
  BY NextDrained DEF IInv
<1>3. FinishedMeansFinished'
  BY NextFinished DEF IInv
<1>4. ShutDown'
  BY NextShutDown DEF IInv
<1>5. NeverSleepsOnWork'
  BY NextAwake DEF IInv
<1> QED
  BY <1>1, <1>2, <1>3, <1>4, <1>5 DEF IInv

LEMMA Invariant == Spec => []IInv
<1> QED
  BY InitIInv, NextIInv, PTL DEF Spec

-----------------------------------------------------------------------------
(* The engine's state keeps its type, and the two closing deferreds go     *)
(* with the phase close_spider_async is in.                                *)
THEOREM TypeCorrect == Spec => []TypeOK
<1>1. IInv => TypeOK
  BY DEF IInv
<1> QED
  BY <1>1, Invariant, PTL

(* When slot.close() has fired, and when stop_async says that the engine   *)
(* has stopped, no request of the crawl is in the downloader or the        *)
(* scraper, whatever nextcall, start() and the callbacks still do.         *)
THEOREM ClosingDrains == Spec => []ClosedDrained
<1>1. IInv => ClosedDrained
  BY DEF IInv, Control, Drained, ClosedDrained
<1> QED
  BY <1>1, Invariant, PTL

(* A spider closed as "finished" had nothing left, and nothing comes up    *)
(* while it is being closed.                                               *)
THEOREM FinishedIsFinal == Spec => []FinishedMeansFinished
<1>1. IInv => FinishedMeansFinished
  BY DEF IInv
<1> QED
  BY <1>1, Invariant, PTL

(* A spider that finishes or is shut down closes its pipelines after the   *)
(* last item has left them: not so one that is cancelled, whose start()    *)
(* may still yield items.                                                  *)
THEOREM PipelinesLast == Spec => []PipelinesCloseLast
<1>1. IInv => PipelinesCloseLast
  BY DEF IInv, TypeOK, FinishedMeansFinished, ScraperIdle, ShutDown, NoItem,
     PipelinesCloseLast
<1> QED
  BY <1>1, Invariant, PTL

(* A request that could be sent has a call of nextcall on its way, or the  *)
(* scheduler's None ended the last call and the heartbeat, which will make *)
(* the next, is running: no interleaving of start(), downloads, callbacks, *)
(* redirects and download_async forgets it, or leaves it to the heartbeat  *)
(* for any other reason.                                                   *)
THEOREM AwakeOnWork == Spec => []NeverSleepsOnWork
<1>1. IInv => NeverSleepsOnWork
  BY DEF IInv
<1> QED
  BY <1>1, Invariant, PTL
=============================================================================
