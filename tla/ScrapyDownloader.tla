-------------------------- MODULE ScrapyDownloader --------------------------
(***************************************************************************)
(* scrapy/core/downloader/__init__.py: requests wait in one queue per      *)
(* slot (a domain), and a slot transfers a bounded number of them at a     *)
(* time, spaced by a delay.  Everything runs on one event loop: an action  *)
(* is the code between two awaits.  Time is kept relative: how long ago a  *)
(* slot last popped a request and how long until its timer is due.         *)
(***************************************************************************)
EXTENDS Integers, Sequences, FiniteSets

CONSTANTS
  Scheduled,         \* requests the engine takes from its scheduler
  Direct,            \* requests of engine.download_async()
  SlotKey,           \* download slots
  Concurrency,       \* slot.concurrency of each slot
  Delay,             \* slot.delay of each slot
  Delays,            \* what slot.download_delay() may return, per slot
  Totals,            \* values of CONCURRENT_REQUESTS; 0 is no limit
  GcAge,             \* age beyond which the garbage collector drops a slot
  LongAgo,           \* bound: elapsed times are counted up to here
  Loops              \* whether coroutines are started as asyncio tasks

Request == Scheduled \cup Direct

ASSUME SlotsAssumption ==
  /\ Request \cap SlotKey = {}
  /\ Concurrency \in [SlotKey -> Nat \ {0}]
  /\ Delay \in [SlotKey -> Nat]
  /\ \A k \in SlotKey :
       IF Delay[k] = 0 THEN Delays[k] = {0}
       ELSE Delays[k] \subseteq 1 .. LongAgo /\ \E d \in Delays[k] : d <= Delay[k]
  /\ Totals \subseteq Nat /\ GcAge \in Nat /\ Loops \subseteq BOOLEAN
  /\ LongAgo \in Nat /\ \A k \in SlotKey : GcAge + Delay[k] < LongAgo

VARIABLES
  asyncio,  \* is_asyncio_available()
  total,    \* Downloader.total_concurrency
  keyOf,    \* get_slot_key() of each request
  stage,    \* where the coroutine of each request is suspended
  active,   \* Downloader.active
  slots,    \* Downloader.slots
  gc,       \* the garbage collector's loop is running
  closed,   \* the engine has closed the downloader
  ready,    \* the loop's queue of started tasks (requests) and due timers (slots)
  quiet     \* history: time since a request of each slot was last popped

vars == <<asyncio, total, keyOf, stage, active, slots, gc, closed, ready, quiet>>

-----------------------------------------------------------------------------
Idle == -1     \* latercall is None

Stages ==
  {"new",
   "middleware",    \* in process_request
   "queued",        \* in slot.queue
   "launched",      \* popped, its task not started yet
   "transferring",  \* awaiting the download handler
   "failing",       \* the handler raised: awaiting _defer_sleep_async
   "answered",      \* its deferred has fired, _enqueue_request not resumed yet
   "leaving",       \* in process_response or process_exception
   "done"}

NewSlot == [active |-> {}, queue |-> <<>>, transferring |-> {}, since |-> LongAgo,
            timer |-> Idle]

Init ==
  /\ asyncio \in Loops
  /\ total \in Totals
  /\ keyOf \in [Request -> SlotKey]
  /\ stage = [r \in Request |-> "new"]
  /\ active = {}
  /\ slots = [k \in {} |-> NewSlot]
  /\ gc = FALSE
  /\ closed = FALSE
  /\ ready = <<>>
  /\ quiet = [k \in SlotKey |-> LongAgo]

Members(seq) == {seq[i] : i \in DOMAIN seq}

(* 0 < total_concurrency <= len(active) *)
BuggyNeedsBackout == 0 < total /\ total < Cardinality(active)
NeedsBackout == 0 < total /\ total <= Cardinality(active)

BuggyFreeTransferSlots(k, s) == Concurrency[k] - Cardinality(s.transferring) + 1
FreeTransferSlots(k, s) == Concurrency[k] - Cardinality(s.transferring)

(* How many requests one pass pops.  The loop looks at transferring, to    *)
(* which a popped request is added when its coroutine starts: at once, or  *)
(* as an asyncio task on the next turn of the event loop.                  *)
Pops(k, s, delay) ==
  LET free == FreeTransferSlots(k, s)
      waiting == Len(s.queue)
  IN  IF free <= 0 \/ waiting = 0 THEN 0
      ELSE IF delay > 0 THEN 1
      ELSE IF asyncio \/ waiting <= free THEN waiting
      ELSE free

(* _process_queue on slot k, which the caller left as s, the requests'     *)
(* stages being st.  After a pop with a delay the recursive call finds     *)
(* the slot just used and sets the timer.                                  *)
ProcessQueue(k, s, tasks, st) ==
  \E delay \in Delays[k], again \in Delays[k] :
    LET blocked == s.timer # Idle
        penalty == delay - s.since
        n == IF blocked \/ penalty > 0 THEN 0 ELSE Pops(k, s, delay)
        popped == SubSeq(s.queue, 1, n)
        started == IF asyncio THEN {} ELSE Members(popped)
    IN  /\ slots' = [j \in DOMAIN slots \cup {k} |->
             IF j # k THEN slots[j]
             ELSE [active |-> s.active,
                   queue |-> SubSeq(s.queue, n + 1, Len(s.queue)),
                   transferring |-> s.transferring \cup started,
                   since |-> IF n > 0 THEN 0 ELSE s.since,
                   timer |-> IF blocked THEN s.timer
                             ELSE IF penalty > 0 THEN penalty
                             ELSE IF n > 0 /\ delay > 0 THEN again
                             ELSE Idle]]
        /\ stage' = [r \in Request |->
             IF r \notin Members(popped) THEN st[r]
             ELSE IF asyncio THEN "launched" ELSE "transferring"]
        /\ ready' = IF asyncio THEN tasks \o popped ELSE tasks
        /\ quiet' = IF n > 0 THEN [quiet EXCEPT ![k] = 0] ELSE quiet

-----------------------------------------------------------------------------
(* fetch, up to the first await of the middleware chain. *)
Fetch(r) ==
  /\ stage[r] = "new"
  /\ r \in Scheduled => ~ closed /\ ~ NeedsBackout
  /\ active' = active \cup {r}
  /\ stage' = [stage EXCEPT ![r] = "middleware"]
  /\ UNCHANGED <<asyncio, total, keyOf, slots, gc, closed, ready, quiet>>

(* A middleware answers the request itself, or raises. *)
AnswerEarly(r) ==
  /\ stage[r] = "middleware"
  /\ stage' = [stage EXCEPT ![r] = "leaving"]
  /\ UNCHANGED <<asyncio, total, keyOf, active, slots, gc, closed, ready, quiet>>

SlotOf(k) == IF k \in DOMAIN slots THEN slots[k] ELSE NewSlot

BuggyEnqueue(r) ==
  LET k == keyOf[r]
      s == SlotOf(k)
  IN  /\ stage[r] = "middleware"
      /\ gc' = (gc \/ k \notin DOMAIN slots)
      /\ ProcessQueue(k, [s EXCEPT !.active = @ \cup {r}, !.queue = <<r>> \o @],
                      ready, [stage EXCEPT ![r] = "queued"])
      /\ UNCHANGED <<asyncio, total, keyOf, active, closed>>

(* _enqueue_request, with _get_slot; a new slot starts the collector. *)
Enqueue(r) ==
  LET k == keyOf[r]
      s == SlotOf(k)
  IN  /\ stage[r] = "middleware"
      /\ gc' = (gc \/ k \notin DOMAIN slots)
      /\ ProcessQueue(k, [s EXCEPT !.active = @ \cup {r}, !.queue = Append(@, r)],
                      ready, [stage EXCEPT ![r] = "queued"])
      /\ UNCHANGED <<asyncio, total, keyOf, active, closed>>

(* The task of a popped request starts: _download up to the handler. *)
StartTask ==
  /\ ready # <<>>
  /\ LET r == Head(ready) IN
     /\ r \in Request
     /\ stage' = [stage EXCEPT ![r] = "transferring"]
     /\ slots' = [slots EXCEPT ![keyOf[r]].transferring = @ \cup {r}]
  /\ ready' = Tail(ready)
  /\ UNCHANGED <<asyncio, total, keyOf, active, gc, closed, quiet>>

(* The finally block of _download, then the deferred fires. *)
LeaveTransfer(r) ==
  LET k == keyOf[r] IN
  /\ ProcessQueue(k, [slots[k] EXCEPT !.transferring = @ \ {r}],
                  ready, [stage EXCEPT ![r] = "answered"])
  /\ UNCHANGED <<asyncio, total, keyOf, active, gc, closed>>

Downloaded(r) == stage[r] = "transferring" /\ LeaveTransfer(r)

DownloadRaises(r) ==
  /\ stage[r] = "transferring"
  /\ stage' = [stage EXCEPT ![r] = "failing"]
  /\ UNCHANGED <<asyncio, total, keyOf, active, slots, gc, closed, ready, quiet>>

SleepEnds(r) == stage[r] = "failing" /\ LeaveTransfer(r)

(* _enqueue_request resumes and leaves the slot. *)
LeaveSlot(r) ==
  /\ stage[r] = "answered"
  /\ slots' = [slots EXCEPT ![keyOf[r]].active = @ \ {r}]
  /\ stage' = [stage EXCEPT ![r] = "leaving"]
  /\ UNCHANGED <<asyncio, total, keyOf, active, gc, closed, ready, quiet>>

(* The middlewares have seen the response: fetch returns. *)
FetchReturns(r) ==
  /\ stage[r] = "leaving"
  /\ active' = active \ {r}
  /\ stage' = [stage EXCEPT ![r] = "done"]
  /\ UNCHANGED <<asyncio, total, keyOf, slots, gc, closed, ready, quiet>>

-----------------------------------------------------------------------------
(* Timers. *)

Later(t) == IF t < LongAgo THEN t + 1 ELSE t

Tick ==
  /\ slots' = [k \in DOMAIN slots |->
       [slots[k] EXCEPT !.since = Later(@), !.timer = IF @ > 0 THEN @ - 1 ELSE @]]
  /\ quiet' = [k \in SlotKey |-> Later(quiet[k])]
  /\ UNCHANGED <<asyncio, total, keyOf, stage, active, gc, closed, ready>>

TimerDue(k) ==
  /\ k \in DOMAIN slots
  /\ slots[k].timer = 0
  /\ k \notin Members(ready)
  /\ ready' = Append(ready, k)
  /\ UNCHANGED <<asyncio, total, keyOf, stage, active, slots, gc, closed, quiet>>

BuggyLatercall ==
  /\ ready # <<>>
  /\ LET k == Head(ready) IN
     /\ k \in SlotKey
     /\ ProcessQueue(k, slots[k], Tail(ready), stage)
  /\ UNCHANGED <<asyncio, total, keyOf, active, gc, closed>>

(* _latercall *)
Latercall ==
  /\ ready # <<>>
  /\ LET k == Head(ready) IN
     /\ k \in SlotKey
     /\ ProcessQueue(k, [slots[k] EXCEPT !.timer = Idle], Tail(ready), stage)
  /\ UNCHANGED <<asyncio, total, keyOf, active, gc, closed>>

(* Cancelling a timer that is due takes it out of the loop's queue. *)
BuggyCancel(keys) == ready
Cancel(keys) ==
  LET kept[n \in 0 .. Len(ready)] ==
        IF n = 0 THEN <<>>
        ELSE IF ready[n] \in keys THEN kept[n - 1] ELSE Append(kept[n - 1], ready[n])
  IN  kept[Len(ready)]

(* not slot.active and slot.lastseen + slot.delay < now - age *)
BuggyStaleQueue ==
  {k \in DOMAIN slots : slots[k].queue = <<>> /\ slots[k].since > GcAge + Delay[k]}
BuggyStaleAge == {k \in DOMAIN slots : slots[k].active = {}}
Stale == {k \in DOMAIN slots : slots[k].active = {} /\ slots[k].since > GcAge + Delay[k]}

SlotGc ==
  /\ gc
  /\ Stale # {}
  /\ slots' = [k \in DOMAIN slots \ Stale |-> slots[k]]
  /\ ready' = Cancel(Stale)
  /\ UNCHANGED <<asyncio, total, keyOf, stage, active, gc, closed, quiet>>

(* What the engine has waited for.  It counts the direct requests too, but *)
(* download_async() may still be called before it goes on and closes.      *)
NoneInProgress == active \cap Scheduled = {}

(* close() by the engine, whose only caller with a spider is               *)
(* close_spider_async.  It cancels the timers, whoever waits behind them.  *)
Close ==
  /\ ~ closed
  /\ NoneInProgress
  /\ closed' = TRUE
  /\ gc' = FALSE
  /\ slots' = [k \in DOMAIN slots |-> [slots[k] EXCEPT !.timer = Idle]]
  /\ ready' = Cancel(SlotKey)
  /\ UNCHANGED <<asyncio, total, keyOf, stage, active, quiet>>

(* One request's coroutine goes on. *)
Progress(r) ==
  \/ AnswerEarly(r) \/ Enqueue(r) \/ Downloaded(r) \/ DownloadRaises(r)
  \/ SleepEnds(r) \/ LeaveSlot(r) \/ FetchReturns(r)

Next ==
  \/ \E r \in Request : Fetch(r) \/ Progress(r)
  \/ StartTask \/ Latercall \/ Tick \/ SlotGc \/ Close
  \/ \E k \in SlotKey : TimerDue(k)

Spec == Init /\ [][Next]_vars

(* The loop runs what is ready and its clock goes on; middlewares answer,  *)
(* downloads end (there is a DOWNLOAD_TIMEOUT).                            *)
FairSpec ==
  /\ Spec
  /\ WF_vars(StartTask \/ Latercall \/ \E k \in SlotKey : TimerDue(k))
  /\ WF_vars(Tick)
  /\ WF_vars(\E r \in Request : Progress(r))

-----------------------------------------------------------------------------
Slot == [active : SUBSET Request, queue : Seq(Request), transferring : SUBSET Request,
         since : 0 .. LongAgo, timer : Idle .. LongAgo]

(* The downloader's state; a timer in the loop's queue is one that is due. *)
TypeOK ==
  /\ asyncio \in BOOLEAN /\ total \in Nat /\ gc \in BOOLEAN /\ closed \in BOOLEAN
  /\ keyOf \in [Request -> SlotKey]
  /\ stage \in [Request -> Stages]
  /\ active \subseteq Request
  /\ DOMAIN slots \subseteq SlotKey
  /\ \A k \in DOMAIN slots : slots[k] \in Slot
  /\ ready \in Seq(Request \cup SlotKey)
  /\ \A k \in Members(ready) \cap SlotKey : k \in DOMAIN slots /\ slots[k].timer = 0
  /\ quiet \in [SlotKey -> 0 .. LongAgo]

InSlot == {"queued", "launched", "transferring", "failing", "answered"}

At(k, stages) == {r \in Request : keyOf[r] = k /\ stage[r] \in stages}

(* No request is lost between the sets of a slot, and none is in two: each *)
(* waits once in the queue, once in the loop, or transfers.  The collector *)
(* never drops a slot that a suspended coroutine still refers to, although *)
(* it looks only at slot.active and the age of the slot.                   *)
NothingLost ==
  /\ active = {r \in Request : stage[r] \notin {"new", "done"}}
  /\ \A r \in Request : stage[r] \in InSlot => keyOf[r] \in DOMAIN slots
  /\ \A k \in DOMAIN slots :
       /\ slots[k].active = At(k, InSlot)
       /\ slots[k].transferring = At(k, {"transferring", "failing"})
       /\ Members(slots[k].queue) = At(k, {"queued"})
       /\ Len(slots[k].queue) = Cardinality(At(k, {"queued"}))
  /\ Members(ready) \cap Request = {r \in Request : stage[r] = "launched"}

Committed(k) == At(k, {"launched", "transferring", "failing"})

(* "Process enqueued requests if there are free slots to transfer for this *)
(* slot": a slot never has more requests past its queue than its           *)
(* concurrency.                                                            *)
ConcurrencyRespected ==
  \A k \in SlotKey : Cardinality(Committed(k)) <= Concurrency[k]

(* So it is where coroutines start at once, and in slots with a delay, in  *)
(* these until close() cancels the timer behind which a pass waits.        *)
ConcurrencyWithDelay ==
  \A k \in SlotKey :
    ~ asyncio \/ (Delay[k] > 0 /\ ~ closed) =>
      Cardinality(Committed(k)) <= Concurrency[k]

(* Requests from the scheduler never exceed the total concurrency, however *)
(* many bypass it.                                                         *)
BackoutBounds ==
  total > 0 => Cardinality(active \cap Scheduled) <= total

PassesQueue(r) ==
  /\ stage[r] \in {"middleware", "queued"}
  /\ stage'[r] \in {"launched", "transferring"}

(* Two requests of a slot with a delay are never popped closer than the    *)
(* shortest delay, whatever random delays are drawn in between and even if *)
(* the slot was dropped and created again.                                 *)
SpacedPops ==
  [][\A k \in SlotKey :
       LET popped == {r \in Request : keyOf[r] = k /\ PassesQueue(r)}
       IN  popped # {} /\ Delay[k] > 0 =>
             /\ Cardinality(popped) = 1
             /\ \E d \in Delays[k] : d <= quiet[k]]_vars

(* A slot serves its requests in the order they were enqueued: those that  *)
(* leave the queue were at its head, the others keep their places, and a   *)
(* newcomer goes straight through only if nobody is left waiting.          *)
FirstInFirstOut ==
  [][\A k \in DOMAIN slots \cap DOMAIN slots' :
       LET old == slots[k].queue
           new == slots'[k].queue
       IN  /\ \E n \in 0 .. Len(old) :
                /\ \A i \in 1 .. n : old[i] \notin Members(new)
                /\ Len(old) - n <= Len(new)
                /\ SubSeq(old, n + 1, Len(old)) = SubSeq(new, 1, Len(old) - n)
           /\ \A r \in At(k, {"middleware"}) : PassesQueue(r) => new = <<>>]_vars

(* Every fetched request leaves the downloader: none is forgotten in a     *)
(* queue, behind a cancelled timer or in a dropped slot.  The engine,      *)
(* which waits for that before it closes a spider, can always close it.    *)
(* Only a direct request still there when the downloader is closed may     *)
(* stay in its queue: close() has cancelled the timer it waits for.        *)
Drains ==
  /\ []<>(active \cap Scheduled = {})
  /\ []<>(active = {} \/ closed)
=============================================================================
