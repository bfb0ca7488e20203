-------------------------- MODULE ScrapyScheduler ---------------------------
(***************************************************************************)
(* Scrapy's scheduler with its default queues: requests on disk when they  *)
(* can be serialized and the crawl has a JOBDIR, in memory otherwise; in   *)
(* each store a queue per download slot (DownloaderAwarePriorityQueue), in *)
(* each of these a LIFO queue per priority and a FIFO queue per priority   *)
(* of start requests (ScrapyPriorityQueue); and a crawl that is stopped    *)
(* and resumed from active.json.                                           *)
(***************************************************************************)
EXTENDS Integers, Sequences, FiniteSets, FiniteSetsExt, SequencesExt

CONSTANTS
  Request,     \* requests with different fingerprints
  Kindings,    \* what requests are explored: functions to Kind
  MaxRestarts  \* bound: how often the crawl is stopped and resumed

(* prio is the negated priority of the request: less is more urgent. *)
Kind == [slot : Nat \ {0}, prio : Int, start : BOOLEAN, storable : BOOLEAN]

ASSUME KindingsAssumption ==
  \A k \in Kindings : DOMAIN k = Request /\ \A r \in Request : k[r] \in Kind
ASSUME RestartsAssumption == MaxRestarts \in Nat

VARIABLES
  jobdir,   \* whether the crawl has a JOBDIR
  kind,
  seen,     \* fingerprints in requests.seen, in order
  dqs, mqs, \* the queues on disk and in memory
  given,    \* requests returned by next_request
  active,   \* those in the downloader's slots
  finished, \* those the downloader is done with
  owed,     \* history: requests that could not be serialized, less refusals since;
            \* -1 for more refusals than that
  restarts

vars == <<jobdir, kind, seen, dqs, mqs, given, active, finished, owed, restarts>>

-----------------------------------------------------------------------------
(* ScrapyPriorityQueue: its queues and _start_queues are lines, under a    *)
(* priority and whether they are for start requests; curprio is cur, empty *)
(* for None.                                                               *)

EmptyQueue == [lines |-> <<>>, cur |-> {}]

Key(r) == <<kind[r].prio, kind[r].start>>

(* The keys with something in their lines. *)
Busy(lines) == {k \in DOMAIN lines : lines[k] # <<>>}
Prios(keys) == {k[1] : k \in keys}

Requests(q) == UNION {ToSet(q.lines[k]) : k \in DOMAIN q.lines}

Least(P) == IF P = {} THEN {} ELSE {Min(P)}

With(f, k, s) == [x \in DOMAIN f \cup {k} |-> IF x = k THEN s ELSE f[x]]
Without(f, k) == [x \in DOMAIN f \ {k} |-> f[x]]

(* Mutant: curprio is set by the first push only. *)
BuggyPush(q, r, fits) ==
  LET old == IF Key(r) \in DOMAIN q.lines THEN q.lines[Key(r)] ELSE <<>>
  IN  [lines |-> With(q.lines, Key(r), IF fits THEN Append(old, r) ELSE old),
       cur |-> IF fits /\ q.cur = {} THEN {kind[r].prio} ELSE q.cur]

(* push: of a request that cannot be serialized the new, empty line stays. *)
Push(q, r, fits) ==
  LET old == IF Key(r) \in DOMAIN q.lines THEN q.lines[Key(r)] ELSE <<>>
  IN  [lines |-> With(q.lines, Key(r), IF fits THEN Append(old, r) ELSE old),
       cur |-> IF fits /\ \A c \in q.cur : kind[r].prio < c THEN {kind[r].prio} ELSE q.cur]

(* The line the loop of pop comes to: at curprio if a line is there, else  *)
(* at the least priority of the others; start requests last.               *)
Turn(q) ==
  LET c == IF q.cur \subseteq Prios(DOMAIN q.lines) THEN q.cur ELSE Least(Prios(Busy(q.lines)))
  IN  {k \in DOMAIN q.lines : k[1] \in c /\ (k[2] => <<k[1], FALSE>> \notin DOMAIN q.lines)}

(* What pop returns: None from an empty line. *)
Out(q) ==
  {IF k[2] THEN Head(q.lines[k]) ELSE Last(q.lines[k]) : k \in Turn(q) \cap Busy(q.lines)}

Shorter(line, start) ==
  IF line = <<>> THEN line ELSE IF start THEN Tail(line) ELSE Front(line)

(* Mutant: a line found empty is kept. *)
BuggyPopLine(q, k) ==
  LET rest == Shorter(q.lines[k], k[2])
      left == IF Len(q.lines[k]) = 1 THEN Without(q.lines, k) ELSE With(q.lines, k, rest)
  IN  [lines |-> left, cur |-> IF Len(q.lines[k]) = 1 THEN Least(Prios(Busy(left))) ELSE {k[1]}]

(* A line that is empty now is closed; curprio may stay although it was    *)
(* its last, while there are start requests.                               *)
PopLine(q, k) ==
  LET rest == Shorter(q.lines[k], k[2])
      left == IF rest = <<>> THEN Without(q.lines, k) ELSE With(q.lines, k, rest)
  IN  [lines |-> left,
       cur |-> IF rest = <<>> /\ (k[2] \/ \A l \in DOMAIN q.lines : ~ l[2])
               THEN Least(Prios(Busy(left))) ELSE {k[1]}]

Pop(q) ==
  IF Turn(q) = {} THEN [q EXCEPT !.cur = {}] ELSE CHOOSE n \in {PopLine(q, k) : k \in Turn(q)} : TRUE

(* Mutant: curprio is not set. *)
BuggyReopened(q, prios) ==
  LET files == {k \in Busy(q.lines) : k[1] \in prios}
  IN  [lines |-> [k \in files |-> q.lines[k]], cur |-> {}]

(* init_prios over the files of q, with the priorities of active.json. *)
Reopened(q, prios) ==
  LET files == {k \in Busy(q.lines) : k[1] \in prios}
  IN  [lines |-> [k \in files |-> q.lines[k]], cur |-> Least(prios)]

-----------------------------------------------------------------------------
(* DownloaderAwarePriorityQueue *)

EmptyStore == [pqueues |-> <<>>, last |-> 0]

Contents(store) == UNION {Requests(store.pqueues[s]) : s \in DOMAIN store.pqueues}

PushSlot(store, r, fits) ==
  LET s == kind[r].slot
      q == IF s \in DOMAIN store.pqueues THEN store.pqueues[s] ELSE EmptyQueue
  IN  [store EXCEPT !.pqueues = With(@, s, Push(q, r, fits))]

Downloads(s) == Cardinality({r \in active : kind[r].slot = s})

(* _next_slot: among the least active ones, the first after the last one   *)
(* selected, or the first.                                                 *)
NextSlot(store) ==
  LET slots == DOMAIN store.pqueues
      best == {s \in slots : \A t \in slots : Downloads(s) <= Downloads(t)}
      after == {s \in best : s > store.last}
  IN  Min(IF after # {} THEN after ELSE best)

SlotOut(store) ==
  IF DOMAIN store.pqueues = {} THEN {} ELSE Out(store.pqueues[NextSlot(store)])

(* The store when q is what pop left of the queue of s: a slot without     *)
(* requests goes.                                                          *)
Popped(store, s, q) ==
  [pqueues |-> IF Requests(q) = {} THEN Without(store.pqueues, s) ELSE With(store.pqueues, s, q),
   last |-> s]

PopSlot(store) ==
  IF DOMAIN store.pqueues = {} THEN store
  ELSE CHOOSE left \in UNION {{Popped(store, s, q) : q \in {Pop(store.pqueues[s])}} :
                               s \in {NextSlot(store)}} : TRUE

-----------------------------------------------------------------------------
(* Scheduler *)

Pending == Contents(mqs) \cup Contents(dqs)

Init ==
  /\ jobdir \in BOOLEAN
  /\ kind \in Kindings
  /\ seen = <<>>
  /\ dqs = EmptyStore /\ mqs = EmptyStore
  /\ given = {} /\ active = {} /\ finished = {}
  /\ owed = 0
  /\ restarts = 0

(* enqueue_request; one that was seen is dropped. *)
EnqueueRequest(r) ==
  /\ r \notin ToSet(seen)
  /\ seen' = Append(seen, r)
  /\ dqs' = IF jobdir THEN PushSlot(dqs, r, kind[r].storable) ELSE dqs
  /\ mqs' = IF jobdir /\ kind[r].storable THEN mqs ELSE PushSlot(mqs, r, TRUE)
  /\ owed' = IF jobdir /\ ~ kind[r].storable THEN owed + 1 ELSE owed
  /\ UNCHANGED <<jobdir, kind, given, active, finished, restarts>>

(* next_request: memory first, whatever the priority, then disk; it may    *)
(* return None.  The engine calls it without asking has_pending_requests.  *)
NextRequest ==
  /\ mqs' = PopSlot(mqs)
  /\ \/ /\ SlotOut(mqs) # {}
        /\ given' = given \cup SlotOut(mqs)
        /\ UNCHANGED <<dqs, owed>>
     \/ /\ SlotOut(mqs) = {}
        /\ dqs' = PopSlot(dqs)
        /\ given' = given \cup SlotOut(dqs)
        /\ owed' = IF SlotOut(dqs) = {} /\ Contents(dqs) # {} /\ owed >= 0
                   THEN owed - 1 ELSE owed
  /\ UNCHANGED <<jobdir, kind, seen, active, finished, restarts>>

(* The downloader's side: a returned request enters its slot, and leaves. *)
Download(r) ==
  /\ r \in given \ (active \cup finished)
  /\ active' = active \cup {r}
  /\ UNCHANGED <<jobdir, kind, seen, dqs, mqs, given, finished, owed, restarts>>

Downloaded(r) ==
  /\ r \in active
  /\ active' = active \ {r}
  /\ finished' = finished \cup {r}
  /\ UNCHANGED <<jobdir, kind, seen, dqs, mqs, given, owed, restarts>>

(* close, and open in a new process: the disk queues that active.json      *)
(* names are there again, those in memory are not.  The engine closes the  *)
(* scheduler when no request is in progress.                               *)
Restart ==
  /\ jobdir
  /\ restarts < MaxRestarts
  /\ restarts' = restarts + 1
  /\ given = finished
  /\ dqs' = [pqueues |-> [s \in DOMAIN dqs.pqueues |->
                            Reopened(dqs.pqueues[s], Prios(DOMAIN dqs.pqueues[s].lines))],
             last |-> 0]
  /\ mqs' = EmptyStore
  /\ UNCHANGED <<jobdir, kind, seen, given, active, finished, owed>>

Next ==
  \/ \E r \in Request : EnqueueRequest(r) \/ Download(r) \/ Downloaded(r)
  \/ NextRequest
  \/ Restart

Spec == Init /\ [][Next]_vars

(* The engine's heartbeat asks again, refused or not. *)
FairSpec == Spec /\ WF_vars(NextRequest)

-----------------------------------------------------------------------------
(* curprio is never less urgent than what is queued, and None only when    *)
(* nothing is: pop would pass requests over otherwise.                     *)
CurprioLeads(q) ==
  /\ q.cur = {} => Requests(q) = {}
  /\ \A c \in q.cur, p \in Prios(Busy(q.lines)) : c <= p

(* The shape of the state; a request is in one place.  Every slot kept in  *)
(* memory has a request, and curprio leads in every queue.                 *)
TypeOK ==
  /\ jobdir \in BOOLEAN
  /\ IsInjective(seen)
  /\ given \cup Pending \subseteq ToSet(seen)
  /\ finished \cap active = {} /\ finished \cup active \subseteq given
  /\ Contents(mqs) \cap Contents(dqs) = {} /\ given \cap Pending = {}
  /\ \A s \in DOMAIN mqs.pqueues : Requests(mqs.pqueues[s]) # {}
  /\ \A store \in {mqs, dqs} : \A s \in DOMAIN store.pqueues : CurprioLeads(store.pqueues[s])
  /\ owed \in 0 .. Len(seen)
  /\ restarts \in 0 .. MaxRestarts

Promise == INSTANCE RequestStore WITH
  stored <- Contents(dqs),
  volatile <- Contents(mqs)

(* The scheduler keeps the promise of RequestStore, whatever was stopped   *)
(* and resumed: each request goes once, and of those of its slot that are  *)
(* in the same store the most urgent first; what is in memory goes before  *)
(* what is on disk even if less urgent; and None is returned while         *)
(* requests are stored at most once for each that failed to be.            *)
KeepsPromise == Promise!Spec

(* What is enqueued is given in the end, or was lost with the memory of a  *)
(* process: no slot starves, no refusal repeats for ever.                  *)
Drains == <>[](Pending = {})
=============================================================================
