----------------------------- MODULE DaskLocal -----------------------------
(***************************************************************************)
(* dask/local.py: get_async, the scheduler loop that walks a task graph    *)
(* with an executor, and the state dictionaries it keeps.                  *)
(*                                                                         *)
(* One process runs get_async: it pops ready tasks and submits them in     *)
(* batches, blocks on the queue of completed futures, and applies the      *)
(* results of one batch item by item with finish_task.  The executor's     *)
(* workers run batches concurrently and in any order; they share nothing   *)
(* with the loop except the queue, because a task's inputs are copied out  *)
(* of the cache when it is submitted.                                      *)
(***************************************************************************)
EXTENDS Integers, Sequences, FiniteSets, Functions, DaskGraph

CONSTANTS
  Order,        \* dask.order.order: the static priority of each key
  NumWorkers,   \* num_workers, the executor's _max_workers
  ChunkSizes,   \* the chunksize arguments callers pass; -1 means automatic
  RerunLocally  \* the values of rerun_exceptions_locally

(* order() numbers the keys of a graph injectively and raises on a cycle,  *)
(* so a graph that reaches the loop has its dependencies ordered first.    *)
IsOrdered(g) == \A k \in Keys(g) : \A d \in g.deps[k] : Order[d] < Order[k]

ASSUME OrderAssumption ==
  /\ Order \in [Key -> Nat]
  /\ \A k, l \in Key : Order[k] = Order[l] => k = l
  /\ \A g \in Graphs : IsOrdered(g)
ASSUME KeyAssumption == IsFiniteSet(Key)
ASSUME WorkersAssumption == NumWorkers \in Nat \ {0}
ASSUME ChunkAssumption == ChunkSizes \subseteq (Nat \ {0}) \cup {-1}
ASSUME RerunAssumption == RerunLocally \subseteq BOOLEAN

VARIABLES
  dsk,           \* the graph of this call; the requested keys with it
  rerun,         \* rerun_exceptions_locally of this call
  chunksize,     \* the chunksize of this call
  waiting,       \* state["waiting"]: task -> dependencies not computed yet
  waiting_data,  \* state["waiting_data"]: key -> dependents not finished yet
  cache,         \* state["cache"]: key -> the kind of object stored under it
  ready,         \* state["ready"]: stack of runnable tasks, top at the end
  running,       \* state["running"]: submitted and not finished
  finished,      \* state["finished"]
  released,      \* state["released"]
  inflight,      \* batches (sequences of tasks) submitted, future not done
  queue,         \* completed futures, in completion order
  items,         \* results of the batch being applied, next one first
  pc             \* where get_async is

state == <<waiting, waiting_data, cache, ready, running, finished, released>>
allvars == <<dsk, rerun, chunksize, state, inflight, queue, items, pc>>

(* An object in the cache is a task's value, or the exception it raised.   *)
Value == "value"
Exception == "exception"

-----------------------------------------------------------------------------
Available == dsk.data \cup finished

(* ceil(a / b), written -(a // -b) in the source. *)
CeilDiv(a, b) == (a + b - 1) \div b

(* sorted(S, key=sortkey, reverse=True): greatest priority number first,   *)
(* so that the smallest is on top of the stack.                            *)
Descending(S) ==
  {q \in [1 .. Cardinality(S) -> S] :
     /\ Range(q) = S
     /\ \A i, j \in DOMAIN q : i < j => Order[q[i]] > Order[q[j]]}

BuggyStartStateData(g) ==
  /\ waiting = StartWaiting(g)
  /\ waiting_data = [k \in Keys(g) |-> Dependents(g, k)]
  /\ cache = [k \in g.data |-> Value]
  /\ ready \in Descending(StartReady(g) \cup g.data)
  /\ running = {} /\ finished = {} /\ released = {}

(* The state start_state_from_dask returns (DaskStart). *)
StartState(g) ==
  /\ waiting = StartWaiting(g)
  /\ waiting_data = [k \in Keys(g) |-> Dependents(g, k)]
  /\ cache = [k \in g.data |-> Value]
  /\ ready \in Descending(StartReady(g))
  /\ running = {} /\ finished = {} /\ released = {}

LocalInit ==
  /\ dsk \in Graphs
  /\ rerun \in RerunLocally
  /\ chunksize \in ChunkSizes
  /\ StartState(dsk)
  /\ inflight = {}
  /\ queue = <<>>
  /\ items = <<>>
  /\ pc = "loop"

-----------------------------------------------------------------------------
(* fire_tasks: how many tasks to pop and how many to put in one batch.     *)
UsedWorkers == CeilDiv(Cardinality(running), chunksize)
BuggyFreeWorkers == NumWorkers
FreeWorkers == IF UsedWorkers < NumWorkers THEN NumWorkers - UsedWorkers ELSE 0

Ntasks ==
  IF chunksize = -1 \/ Len(ready) < chunksize * FreeWorkers
  THEN Len(ready)
  ELSE chunksize * FreeWorkers

BatchSize ==
  IF chunksize = -1 THEN CeilDiv(Len(ready), NumWorkers) ELSE chunksize

(* The top n tasks of the stack in the order they are popped. *)
BuggyPopped(n) == [i \in 1 .. n |-> ready[i]]
Popped(n) == [i \in 1 .. n |-> ready[Len(ready) + 1 - i]]

Batches(args, c) ==
  {SubSeq(args, (i - 1) * c + 1, IF i * c < Len(args) THEN i * c ELSE Len(args)) :
     i \in 1 .. CeilDiv(Len(args), c)}

Unfinished == DOMAIN waiting # {} \/ ready # <<>> \/ running # {}

(* One turn of the loop up to the blocking queue_get. *)
FireTasks ==
  /\ pc = "loop"
  /\ Unfinished
  /\ BatchSize # 0
  /\ ready' = SubSeq(ready, 1, Len(ready) - Ntasks)
  /\ running' = running \cup Range(Popped(Ntasks))
  /\ inflight' = inflight \cup Batches(Popped(Ntasks), BatchSize)
  /\ pc' = "get"
  /\ UNCHANGED <<dsk, rerun, chunksize, waiting, waiting_data, cache, finished,
                 released, queue, items>>

(* chunksize -1 with an empty stack divides 0 by 0: ZeroDivisionError      *)
(* leaves get_async through its finally block.                             *)
FireTasksDividesByZero ==
  /\ pc = "loop"
  /\ Unfinished
  /\ BatchSize = 0
  /\ pc' = "raised"
  /\ UNCHANGED <<dsk, rerun, chunksize, state, inflight, queue, items>>

(* A worker runs a batch: each task succeeds or fails, the future's done   *)
(* callback puts it on the queue.                                          *)
Complete(b) ==
  /\ b \in inflight
  /\ \E failed \in SUBSET Range(b) :
       queue' = Append(queue, [i \in DOMAIN b |->
                                 [key |-> b[i], failed |-> b[i] \in failed]])
  /\ inflight' = inflight \ {b}
  /\ UNCHANGED <<dsk, rerun, chunksize, state, items, pc>>

(* queue_get(queue).result() *)
GetBatch ==
  /\ pc = "get"
  /\ queue # <<>>
  /\ items' = Head(queue)
  /\ queue' = Tail(queue)
  /\ pc' = "apply"
  /\ UNCHANGED <<dsk, rerun, chunksize, state, inflight>>

-----------------------------------------------------------------------------
(* finish_task: the dependents that key was the last to hold back, and the *)
(* dependencies nobody else is waiting for.                                *)
BuggyNewlyReadyAny(key) == Dependents(dsk, key)
BuggyNewlyReadyStale(key) == {d \in Dependents(dsk, key) : waiting[d] = {}}
NewlyReady(key) ==
  {d \in Dependents(dsk, key) : waiting[d] \ {key} = {}}

BuggyNoLongerNeeded(key) == {d \in dsk.deps[key] : d \notin dsk.results}
NoLongerNeeded(key) ==
  {d \in dsk.deps[key] :
     /\ d \notin dsk.results
     /\ d \in DOMAIN waiting_data => waiting_data[d] \ {key} = {}}

FinishTask(key, res) ==
  /\ waiting' = [d \in DOMAIN waiting \ NewlyReady(key) |->
                   IF d \in Dependents(dsk, key) THEN waiting[d] \ {key}
                                                 ELSE waiting[d]]
  /\ \E q \in Descending(NewlyReady(key)) : ready' = ready \o q
  /\ waiting_data' = [d \in DOMAIN waiting_data \ NoLongerNeeded(key) |->
                        IF d \in dsk.deps[key] THEN waiting_data[d] \ {key}
                                               ELSE waiting_data[d]]
  /\ released' = released \cup NoLongerNeeded(key)
  /\ cache' = [d \in (DOMAIN cache \cup {key}) \ NoLongerNeeded(key) |->
                 IF d = key THEN res ELSE cache[d]]
  /\ finished' = finished \cup {key}
  /\ running' = running \ {key}

(* Every dictionary and set access of finish_task(key) finds its entry:    *)
(* anything else is a KeyError, or release_data's failed assertion.        *)
FinishTaskDefined(key) ==
  /\ \A d \in Dependents(dsk, key) : d \in DOMAIN waiting /\ key \in waiting[d]
  /\ \A d \in dsk.deps[key] \cap DOMAIN waiting_data : key \in waiting_data[d]
  /\ NoLongerNeeded(key) \subseteq DOMAIN cache \cup {key}
  /\ key \in running

(* The rest of the batch's results, or the loop test when none is left. *)
Advance ==
  /\ items' = Tail(items)
  /\ pc' = IF Tail(items) = <<>> THEN "loop" ELSE "apply"
  /\ UNCHANGED <<dsk, rerun, chunksize, inflight, queue>>

(* loads(res_info): what a failed task returned is its exception.          *)
Unpacked(item) == IF item.failed THEN Exception ELSE Value

BuggyApplyResult ==
  /\ pc = "apply"
  /\ FinishTask(Head(items).key, Unpacked(Head(items)))
  /\ Advance

ApplyResult ==
  /\ pc = "apply"
  /\ ~ Head(items).failed
  /\ FinishTask(Head(items).key, Unpacked(Head(items)))
  /\ Advance

(* raise_exception, or the local re-execution raising again: the rest of   *)
(* the batch and the futures still running are abandoned.                  *)
RaiseTaskError ==
  /\ pc = "apply"
  /\ Head(items).failed
  /\ pc' = "raised"
  /\ UNCHANGED <<dsk, rerun, chunksize, state, inflight, queue, items>>

(* rerun_exceptions_locally and the re-execution succeeds: its return      *)
(* value is dropped, and res is unpacked from the failed attempt.          *)
RerunSucceeds ==
  /\ rerun
  /\ pc = "apply"
  /\ Head(items).failed
  /\ FinishTask(Head(items).key, Unpacked(Head(items)))
  /\ Advance

Finish ==
  /\ pc = "loop"
  /\ ~ Unfinished
  /\ pc' = "returned"
  /\ UNCHANGED <<dsk, rerun, chunksize, state, inflight, queue, items>>

MainStep ==
  FireTasks \/ FireTasksDividesByZero \/ GetBatch \/ ApplyResult
    \/ RaiseTaskError \/ RerunSucceeds \/ Finish

LocalNext == MainStep \/ \E b \in inflight : Complete(b)

LocalSpec == LocalInit /\ [][LocalNext]_allvars

(* The workers' tasks return, futures always complete, and nothing stops   *)
(* the thread that runs get_async.                                         *)
FairSpec ==
  /\ LocalSpec
  /\ WF_allvars(MainStep)
  /\ WF_allvars(\E b \in inflight : Complete(b))

-----------------------------------------------------------------------------
(* The promise of TaskGraph under this refinement mapping. *)
Promise == INSTANCE TaskGraph WITH
  done <- finished,
  held <- DOMAIN cache,
  spoiled <- {k \in DOMAIN cache : cache[k] = Exception},
  outcome <- IF pc \in {"returned", "raised"} THEN pc ELSE "running"

(* local.py keeps the promise of TaskGraph: each task is computed once,    *)
(* after its inputs, memory holds exactly what is still needed, and a task *)
(* that failed never counts as computed, wherever in its batch it is,      *)
(* unless the caller has asked for failed tasks to be run again.           *)
KeepsPromise == Promise!Spec

-----------------------------------------------------------------------------
ItemKeys(its) == {its[i].key : i \in DOMAIN its}

(* The shapes of the scheduler's dictionaries, stack and queue. *)
TypeOK ==
  /\ IsGraph(dsk) /\ IsOrdered(dsk)
  /\ rerun \in RerunLocally /\ chunksize \in ChunkSizes
  /\ DOMAIN waiting \subseteq Tasks(dsk)
  /\ \A k \in DOMAIN waiting : waiting[k] \subseteq Keys(dsk)
  /\ DOMAIN waiting_data \subseteq Keys(dsk)
  /\ \A k \in DOMAIN waiting_data : waiting_data[k] \subseteq Tasks(dsk)
  /\ cache \in [DOMAIN cache -> {Value, Exception}]
  /\ DOMAIN cache \subseteq Keys(dsk)
  /\ ready \in Seq(Tasks(dsk))
  /\ running \subseteq Tasks(dsk)
  /\ finished \subseteq Tasks(dsk)
  /\ released \subseteq Keys(dsk)
  /\ inflight \subseteq Seq(Tasks(dsk))
  /\ queue \in Seq(Seq([key : Tasks(dsk), failed : BOOLEAN]))
  /\ items \in Seq([key : Tasks(dsk), failed : BOOLEAN])
  /\ pc \in {"loop", "get", "apply", "returned", "raised"}

(* Each task is in exactly one of waiting, ready, running and finished,    *)
(* and at most once on the ready stack: no task is dropped or run twice by *)
(* finish_task and fire_tasks moving it between the four.                  *)
Accounting ==
  /\ Tasks(dsk) = DOMAIN waiting \cup Range(ready) \cup running \cup finished
  /\ IsInjective(ready)
  /\ DOMAIN waiting \cap (Range(ready) \cup running \cup finished) = {}
  /\ Range(ready) \cap (running \cup finished) = {}
  /\ running \cap finished = {}

(* state["waiting"] holds precisely the inputs not computed yet, for       *)
(* precisely the tasks that miss one ("real-time equivalent of             *)
(* dependencies" in the module's docstring).                               *)
WaitingExact ==
  /\ DOMAIN waiting = {t \in Tasks(dsk) : ~ dsk.deps[t] \subseteq Available}
  /\ \A t \in DOMAIN waiting : waiting[t] = dsk.deps[t] \ Available

(* state["waiting_data"] holds precisely the readers not finished yet, for *)
(* the keys not released.                                                  *)
WaitingDataExact ==
  /\ DOMAIN waiting_data = Keys(dsk) \ released
  /\ \A k \in DOMAIN waiting_data : waiting_data[k] = Dependents(dsk, k) \ finished

(* The books agree with each other and with the graph in every order of    *)
(* completion: the partition of the tasks and the two dictionaries above.  *)
Books == Accounting /\ WaitingExact /\ WaitingDataExact

(* Memory: the cache holds a computed key if and only if it is a requested *)
(* result or an unfinished task still reads it.  Nothing is released early *)
(* (a later fire_tasks would raise KeyError) and nothing is kept for good. *)
CacheExact == DOMAIN cache = Needed(dsk, finished)

(* fire_tasks copies the inputs of any task it may pop out of the cache:   *)
(* all of them are there.                                                  *)
InputsCached == \A t \in Range(ready) \cup running : dsk.deps[t] \subseteq DOMAIN cache

(* When a result is applied, every dictionary and set finish_task touches  *)
(* has the entry it expects, whatever the order in which futures complete. *)
FinishNeverFails == items # <<>> => FinishTaskDefined(Head(items).key)

(* With an explicit chunksize no more tasks are out than num_workers       *)
(* workers take with full batches, even when batches were short.           *)
WorkersBound ==
  chunksize # -1 => Cardinality(running) <= NumWorkers * chunksize

(* A successful call returns with every task computed and nothing but the  *)
(* requested results left in memory.                                       *)
ReturnsResultsOnly ==
  pc = "returned" => finished = Tasks(dsk) /\ DOMAIN cache = dsk.results

(* get_async raises only because a task raised. *)
RaisesOnlyTaskErrors == pc = "raised" => items # <<>> /\ Head(items).failed

(* A task submitted now has not been submitted before. *)
NeverResubmits ==
  [][\A b \in inflight' \ inflight : Range(b) \cap (running \cup finished) = {}]_allvars

(* The call ends, whatever order the futures complete in. *)
Termination == <>(pc \in {"returned", "raised"})
=============================================================================
