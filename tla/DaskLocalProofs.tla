-------------------------- MODULE DaskLocalProofs --------------------------
(***************************************************************************)
(* Machine-checked facts about DaskLocal, for every set of graphs, number  *)
(* of workers and chunk size.                                              *)
(*                                                                         *)
(* Bookkeeping is what the four job sets and the data dictionaries satisfy *)
(* between two steps; Submission says where a submitted task can be.  They *)
(* are inductive together: finish_task needs its key to be running and     *)
(* nowhere else, which Submission gives, and Submission needs fire_tasks   *)
(* to submit only tasks that are not running, which Bookkeeping gives.     *)
(***************************************************************************)
EXTENDS DaskLocal, SeqFacts, FiniteSetTheorems, TLAPS

(* The keys released so far: computed, not requested, all readers done. *)
ReleasedExact ==
  released = {k \in Keys(dsk) \ dsk.results : Dependents(dsk, k) \subseteq finished}

GraphOK == IsGraph(dsk) /\ IsOrdered(dsk)

JobTypes ==
  /\ ready \in Seq(Tasks(dsk))
  /\ running \subseteq Tasks(dsk)
  /\ finished \subseteq Tasks(dsk)

Bookkeeping ==
  /\ GraphOK
  /\ JobTypes
  /\ Accounting
  /\ WaitingExact
  /\ WaitingDataExact
  /\ ReleasedExact
  /\ CacheExact

-----------------------------------------------------------------------------
(* A sorted stack segment lists its set, without repetition. *)
LEMMA DescendingFacts ==
  ASSUME NEW g, IsGraph(g), NEW S \in SUBSET Keys(g), NEW q \in Descending(S)
  PROVE  q \in Seq(S) /\ IsInjective(q) /\ Range(q) = S
<1>1. S \subseteq Key
  BY DEF IsGraph
<1>2. IsFiniteSet(S) /\ Cardinality(S) \in Nat
  BY <1>1, KeyAssumption, FS_Subset, FS_CardinalityType
<1>3. q \in Seq(S) /\ Range(q) = S
  BY <1>2 DEF Descending
<1>4. IsInjective(q)
  <2>1. SUFFICES ASSUME NEW i \in DOMAIN q, NEW j \in DOMAIN q, q[i] = q[j], i # j
                 PROVE  FALSE
    BY DEF IsInjective
  <2>2. i \in Int /\ j \in Int /\ q[i] \in Key
    BY <1>1, <1>2 DEF Descending
  <2>3. Order[q[i]] \in Nat
    BY <2>2, OrderAssumption
  <2>4. CASE i < j
    BY <2>1, <2>3, <2>4 DEF Descending
  <2>5. CASE j < i
    BY <2>1, <2>3, <2>5 DEF Descending
  <2>6. QED
    BY <2>1, <2>2, <2>4, <2>5
<1>5. QED
  BY <1>3, <1>4

(* Data nodes read nothing, so every reader is a task. *)
LEMMA ReadersAreTasks ==
  ASSUME NEW g, IsGraph(g), NEW k
  PROVE  Dependents(g, k) \subseteq Tasks(g)
BY DEF IsGraph, Dependents, Tasks, Keys

-----------------------------------------------------------------------------
(* The closed form of start_state_from_dask satisfies Bookkeeping. *)
LEMMA InitBookkeeping == LocalInit => Bookkeeping
<1> SUFFICES ASSUME LocalInit PROVE Bookkeeping
  OBVIOUS
<1> DEFINE runnable == StartReady(dsk)
<1>1. GraphOK
  BY GraphsAssumption, OrderAssumption DEF LocalInit, GraphOK
<1>2. /\ waiting = StartWaiting(dsk)
      /\ waiting_data = [k \in Keys(dsk) |-> Dependents(dsk, k)]
      /\ cache = [k \in dsk.data |-> Value]
      /\ ready \in Descending(runnable)
      /\ running = {} /\ finished = {} /\ released = {}
  BY DEF LocalInit, StartState
<1>3. runnable \subseteq Tasks(dsk) /\ Tasks(dsk) \subseteq Keys(dsk)
  BY DEF StartReady, Tasks
<1>4. ready \in Seq(runnable) /\ IsInjective(ready) /\ Range(ready) = runnable
  BY <1>1, <1>2, <1>3, DescendingFacts DEF GraphOK
<1>5. ready \in Seq(Tasks(dsk))
  BY <1>3, <1>4
<1>6. WaitingExact
  BY <1>2 DEF WaitingExact, StartWaiting, StartReady, Available
<1>7. Accounting
  BY <1>2, <1>4, <1>6 DEF Accounting, WaitingExact, StartReady, Available
<1>8. WaitingDataExact
  BY <1>1, <1>2, ReadersAreTasks DEF WaitingDataExact, GraphOK
<1>9. ReleasedExact
  BY <1>1, <1>2 DEF ReleasedExact, GraphOK, IsGraph
<1>10. CacheExact
  BY <1>1, <1>2 DEF CacheExact, Needed, GraphOK, IsGraph
<1>11. QED
  BY <1>1, <1>2, <1>5, <1>6, <1>7, <1>8, <1>9, <1>10 DEF Bookkeeping, JobTypes

-----------------------------------------------------------------------------
(* fire_tasks pops the top of the stack and touches nothing else. *)
LEMMA NtasksBound ==
  ASSUME Bookkeeping, chunksize \in ChunkSizes
  PROVE  Ntasks \in 0 .. Len(ready)
<1>1. Len(ready) \in Nat
  BY DEF Bookkeeping, JobTypes
<1>2. CASE chunksize = -1 \/ Len(ready) < chunksize * FreeWorkers
  BY <1>1, <1>2 DEF Ntasks
<1>3. CASE ~ (chunksize = -1 \/ Len(ready) < chunksize * FreeWorkers)
  <2>1. chunksize \in Nat \ {0}
    BY <1>3, ChunkAssumption
  <2>2. IsFiniteSet(running) /\ Cardinality(running) \in Nat
    BY KeyAssumption, FS_Subset, FS_CardinalityType
       DEF Bookkeeping, JobTypes, GraphOK, IsGraph, Tasks, Keys
  <2>3. UsedWorkers \in Int
    BY <2>1, <2>2 DEF UsedWorkers, CeilDiv
  <2>4. FreeWorkers \in Nat
    BY <2>3, WorkersAssumption DEF FreeWorkers
  <2>5. chunksize * FreeWorkers \in Nat
    BY <2>1, <2>4
  <2>6. Ntasks = chunksize * FreeWorkers
    BY <1>3 DEF Ntasks
  <2>7. QED
    BY <1>1, <1>3, <2>5, <2>6
<1>4. QED
  BY <1>2, <1>3

(* fire_tasks moves the popped tasks from the stack to running and nothing *)
(* else, and pops no task twice.                                           *)
LEMMA FireBookkeeping ==
  ASSUME Bookkeeping, chunksize \in ChunkSizes, FireTasks
  PROVE  /\ Bookkeeping'
         /\ Popped(Ntasks) \in Seq(Tasks(dsk))
         /\ IsInjective(Popped(Ntasks))
         /\ Range(Popped(Ntasks)) \cap (running \cup finished) = {}
<1> DEFINE top == Popped(Ntasks)
<1>1. Ntasks \in 0 .. Len(ready)
  BY NtasksBound
<1>2. ready \in Seq(Tasks(dsk)) /\ IsInjective(ready)
  BY DEF Bookkeeping, JobTypes, Accounting
<1>3. /\ ready' \in Seq(Tasks(dsk)) /\ IsInjective(ready')
      /\ top \in Seq(Tasks(dsk)) /\ IsInjective(top)
      /\ Range(ready') \cap Range(top) = {}
      /\ Range(ready') \cup Range(top) = Range(ready)
  <2>1. ready' = Bottom(ready, Ntasks) /\ top = TopDown(ready, Ntasks)
    BY DEF FireTasks, Popped, Bottom, TopDown
  <2> HIDE DEF top, Ntasks
  <2>2. QED
    BY <1>1, <1>2, <2>1, SplitSeq
<1>4. /\ running' = running \cup Range(top)
      /\ UNCHANGED <<dsk, waiting, waiting_data, cache, finished, released>>
  BY DEF FireTasks
<1>5. Range(top) \subseteq Tasks(dsk)
  BY <1>3, RangeOfSeq
<1>6. JobTypes'
  BY <1>3, <1>4, <1>5 DEF JobTypes, Bookkeeping
<1>7. Accounting'
  BY <1>3, <1>4 DEF Accounting, Bookkeeping
<1>8. /\ GraphOK' /\ WaitingExact' /\ WaitingDataExact'
      /\ ReleasedExact' /\ CacheExact'
  BY <1>4 DEF Bookkeeping, GraphOK, WaitingExact, WaitingDataExact,
              ReleasedExact, CacheExact, Available
<1>9. Range(top) \cap (running \cup finished) = {}
  BY <1>3 DEF Bookkeeping, Accounting
<1>10. QED
  BY <1>3, <1>6, <1>7, <1>8, <1>9 DEF Bookkeeping

-----------------------------------------------------------------------------
(* A running task has all its inputs in the cache, its readers wait for it *)
(* and its inputs know it as a reader: finish_task finds every entry.      *)
LEMMA FinishDefined ==
  ASSUME Bookkeeping, NEW key \in running
  PROVE  FinishTaskDefined(key)
<1>1. /\ key \in Tasks(dsk) /\ key \in Keys(dsk)
      /\ key \notin finished /\ key \notin Available /\ key \notin DOMAIN waiting
  BY DEF Bookkeeping, JobTypes, Accounting, Available, Tasks
<1>2. dsk.deps[key] \subseteq Available
  BY <1>1 DEF Bookkeeping, WaitingExact
<1>3. Dependents(dsk, key) \subseteq Tasks(dsk)
  BY ReadersAreTasks DEF Bookkeeping, GraphOK
<1>4. \A d \in Dependents(dsk, key) : d \in DOMAIN waiting /\ key \in waiting[d]
  BY <1>1, <1>3 DEF Bookkeeping, WaitingExact, Dependents
<1>5. \A d \in dsk.deps[key] : d \in Keys(dsk) /\ key \in Dependents(dsk, d)
  BY <1>1 DEF Bookkeeping, GraphOK, IsGraph, Dependents
<1>6. \A d \in dsk.deps[key] \cap DOMAIN waiting_data : key \in waiting_data[d]
  BY <1>1, <1>5 DEF Bookkeeping, WaitingDataExact
<1>7. dsk.deps[key] \subseteq DOMAIN cache
  BY <1>1, <1>2, <1>5 DEF Bookkeeping, CacheExact, Needed, Available
<1>8. QED
  BY <1>4, <1>6, <1>7 DEF FinishTaskDefined, NoLongerNeeded

(* finish_task keeps the books exact. *)
LEMMA FinishBookkeeping ==
  ASSUME Bookkeeping, NEW key \in running, NEW res, FinishTask(key, res), dsk' = dsk
  PROVE  Bookkeeping'
<1> DEFINE woken == NewlyReady(key)
           freed == NoLongerNeeded(key)
           readers == Dependents(dsk, key)
<1>1. /\ key \in Tasks(dsk) /\ key \in Keys(dsk)
      /\ key \notin finished /\ key \notin Available /\ key \notin DOMAIN waiting
      /\ key \notin Range(ready)
  BY DEF Bookkeeping, JobTypes, Accounting, Available, Tasks
<1>2. dsk.deps[key] \subseteq Available
  BY <1>1 DEF Bookkeeping, WaitingExact
<1>3. readers \subseteq Tasks(dsk) /\ key \notin readers
  BY <1>1, <1>2, ReadersAreTasks DEF Bookkeeping, GraphOK, Dependents
<1>4. \A d \in readers : d \in DOMAIN waiting /\ key \in waiting[d]
  BY <1>1, <1>3 DEF Bookkeeping, WaitingExact, Dependents
<1>5. Available' = Available \cup {key} /\ finished' = finished \cup {key}
  BY DEF FinishTask, Available
<1>6. woken \subseteq readers /\ woken \subseteq DOMAIN waiting
  BY <1>4 DEF NewlyReady
<1>7. \A d \in woken : dsk.deps[d] \subseteq Available'
  BY <1>4, <1>5, <1>6 DEF NewlyReady, Bookkeeping, WaitingExact
<1>8. \A d \in DOMAIN waiting \ woken : ~ dsk.deps[d] \subseteq Available'
  BY <1>4, <1>5 DEF NewlyReady, Bookkeeping, WaitingExact, Dependents, Tasks
<1>9. WaitingExact'
  <2>1. DOMAIN waiting' = DOMAIN waiting \ woken
    BY DEF FinishTask
  <2>2. ASSUME NEW t \in Tasks(dsk)
        PROVE  t \in DOMAIN waiting' <=> ~ dsk.deps[t] \subseteq Available'
    BY <1>5, <1>7, <1>8, <2>1 DEF Bookkeeping, WaitingExact
  <2>3. DOMAIN waiting' \subseteq Tasks(dsk)
    BY <2>1 DEF Bookkeeping, WaitingExact
  <2>4. ASSUME NEW t \in DOMAIN waiting'
        PROVE  waiting'[t] = dsk.deps[t] \ Available'
    <3>1. waiting[t] = dsk.deps[t] \ Available /\ t \in Keys(dsk)
      BY <2>1 DEF Bookkeeping, WaitingExact, Tasks
    <3>2. CASE t \in readers
      BY <1>5, <2>1, <3>1, <3>2 DEF FinishTask
    <3>3. CASE t \notin readers
      <4>1. key \notin dsk.deps[t]
        BY <3>1, <3>3 DEF Dependents
      <4>2. waiting'[t] = waiting[t]
        BY <2>1, <3>3 DEF FinishTask
      <4>3. QED
        BY <1>5, <3>1, <4>1, <4>2
    <3>4. QED
      BY <3>2, <3>3
  <2>5. QED
    BY <2>2, <2>3, <2>4 DEF WaitingExact
<1>10. PICK q \in Descending(woken) : ready' = ready \o q
  BY DEF FinishTask
<1>11. /\ q \in Seq(Tasks(dsk)) /\ IsInjective(q) /\ Range(q) = woken
  <2>1. woken \in SUBSET Keys(dsk) /\ woken \subseteq Tasks(dsk)
    BY <1>3, <1>6 DEF Tasks
  <2>2. q \in Seq(woken) /\ IsInjective(q) /\ Range(q) = woken
    BY <1>10, <2>1, DescendingFacts DEF Bookkeeping, GraphOK
  <2>3. QED
    BY <2>1, <2>2
<1>12. /\ ready' \in Seq(Tasks(dsk)) /\ IsInjective(ready')
       /\ Range(ready') = Range(ready) \cup woken
  <2>1. ready \in Seq(Tasks(dsk)) /\ IsInjective(ready)
    BY DEF Bookkeeping, JobTypes, Accounting
  <2>2. Range(ready) \cap Range(q) = {}
    BY <1>6, <1>11 DEF Bookkeeping, Accounting
  <2>3. QED
    BY <1>10, <1>11, <2>1, <2>2, RangeConcat, InjectiveConcat
<1>13. JobTypes'
  BY <1>1, <1>5, <1>12 DEF FinishTask, Bookkeeping, JobTypes
<1>14. Accounting'
  <2>1. DOMAIN waiting' = DOMAIN waiting \ woken /\ running' = running \ {key}
    BY DEF FinishTask
  <2>2. QED
    BY <1>1, <1>5, <1>6, <1>12, <2>1 DEF Bookkeeping, Accounting
<1>15. \A d \in dsk.deps[key] : d \in Keys(dsk) /\ key \in Dependents(dsk, d)
  BY <1>1 DEF Bookkeeping, GraphOK, IsGraph, Dependents
<1>16. \A d \in dsk.deps[key] : d \notin released
  BY <1>1, <1>15 DEF Bookkeeping, ReleasedExact
<1>17. freed = {d \in dsk.deps[key] : d \notin dsk.results
                                      /\ Dependents(dsk, d) \subseteq finished'}
  BY <1>5, <1>15, <1>16 DEF NoLongerNeeded, Bookkeeping, WaitingDataExact
<1>18. \A d \in Keys(dsk) \ dsk.deps[key] : key \notin Dependents(dsk, d)
  BY DEF Dependents
<1>19. ReleasedExact'
  <2>1. released' = released \cup freed
    BY DEF FinishTask
  <2>2. QED
    BY <1>5, <1>15, <1>17, <1>18, <2>1 DEF Bookkeeping, ReleasedExact
<1>20. WaitingDataExact'
  <2>1. DOMAIN waiting_data' = DOMAIN waiting_data \ freed
    BY DEF FinishTask
  <2>2. DOMAIN waiting_data' = Keys(dsk) \ released'
    BY <2>1 DEF FinishTask, Bookkeeping, WaitingDataExact
  <2>3. ASSUME NEW k \in DOMAIN waiting_data'
        PROVE  waiting_data'[k] = Dependents(dsk, k) \ finished'
    <3>1. waiting_data[k] = Dependents(dsk, k) \ finished /\ k \in Keys(dsk)
      BY <2>1 DEF Bookkeeping, WaitingDataExact
    <3>2. CASE k \in dsk.deps[key]
      BY <1>5, <2>1, <3>1, <3>2 DEF FinishTask
    <3>3. CASE k \notin dsk.deps[key]
      <4>1. waiting_data'[k] = waiting_data[k]
        BY <2>1, <3>3 DEF FinishTask
      <4>2. QED
        BY <1>5, <1>18, <3>1, <3>3, <4>1
    <3>4. QED
      BY <3>2, <3>3
  <2>4. QED
    BY <2>2, <2>3 DEF WaitingDataExact
<1>21. CacheExact'
  <2>1. DOMAIN cache' = (DOMAIN cache \cup {key}) \ freed
    BY DEF FinishTask
  <2>2. key \in dsk.results \/ ~ readers \subseteq finished'
    <3>1. CASE key \notin dsk.results
      <4>1. PICK t \in readers : TRUE
        BY <1>1, <3>1 DEF Bookkeeping, GraphOK, IsGraph
      <4>2. t \notin finished /\ t # key
        BY <1>3, <1>4 DEF Bookkeeping, Accounting
      <4>3. QED
        BY <1>5, <4>2
    <3>2. QED
      BY <3>1
  <2>3. key \notin freed
    BY <1>1, <1>2 DEF NoLongerNeeded
  <2>4. ASSUME NEW k
        PROVE  k \in DOMAIN cache' <=> k \in Needed(dsk, finished')
    <3>1. CASE k = key
      BY <1>5, <2>1, <2>2, <2>3, <3>1 DEF Needed
    <3>2. CASE k # key /\ k \in dsk.deps[key]
      BY <1>1, <1>2, <1>5, <1>15, <1>17, <2>1, <3>2
         DEF Bookkeeping, CacheExact, Needed, Available
    <3>3. CASE k # key /\ k \notin dsk.deps[key]
      <4>1. k \in Available => k \in Keys(dsk)
        BY DEF Available, Bookkeeping, GraphOK, IsGraph, JobTypes, Tasks
      <4>2. k \in Available => key \notin Dependents(dsk, k)
        BY <1>18, <3>3, <4>1
      <4>3. QED
        BY <1>5, <1>17, <2>1, <3>3, <4>2 DEF Bookkeeping, CacheExact, Needed, Available
    <3>4. QED
      BY <3>1, <3>2, <3>3
  <2>5. QED
    BY <2>1, <2>4 DEF CacheExact
<1>22. GraphOK'
  BY DEF Bookkeeping, GraphOK
<1>23. QED
  BY <1>9, <1>13, <1>14, <1>19, <1>20, <1>21, <1>22 DEF Bookkeeping

-----------------------------------------------------------------------------
(* Where submitted tasks are. *)
Item == [key : Tasks(dsk), failed : BOOLEAN]

DistinctKeys(its) ==
  \A i, j \in DOMAIN its : its[i].key = its[j].key => i = j

Submission ==
  /\ chunksize \in ChunkSizes
  /\ pc \in {"loop", "get", "apply", "returned", "raised"}
  /\ inflight \subseteq Seq(Tasks(dsk))
  /\ \A b \in inflight : b # <<>> /\ IsInjective(b) /\ Range(b) \subseteq running
  /\ \A b, c \in inflight : b # c => Range(b) \cap Range(c) = {}
  /\ queue \in Seq(Seq(Item))
  /\ \A i \in DOMAIN queue :
       queue[i] # <<>> /\ DistinctKeys(queue[i]) /\ ItemKeys(queue[i]) \subseteq running
  /\ \A i, j \in DOMAIN queue : i # j => ItemKeys(queue[i]) \cap ItemKeys(queue[j]) = {}
  /\ \A i \in DOMAIN queue : \A b \in inflight : ItemKeys(queue[i]) \cap Range(b) = {}
  /\ items \in Seq(Item) /\ DistinctKeys(items) /\ ItemKeys(items) \subseteq running
  /\ \A b \in inflight : ItemKeys(items) \cap Range(b) = {}
  /\ \A i \in DOMAIN queue : ItemKeys(items) \cap ItemKeys(queue[i]) = {}
  /\ pc = "apply" => items # <<>>
  /\ items # <<>> => pc \in {"apply", "raised"}

(* -(a // -c) rounds up: every batch but none beyond starts inside args.   *)
LEMMA CeilDivFacts ==
  ASSUME NEW a \in Nat, NEW c \in Nat \ {0}
  PROVE  /\ CeilDiv(a, c) \in Nat
         /\ \A i \in 1 .. CeilDiv(a, c) : (i - 1) * c + 1 <= a
<1>1. CeilDiv(a, c) \in Nat /\ c * CeilDiv(a, c) <= a + c - 1
  BY DEF CeilDiv
<1>2. ASSUME NEW i \in 1 .. CeilDiv(a, c) PROVE (i - 1) * c + 1 <= a
  <2>1. i * c <= c * CeilDiv(a, c)
    BY <1>1
  <2>2. (i - 1) * c = i * c - c
    OBVIOUS
  <2>3. i * c \in Nat /\ c * CeilDiv(a, c) \in Nat
    BY <1>1
  <2>4. QED
    BY <1>1, <2>1, <2>2, <2>3
<1>3. QED
  BY <1>1, <1>2

(* Slicing the popped tasks gives disjoint, non-empty batches. *)
LEMMA BatchFacts ==
  ASSUME NEW S, NEW s \in Seq(S), IsInjective(s), NEW c \in Nat \ {0}
  PROVE  /\ \A b \in Batches(s, c) :
              b \in Seq(S) /\ b # <<>> /\ IsInjective(b) /\ Range(b) \subseteq Range(s)
         /\ \A b, d \in Batches(s, c) : b # d => Range(b) \cap Range(d) = {}
<1> DEFINE lo(i) == (i - 1) * c + 1
           hi(i) == IF i * c < Len(s) THEN i * c ELSE Len(s)
           piece(i) == SubSeq(s, lo(i), hi(i))
<1>1. \A i \in 1 .. CeilDiv(Len(s), c) :
         i \in Nat /\ lo(i) \in 1 .. Len(s) /\ hi(i) \in lo(i) .. Len(s)
  <2> TAKE i \in 1 .. CeilDiv(Len(s), c)
  <2>1. Len(s) \in Nat
    OBVIOUS
  <2>2. (i - 1) * c + 1 <= Len(s) /\ i \in Nat \ {0}
    <3>1. CeilDiv(Len(s), c) \in Nat
      BY <2>1, CeilDivFacts
    <3>2. (i - 1) * c + 1 <= Len(s)
      BY <2>1, CeilDivFacts
    <3>3. QED
      BY <3>1, <3>2
  <2>3. (i - 1) * c \in Nat /\ i * c \in Nat /\ (i - 1) * c = i * c - c
    BY <2>2
  <2>4. QED
    BY <2>2, <2>3
<1>2. ASSUME NEW i \in 1 .. CeilDiv(Len(s), c)
      PROVE  /\ piece(i) \in Seq(S) /\ piece(i) # <<>> /\ IsInjective(piece(i))
             /\ \A x \in Range(piece(i)) : \E k \in lo(i) .. hi(i) : x = s[k]
  <2>1. lo(i) \in 1 .. Len(s) /\ hi(i) \in lo(i) .. Len(s)
    BY <1>1
  <2> HIDE DEF lo, hi
  <2>2. QED
    BY <2>1, SliceFacts
<1>3. ASSUME NEW i \in 1 .. CeilDiv(Len(s), c) PROVE Range(piece(i)) \subseteq Range(s)
  <2>1. lo(i) .. hi(i) \subseteq 1 .. Len(s)
    BY <1>1
  <2> HIDE DEF lo, hi, piece
  <2>2. QED
    BY <1>2, <2>1, RangeOfSeq
<1>4. ASSUME NEW i \in 1 .. CeilDiv(Len(s), c), NEW j \in 1 .. CeilDiv(Len(s), c), i < j
      PROVE  Range(piece(i)) \cap Range(piece(j)) = {}
  <2>1. hi(i) < lo(j)
    <3>1. i \in Nat /\ j \in Nat /\ j - 1 >= i
      BY <1>1, <1>4
    <3>2. i * c \in Nat /\ (j - 1) * c \in Nat /\ i * c <= (j - 1) * c
      BY <3>1
    <3>3. hi(i) <= i * c /\ hi(i) \in Int
      BY <1>1, <3>2
    <3>4. lo(j) = (j - 1) * c + 1
      OBVIOUS
    <3> HIDE DEF lo, hi
    <3>5. QED
      BY <3>2, <3>3, <3>4
  <2>2. lo(i) .. hi(i) \subseteq 1 .. Len(s) /\ lo(j) .. hi(j) \subseteq 1 .. Len(s)
    BY <1>1
  <2>3. hi(i) \in Int /\ lo(j) \in Int
    BY <1>1
  <2> HIDE DEF lo, hi, piece
  <2>4. ASSUME NEW k \in lo(i) .. hi(i), NEW l \in lo(j) .. hi(j) PROVE s[k] # s[l]
    <3>1. k \in DOMAIN s /\ l \in DOMAIN s /\ k # l
      BY <1>1, <2>1, <2>2, <2>3
    <3>2. QED
      BY <3>1 DEF IsInjective
  <2>5. QED
    BY <1>2, <2>4
<1>5. \A b \in Batches(s, c) : \E i \in 1 .. CeilDiv(Len(s), c) : b = piece(i)
  BY DEF Batches
<1> HIDE DEF lo, hi, piece
<1>6. ASSUME NEW b \in Batches(s, c), NEW d \in Batches(s, c), b # d
      PROVE  Range(b) \cap Range(d) = {}
  <2>1. PICK i \in 1 .. CeilDiv(Len(s), c) : b = piece(i)
    BY <1>5
  <2>2. PICK j \in 1 .. CeilDiv(Len(s), c) : d = piece(j)
    BY <1>5
  <2>3. i < j \/ j < i
    BY <1>1, <1>6, <2>1, <2>2
  <2>4. QED
    BY <1>4, <2>1, <2>2, <2>3
<1>7. QED
  BY <1>2, <1>3, <1>5, <1>6

-----------------------------------------------------------------------------
(* The remaining facts TypeOK and the return value rest on. *)
CacheTypes == cache \in [DOMAIN cache -> {Value, Exception}]
Drained == pc = "returned" => ~ Unfinished

IInv == Bookkeeping /\ Submission /\ CacheTypes /\ Drained /\ rerun \in RerunLocally

(* The state start_state_from_dask returns satisfies the invariant.        *)
LEMMA InitIInv == LocalInit => IInv
<1> SUFFICES ASSUME LocalInit PROVE IInv
  OBVIOUS
<1>1. Bookkeeping
  BY InitBookkeeping
<1>2. Submission
  BY DEF LocalInit, Submission, ItemKeys, DistinctKeys
<1>3. CacheTypes /\ Drained /\ rerun \in RerunLocally
  BY DEF LocalInit, StartState, CacheTypes, Drained
<1>4. QED
  BY <1>1, <1>2, <1>3 DEF IInv

(* Where fire_tasks does not divide by zero, batches have a positive size. *)
LEMMA BatchSizeType ==
  ASSUME Bookkeeping, chunksize \in ChunkSizes, BatchSize # 0
  PROVE  BatchSize \in Nat \ {0}
<1>1. CASE chunksize = -1
  <2>1. Len(ready) \in Nat
    BY DEF Bookkeeping, JobTypes
  <2>2. CeilDiv(Len(ready), NumWorkers) \in Nat
    BY <2>1, CeilDivFacts, WorkersAssumption
  <2>3. QED
    BY <1>1, <2>2 DEF BatchSize
<1>2. CASE chunksize # -1
  BY <1>2, ChunkAssumption DEF BatchSize
<1>3. QED
  BY <1>1, <1>2

(* The batches fire_tasks submits are disjoint from one another and from   *)
(* all that is still out.                                                  *)
LEMMA FireSubmission ==
  ASSUME Bookkeeping, Submission, FireTasks
  PROVE  Submission'
<1> DEFINE top == Popped(Ntasks)
           new == Batches(top, BatchSize)
<1>1. /\ top \in Seq(Tasks(dsk)) /\ IsInjective(top)
      /\ Range(top) \cap (running \cup finished) = {}
  BY FireBookkeeping DEF Submission
<1>2. BatchSize \in Nat \ {0}
  BY BatchSizeType DEF Submission, FireTasks
<1>3. /\ \A b \in new : b \in Seq(Tasks(dsk)) /\ b # <<>> /\ IsInjective(b)
                        /\ Range(b) \subseteq Range(top)
      /\ \A b, d \in new : b # d => Range(b) \cap Range(d) = {}
  <2> HIDE DEF top
  <2>1. QED
    BY <1>1, <1>2, BatchFacts
<1>4. /\ inflight' = inflight \cup new
      /\ running' = running \cup Range(top)
      /\ pc' = "get" /\ pc = "loop"
      /\ UNCHANGED <<dsk, chunksize, queue, items>>
  BY DEF FireTasks
<1> HIDE DEF top, new
<1>5. items = <<>>
  BY <1>4 DEF Submission
<1>6. /\ \A b \in inflight' : b \in Seq(Tasks(dsk)) /\ b # <<>> /\ IsInjective(b)
                              /\ Range(b) \subseteq running'
      /\ \A b, c \in inflight' : b # c => Range(b) \cap Range(c) = {}
  BY <1>1, <1>3, <1>4 DEF Submission
<1>7. \A i \in DOMAIN queue' :
        /\ ItemKeys(queue'[i]) \subseteq running'
        /\ \A b \in inflight' : ItemKeys(queue'[i]) \cap Range(b) = {}
  BY <1>1, <1>3, <1>4 DEF Submission
<1>8. ItemKeys(items') = {} /\ DistinctKeys(items') /\ items' \in Seq(Item')
  BY <1>4, <1>5 DEF ItemKeys, DistinctKeys
<1>9. QED
  BY <1>4, <1>5, <1>6, <1>7, <1>8 DEF Submission, Item

(* A future that completes moves its batch to the queue.                   *)
LEMMA CompleteSubmission ==
  ASSUME Bookkeeping, Submission, NEW b \in inflight, Complete(b)
  PROVE  Submission'
<1>1. PICK failed \in SUBSET Range(b) :
        queue' = Append(queue, [i \in DOMAIN b |->
                                  [key |-> b[i], failed |-> b[i] \in failed]])
  BY DEF Complete
<1> DEFINE its == [i \in DOMAIN b |-> [key |-> b[i], failed |-> b[i] \in failed]]
<1>2. b \in Seq(Tasks(dsk)) /\ b # <<>> /\ IsInjective(b) /\ Range(b) \subseteq running
  BY DEF Submission
<1>3. its \in Seq(Item) /\ Len(its) = Len(b) /\ its # <<>>
  <2>1. DOMAIN b = 1 .. Len(b) /\ Len(b) \in Nat /\ Len(b) # 0
    BY <1>2
  <2>2. \A i \in DOMAIN b : its[i] \in Item
    BY <1>2 DEF Item
  <2>3. its \in Seq(Item) /\ Len(its) = Len(b)
    BY <2>1, <2>2
  <2>4. QED
    BY <2>1, <2>3
<1>4. ItemKeys(its) = Range(b) /\ DistinctKeys(its)
  BY <1>2 DEF ItemKeys, DistinctKeys, Range, IsInjective
<1> HIDE DEF its
<1>5. /\ queue' \in Seq(Seq(Item)) /\ Len(queue') = Len(queue) + 1
      /\ queue'[Len(queue) + 1] = its
      /\ \A i \in 1 .. Len(queue) : queue'[i] = queue[i]
  BY <1>1, <1>3 DEF Submission, its
<1>6. /\ inflight' = inflight \ {b}
      /\ UNCHANGED <<dsk, chunksize, running, items, pc>>
  BY DEF Complete, state
<1>7. /\ DOMAIN queue = 1 .. Len(queue)
      /\ DOMAIN queue' = 1 .. Len(queue) + 1
      /\ Len(queue) \in Nat
  BY <1>5 DEF Submission
<1>8. \A i \in DOMAIN queue' :
         (i \in DOMAIN queue /\ queue'[i] = queue[i]) \/ (i = Len(queue) + 1 /\ queue'[i] = its)
  BY <1>5, <1>7
<1>9. \A c \in inflight' : c \in inflight /\ Range(c) \cap Range(b) = {}
  BY <1>6 DEF Submission
<1>10. \A i \in DOMAIN queue' :
         /\ queue'[i] # <<>> /\ DistinctKeys(queue'[i])
         /\ ItemKeys(queue'[i]) \subseteq running
         /\ \A c \in inflight' : ItemKeys(queue'[i]) \cap Range(c) = {}
         /\ ItemKeys(items) \cap ItemKeys(queue'[i]) = {}
  BY <1>2, <1>3, <1>4, <1>8, <1>9 DEF Submission
<1>11. \A i, j \in DOMAIN queue' :
         i # j => ItemKeys(queue'[i]) \cap ItemKeys(queue'[j]) = {}
  BY <1>4, <1>8 DEF Submission
<1>12. /\ inflight' \subseteq Seq(Tasks(dsk))
       /\ \A c \in inflight' : c # <<>> /\ IsInjective(c) /\ Range(c) \subseteq running
       /\ \A c, d \in inflight' : c # d => Range(c) \cap Range(d) = {}
       /\ \A c \in inflight' : ItemKeys(items) \cap Range(c) = {}
  BY <1>9 DEF Submission
<1>13. QED
  BY <1>5, <1>6, <1>10, <1>11, <1>12 DEF Submission, Item

(* queue_get moves a batch from the queue to the loop over its results.    *)
LEMMA GetSubmission ==
  ASSUME Submission, GetBatch
  PROVE  Submission'
<1>1. /\ pc' = "apply" /\ queue # <<>>
      /\ items' = Head(queue) /\ queue' = Tail(queue)
      /\ UNCHANGED <<dsk, chunksize, running, inflight>>
  BY DEF GetBatch, state
<1>2. queue \in Seq(Seq(Item))
  BY DEF Submission
<1>3. /\ 1 \in DOMAIN queue /\ items' = queue[1]
      /\ queue' \in Seq(Seq(Item))
      /\ \A i \in DOMAIN queue' : i + 1 \in DOMAIN queue /\ queue'[i] = queue[i + 1]
                                  /\ i + 1 # 1 /\ i \in Nat
  BY <1>1, <1>2
<1>4. items' # <<>> /\ items' \in Seq(Item) /\ DistinctKeys(items')
      /\ ItemKeys(items') \subseteq running
  BY <1>2, <1>3 DEF Submission
<1>5. \A i \in DOMAIN queue' :
         /\ queue'[i] # <<>> /\ DistinctKeys(queue'[i])
         /\ ItemKeys(queue'[i]) \subseteq running
         /\ ItemKeys(items') \cap ItemKeys(queue'[i]) = {}
         /\ \A b \in inflight : ItemKeys(queue'[i]) \cap Range(b) = {}
  BY <1>3 DEF Submission
<1>6. \A i, j \in DOMAIN queue' :
         i # j => ItemKeys(queue'[i]) \cap ItemKeys(queue'[j]) = {}
  <2>1. TAKE i, j \in DOMAIN queue'
  <2>2. i # j => i + 1 # j + 1
    BY <1>3
  <2>3. QED
    BY <1>3, <2>2 DEF Submission
<1>7. \A b \in inflight : ItemKeys(items') \cap Range(b) = {}
  BY <1>3 DEF Submission
<1>8. QED
  BY <1>1, <1>3, <1>4, <1>5, <1>6, <1>7 DEF Submission, Item

(* Applying one result takes its key out of running; the rest of the batch *)
(* is still running.                                                       *)
LEMMA ApplySubmission ==
  ASSUME Submission, pc = "apply", NEW res, FinishTask(Head(items).key, res), Advance
  PROVE  /\ Head(items).key \in running
         /\ Submission'
<1> DEFINE key == Head(items).key
<1>1. items \in Seq(Item) /\ items # <<>> /\ DistinctKeys(items)
  BY DEF Submission
<1>2. /\ 1 \in DOMAIN items /\ key = items[1].key
      /\ items' = Tail(items) /\ items' \in Seq(Item)
      /\ \A i \in DOMAIN items' : i + 1 \in DOMAIN items /\ items'[i] = items[i + 1]
                                  /\ i + 1 # 1 /\ i \in Nat
  BY <1>1 DEF Advance
<1>3. key \in ItemKeys(items)
  BY <1>2 DEF ItemKeys
<1>4. key \in running
  BY <1>3 DEF Submission
<1>5. /\ running' = running \ {key}
      /\ UNCHANGED <<dsk, chunksize, inflight, queue>>
      /\ pc' = IF items' = <<>> THEN "loop" ELSE "apply"
  BY <1>2 DEF FinishTask, Advance
<1>6. ItemKeys(items') \subseteq ItemKeys(items) \ {key}
  <2>1. SUFFICES ASSUME NEW i \in DOMAIN items'
                 PROVE  items'[i].key \in ItemKeys(items) /\ items'[i].key # key
    BY DEF ItemKeys
  <2>2. QED
    BY <1>1, <1>2 DEF ItemKeys, DistinctKeys
<1>7. DistinctKeys(items')
  <2>1. SUFFICES ASSUME NEW i \in DOMAIN items', NEW j \in DOMAIN items',
                        items'[i].key = items'[j].key
                 PROVE  i = j
    BY DEF DistinctKeys
  <2>2. i + 1 = j + 1
    BY <1>1, <1>2, <2>1 DEF DistinctKeys
  <2>3. QED
    BY <1>2, <2>2
<1>8. /\ \A b \in inflight : Range(b) \subseteq running'
      /\ \A b \in inflight : ItemKeys(items') \cap Range(b) = {}
  BY <1>3, <1>5, <1>6 DEF Submission
<1>9. \A i \in DOMAIN queue :
        /\ ItemKeys(queue[i]) \subseteq running'
        /\ ItemKeys(items') \cap ItemKeys(queue[i]) = {}
  BY <1>3, <1>5, <1>6 DEF Submission
<1>10. ItemKeys(items') \subseteq running'
  BY <1>5, <1>6 DEF Submission
<1>11. QED
  BY <1>2, <1>4, <1>5, <1>7, <1>8, <1>9, <1>10 DEF Submission, Item

-----------------------------------------------------------------------------
(* A result is applied with finish_task, or the batch's next item is. *)
LEMMA ApplyIInv ==
  ASSUME IInv, pc = "apply", NEW res \in {Value, Exception},
         FinishTask(Head(items).key, res), Advance
  PROVE  IInv'
<1> DEFINE key == Head(items).key
<1>1. key \in running /\ Submission'
  BY ApplySubmission DEF IInv
<1>2. dsk' = dsk
  BY DEF Advance
<1>3. Bookkeeping'
  BY <1>1, <1>2, FinishBookkeeping DEF IInv
<1>4. CacheTypes'
  <2>1. \A d \in DOMAIN cache' : cache'[d] = res \/ (d \in DOMAIN cache /\ cache'[d] = cache[d])
    BY DEF FinishTask
  <2>2. cache' = [d \in DOMAIN cache' |-> cache'[d]]
    BY DEF FinishTask
  <2>3. \A d \in DOMAIN cache' : cache'[d] \in {Value, Exception}
    BY <2>1 DEF IInv, CacheTypes
  <2>4. QED
    BY <2>2, <2>3 DEF CacheTypes
<1>5. Drained' /\ (rerun \in RerunLocally)'
  BY DEF Advance, Drained, IInv
<1>6. QED
  BY <1>1, <1>3, <1>4, <1>5 DEF IInv

(* Steps that leave the scheduler's dictionaries alone. *)
LEMMA StateUnchanged ==
  ASSUME Bookkeeping, CacheTypes, UNCHANGED <<dsk, state>>
  PROVE  Bookkeeping' /\ CacheTypes'
<1>1. UNCHANGED <<dsk, waiting, waiting_data, cache, ready, running, finished, released>>
  BY DEF state
<1>2. GraphOK' /\ JobTypes' /\ Accounting'
  BY <1>1 DEF Bookkeeping, GraphOK, JobTypes, Accounting
<1>3. WaitingExact' /\ WaitingDataExact' /\ ReleasedExact' /\ CacheExact'
  BY <1>1 DEF Bookkeeping, WaitingExact, WaitingDataExact, ReleasedExact, CacheExact, Available
<1>4. QED
  BY <1>1, <1>2, <1>3 DEF Bookkeeping, CacheTypes

(* Leaving the loop, normally or not, changes pc only. *)
LEMMA PcOnlySubmission ==
  ASSUME Submission, UNCHANGED <<dsk, chunksize, running, inflight, queue, items>>,
         \/ items = <<>> /\ pc' = "returned"
         \/ pc' = "raised"
  PROVE  Submission'
BY DEF Submission, Item

LEMMA RerunFixed == [LocalNext]_allvars => rerun' = rerun
BY DEF allvars, LocalNext, MainStep, FireTasks, FireTasksDividesByZero, Complete,
       GetBatch, ApplyResult, RaiseTaskError, RerunSucceeds, Finish, Advance

(* Every step of get_async and of the workers preserves the invariant.     *)
LEMMA NextIInv == IInv /\ [LocalNext]_allvars => IInv'
<1> SUFFICES ASSUME IInv, [LocalNext]_allvars PROVE IInv'
  OBVIOUS
<1>0. (rerun \in RerunLocally)'
  BY RerunFixed DEF IInv
<1>1. CASE FireTasks
  <2>1. Bookkeeping' /\ Submission'
    BY <1>1, FireBookkeeping, FireSubmission DEF IInv, Submission
  <2>2. CacheTypes' /\ Drained'
    BY <1>1 DEF FireTasks, IInv, CacheTypes, Drained
  <2>3. QED
    BY <1>0, <2>1, <2>2 DEF IInv
<1>2. CASE FireTasksDividesByZero
  <2>1. /\ UNCHANGED <<dsk, state>> /\ pc' = "raised"
        /\ UNCHANGED <<dsk, chunksize, running, inflight, queue, items>>
    BY <1>2 DEF FireTasksDividesByZero, state
  <2>2. Bookkeeping' /\ CacheTypes' /\ Submission'
    BY <2>1, StateUnchanged, PcOnlySubmission DEF IInv
  <2>3. QED
    BY <1>0, <2>1, <2>2 DEF IInv, Drained
<1>3. CASE \E b \in inflight : Complete(b)
  <2>1. PICK b \in inflight : Complete(b)
    BY <1>3
  <2>2. UNCHANGED <<dsk, state>> /\ pc' = pc
    BY <2>1 DEF Complete
  <2>3. Bookkeeping' /\ CacheTypes'
    BY <2>2, StateUnchanged DEF IInv
  <2>4. Submission'
    BY <2>1, CompleteSubmission DEF IInv
  <2>5. Drained'
    BY <2>2 DEF IInv, Drained, Unfinished, state
  <2>6. QED
    BY <1>0, <2>3, <2>4, <2>5 DEF IInv
<1>4. CASE GetBatch
  <2>1. UNCHANGED <<dsk, state>> /\ pc' = "apply"
    BY <1>4 DEF GetBatch
  <2>2. Bookkeeping' /\ CacheTypes' /\ Submission'
    BY <1>4, <2>1, StateUnchanged, GetSubmission DEF IInv
  <2>3. QED
    BY <1>0, <2>1, <2>2 DEF IInv, Drained
<1>5. CASE ApplyResult
  BY <1>5, ApplyIInv DEF ApplyResult, Unpacked
<1>6. CASE RerunSucceeds
  BY <1>6, ApplyIInv DEF RerunSucceeds, Unpacked
<1>7. CASE RaiseTaskError
  <2>1. /\ UNCHANGED <<dsk, state>> /\ pc' = "raised"
        /\ UNCHANGED <<dsk, chunksize, running, inflight, queue, items>>
    BY <1>7 DEF RaiseTaskError, state
  <2>2. Bookkeeping' /\ CacheTypes' /\ Submission'
    BY <2>1, StateUnchanged, PcOnlySubmission DEF IInv
  <2>3. QED
    BY <1>0, <2>1, <2>2 DEF IInv, Drained
<1>8. CASE Finish
  <2>1. /\ UNCHANGED <<dsk, state>> /\ pc' = "returned" /\ pc = "loop"
        /\ UNCHANGED <<dsk, chunksize, running, inflight, queue, items>>
        /\ ~ Unfinished
    BY <1>8 DEF Finish, state
  <2>2. items = <<>>
    BY <2>1 DEF IInv, Submission
  <2>3. Bookkeeping' /\ CacheTypes' /\ Submission'
    BY <2>1, <2>2, StateUnchanged, PcOnlySubmission DEF IInv
  <2>4. Drained'
    BY <2>1 DEF Drained, Unfinished, state
  <2>5. QED
    BY <1>0, <2>3, <2>4 DEF IInv
<1>9. CASE UNCHANGED allvars
  <2>1. /\ UNCHANGED <<dsk, state>>
        /\ UNCHANGED <<dsk, chunksize, running, inflight, queue, items, pc>>
    BY <1>9 DEF allvars, state
  <2>2. Bookkeeping' /\ CacheTypes'
    BY <2>1, StateUnchanged DEF IInv
  <2>3. Submission'
    BY <2>1 DEF IInv, Submission, Item
  <2>4. Drained'
    BY <2>1 DEF IInv, Drained, Unfinished, state
  <2>5. QED
    BY <1>0, <2>2, <2>3, <2>4 DEF IInv
<1>10. QED
  BY <1>1, <1>2, <1>3, <1>4, <1>5, <1>6, <1>7, <1>8, <1>9 DEF LocalNext, MainStep

(* The inductive invariant holds of every call of get_async. *)
THEOREM InductiveInvariant == LocalSpec => []IInv
BY InitIInv, NextIInv, PTL DEF LocalSpec

-----------------------------------------------------------------------------
(* The scheduler's dictionaries, stack and queue keep their shapes. *)
THEOREM TypeCorrect == LocalSpec => []TypeOK
<1>1. IInv => TypeOK
  <2> SUFFICES ASSUME IInv PROVE TypeOK
    OBVIOUS
  <2>1. /\ DOMAIN waiting \subseteq Tasks(dsk)
        /\ \A k \in DOMAIN waiting : waiting[k] \subseteq Keys(dsk)
    BY DEF IInv, Bookkeeping, WaitingExact, GraphOK, IsGraph, Tasks
  <2>2. /\ DOMAIN waiting_data \subseteq Keys(dsk)
        /\ \A k \in DOMAIN waiting_data : waiting_data[k] \subseteq Tasks(dsk)
    BY ReadersAreTasks DEF IInv, Bookkeeping, WaitingDataExact, GraphOK
  <2>3. DOMAIN cache \subseteq Keys(dsk) /\ released \subseteq Keys(dsk)
    BY DEF IInv, Bookkeeping, CacheExact, ReleasedExact, Needed, JobTypes,
           GraphOK, IsGraph, Tasks
  <2>4. /\ IsGraph(dsk) /\ IsOrdered(dsk)
        /\ ready \in Seq(Tasks(dsk)) /\ running \subseteq Tasks(dsk)
        /\ finished \subseteq Tasks(dsk)
    BY DEF IInv, Bookkeeping, GraphOK, JobTypes
  <2>5. /\ rerun \in RerunLocally /\ chunksize \in ChunkSizes
        /\ inflight \subseteq Seq(Tasks(dsk))
        /\ queue \in Seq(Seq([key : Tasks(dsk), failed : BOOLEAN]))
        /\ items \in Seq([key : Tasks(dsk), failed : BOOLEAN])
        /\ pc \in {"loop", "get", "apply", "returned", "raised"}
    BY DEF IInv, Submission, Item
  <2>6. QED
    BY <2>1, <2>2, <2>3, <2>4, <2>5 DEF TypeOK, IInv, CacheTypes
<1>2. QED
  BY <1>1, InductiveInvariant, PTL

(* No task is dropped or held twice, and waiting and waiting_data hold     *)
(* exactly what their definitions promise.                                 *)
THEOREM BooksExact ==
  LocalSpec => []Books
<1>1. IInv => Books
  BY DEF IInv, Bookkeeping, Books
<1>2. QED
  BY <1>1, InductiveInvariant, PTL

(* Memory is exact: computed data is in the cache if and only if it is a   *)
(* requested result or an unfinished task still reads it.                  *)
THEOREM MemoryExact == LocalSpec => []CacheExact
<1>1. IInv => CacheExact
  BY DEF IInv, Bookkeeping
<1>2. QED
  BY <1>1, InductiveInvariant, PTL

(* The inputs of every task that may be popped are in the cache, so        *)
(* fire_tasks never meets a missing key.                                   *)
THEOREM InputsAlwaysCached == LocalSpec => []InputsCached
<1>1. IInv => InputsCached
  <2> SUFFICES ASSUME IInv, NEW t \in Range(ready) \cup running, NEW d \in dsk.deps[t]
               PROVE  d \in DOMAIN cache
    BY DEF InputsCached
  <2>1. t \in Tasks(dsk) /\ t \notin DOMAIN waiting /\ t \notin finished
    BY RangeOfSeq DEF IInv, Bookkeeping, JobTypes, Accounting
  <2>2. d \in Available
    BY <2>1 DEF IInv, Bookkeeping, WaitingExact
  <2>3. t \in Dependents(dsk, d)
    BY <2>1 DEF Dependents, Tasks
  <2>4. QED
    BY <2>1, <2>2, <2>3 DEF IInv, Bookkeeping, CacheExact, Needed, Available
<1>2. QED
  BY <1>1, InductiveInvariant, PTL

(* A successful call leaves the requested results in memory, all of them   *)
(* and nothing else, after running every task.                             *)
THEOREM ResultsOnly == LocalSpec => []ReturnsResultsOnly
<1>1. IInv => ReturnsResultsOnly
  <2> SUFFICES ASSUME IInv, pc = "returned"
               PROVE  finished = Tasks(dsk) /\ DOMAIN cache = dsk.results
    BY DEF ReturnsResultsOnly
  <2>1. DOMAIN waiting = {} /\ ready = <<>> /\ running = {}
    BY DEF IInv, Drained, Unfinished
  <2>2. finished = Tasks(dsk)
    BY <2>1 DEF IInv, Bookkeeping, Accounting, Range
  <2>3. \A k \in Keys(dsk) : Dependents(dsk, k) \subseteq finished
    BY <2>2, ReadersAreTasks DEF IInv, Bookkeeping, GraphOK
  <2>4. dsk.data \cup finished = Keys(dsk) /\ dsk.results \subseteq Keys(dsk)
    BY <2>2 DEF IInv, Bookkeeping, GraphOK, IsGraph, Tasks
  <2>5. DOMAIN cache = dsk.results
    BY <2>3, <2>4 DEF IInv, Bookkeeping, CacheExact, Needed
  <2>6. QED
    BY <2>2, <2>5
<1>2. QED
  BY <1>1, InductiveInvariant, PTL

(* Whatever the order in which futures complete, applying a result never   *)
(* raises KeyError and release_data's assertion never fails.               *)
THEOREM FinishIsSafe == LocalSpec => []FinishNeverFails
<1>1. IInv => FinishNeverFails
  <2> SUFFICES ASSUME IInv, items # <<>> PROVE FinishTaskDefined(Head(items).key)
    BY DEF FinishNeverFails
  <2>1. items \in Seq(Item) /\ ItemKeys(items) \subseteq running
    BY DEF IInv, Submission
  <2>2. 1 \in DOMAIN items /\ Head(items) = items[1]
    BY <2>1
  <2>3. Head(items).key \in running
    BY <2>1, <2>2 DEF ItemKeys
  <2>4. QED
    BY <2>3, FinishDefined DEF IInv
<1>2. QED
  BY <1>1, InductiveInvariant, PTL

(* Only fire_tasks submits, and it submits tasks that were ready. *)
LEMMA StepNeverResubmits ==
  IInv /\ [LocalNext]_allvars =>
    [\A b \in inflight' \ inflight : Range(b) \cap (running \cup finished) = {}]_allvars
<1> SUFFICES ASSUME IInv, LocalNext, NEW b \in inflight' \ inflight
             PROVE  Range(b) \cap (running \cup finished) = {}
  OBVIOUS
<1>1. CASE FireTasks
  <2>1. /\ Popped(Ntasks) \in Seq(Tasks(dsk)) /\ IsInjective(Popped(Ntasks))
        /\ Range(Popped(Ntasks)) \cap (running \cup finished) = {}
    BY <1>1, FireBookkeeping DEF IInv, Submission
  <2>2. b \in Batches(Popped(Ntasks), BatchSize)
    BY <1>1 DEF FireTasks
  <2>3. BatchSize \in Nat \ {0}
    BY <1>1, BatchSizeType DEF IInv, Submission, FireTasks
  <2>4. Range(b) \subseteq Range(Popped(Ntasks))
    BY <2>1, <2>2, <2>3, BatchFacts
  <2>5. QED
    BY <2>1, <2>4
<1>2. CASE \E c \in inflight : Complete(c)
  BY <1>2 DEF Complete
<1>3. CASE FireTasksDividesByZero \/ GetBatch \/ ApplyResult \/ RaiseTaskError
             \/ RerunSucceeds \/ Finish
  BY <1>3 DEF FireTasksDividesByZero, GetBatch, ApplyResult, RaiseTaskError,
              RerunSucceeds, Finish, Advance
<1>4. QED
  BY <1>1, <1>2, <1>3 DEF LocalNext, MainStep

(* No task is ever submitted a second time. *)
THEOREM RunsOnce == LocalSpec => NeverResubmits
BY StepNeverResubmits, InductiveInvariant, PTL DEF LocalSpec, NeverResubmits

-----------------------------------------------------------------------------
(* Rounding up the number of used workers never underestimates them, so    *)
(* the free ones leave room for what fire_tasks pops.                      *)
LEMMA FireBound ==
  ASSUME IInv, WorkersBound, FireTasks
  PROVE  WorkersBound'
<1> DEFINE R == Cardinality(running)
           U == UsedWorkers
           top == Popped(Ntasks)
<1> SUFFICES ASSUME chunksize # -1
             PROVE  Cardinality(running') <= NumWorkers * chunksize
  BY DEF WorkersBound, FireTasks
<1>1. chunksize \in Nat \ {0} /\ NumWorkers \in Nat \ {0}
  BY ChunkAssumption, WorkersAssumption DEF IInv, Submission
<1>2. /\ top \in Seq(Tasks(dsk)) /\ IsInjective(top)
      /\ Range(top) \cap running = {}
  BY FireBookkeeping DEF IInv, Submission
<1>3. Ntasks \in Nat /\ Len(top) = Ntasks
  <2>1. Ntasks \in 0 .. Len(ready) /\ Len(ready) \in Nat
    BY NtasksBound DEF IInv, Submission, Bookkeeping, JobTypes
  <2> HIDE DEF Ntasks
  <2>2. DOMAIN top = 1 .. Ntasks /\ Ntasks \in Nat
    BY <2>1 DEF Popped
  <2>3. QED
    BY <1>2, <2>2
<1>4. IsFiniteSet(running) /\ R \in Nat
  BY KeyAssumption, FS_Subset, FS_CardinalityType
     DEF IInv, Bookkeeping, JobTypes, GraphOK, IsGraph, Tasks, Keys
<1>5. Cardinality(running') = R + Ntasks
  <2>1. running' = running \cup Range(top)
    BY DEF FireTasks
  <2>2. IsFiniteSet(Range(top)) /\ Cardinality(Range(top)) = Ntasks
    BY <1>2, <1>3, RangeCardinality
  <2>3. Cardinality(running \cap Range(top)) = 0
    BY <1>2, FS_EmptySet
  <2> HIDE DEF top, Ntasks
  <2>4. Cardinality(running \cup Range(top)) = R + Ntasks - 0
    BY <1>4, <2>2, <2>3, FS_Union
  <2>5. QED
    BY <1>3, <1>4, <2>1, <2>4
<1>6. Ntasks <= chunksize * FreeWorkers
  <2>1. FreeWorkers \in Int
    BY <1>1, <1>4 DEF FreeWorkers, UsedWorkers, CeilDiv
  <2>2. chunksize * FreeWorkers \in Int /\ Len(ready) \in Nat
    BY <1>1, <2>1 DEF IInv, Bookkeeping, JobTypes
  <2>3. QED
    BY <2>2 DEF Ntasks
<1>7. U \in Nat /\ R <= chunksize * U
  BY <1>1, <1>4 DEF UsedWorkers, CeilDiv
<1> HIDE DEF R, U, top
<1>8. CASE U < NumWorkers
  <2>1. FreeWorkers = NumWorkers - U
    BY <1>8 DEF FreeWorkers, U
  <2>2. chunksize * (NumWorkers - U) = chunksize * NumWorkers - chunksize * U
    BY <1>1, <1>7
  <2>3. chunksize * U \in Nat /\ chunksize * NumWorkers = NumWorkers * chunksize
        /\ NumWorkers * chunksize \in Nat
    BY <1>1, <1>7
  <2>4. QED
    BY <1>3, <1>4, <1>5, <1>6, <1>7, <2>1, <2>2, <2>3 DEF R
<1>9. CASE ~ U < NumWorkers
  <2>1. Ntasks <= 0
    BY <1>1, <1>6, <1>9 DEF FreeWorkers, U
  <2>2. R <= NumWorkers * chunksize /\ NumWorkers * chunksize \in Nat
    BY <1>1 DEF WorkersBound, R
  <2>3. QED
    BY <1>3, <1>4, <1>5, <2>1, <2>2 DEF R
<1>10. QED
  BY <1>8, <1>9

(* With an explicit chunk size the workers are never given more tasks than *)
(* num_workers batches hold.                                               *)
THEOREM WorkersTheorem == LocalSpec => []WorkersBound
<1>1. LocalInit => WorkersBound
  <2> SUFFICES ASSUME LocalInit, chunksize # -1
               PROVE  Cardinality(running) <= NumWorkers * chunksize
    BY DEF WorkersBound
  <2>1. chunksize \in Nat /\ NumWorkers \in Nat
    BY ChunkAssumption, WorkersAssumption DEF LocalInit
  <2>2. NumWorkers * chunksize >= 0
    BY <2>1
  <2>3. Cardinality(running) = 0
    BY FS_EmptySet DEF LocalInit, StartState
  <2>4. QED
    BY <2>2, <2>3
<1>2. IInv /\ WorkersBound /\ [LocalNext]_allvars => WorkersBound'
  <2> SUFFICES ASSUME IInv, WorkersBound, [LocalNext]_allvars PROVE WorkersBound'
    OBVIOUS
  <2>1. CASE FireTasks
    BY <2>1, FireBound
  <2>2. CASE ~ FireTasks
    <3>1. running' \in SUBSET running /\ chunksize' = chunksize
      BY <2>2 DEF LocalNext, MainStep, FireTasksDividesByZero, Complete, GetBatch,
                  ApplyResult, RaiseTaskError, RerunSucceeds, Finish, Advance,
                  FinishTask, state, allvars
    <3>2. IsFiniteSet(running)
      BY KeyAssumption, FS_Subset
         DEF IInv, Bookkeeping, JobTypes, GraphOK, IsGraph, Tasks, Keys
    <3>3. /\ Cardinality(running') <= Cardinality(running)
          /\ Cardinality(running') \in Nat /\ Cardinality(running) \in Nat
      BY <3>1, <3>2, FS_Subset, FS_CardinalityType
    <3>4. chunksize # -1 => NumWorkers * chunksize \in Nat
      BY ChunkAssumption, WorkersAssumption DEF IInv, Submission
    <3>5. QED
      BY <3>1, <3>3, <3>4 DEF WorkersBound
  <2>3. QED
    BY <2>1, <2>2
<1>3. QED
  BY <1>1, <1>2, InductiveInvariant, PTL DEF LocalSpec

-----------------------------------------------------------------------------
(* local.py implements TaskGraph: get_async's first state is one of its    *)
(* first states, applying a result computes a task, returning and raising  *)
(* are themselves, and everything else is invisible.                       *)
LEMMA SameGraphTerms ==
  /\ \A g : Promise!Tasks(g) = Tasks(g)
  /\ \A g, d : Promise!Needed(g, d) = Needed(g, d)
BY DEF Tasks, Keys, Needed, Dependents,
       Promise!Tasks, Promise!Keys, Promise!Needed, Promise!Dependents

(* Storing a result and finish_task are together one Compute of TaskGraph. *)
LEMMA ApplyComputes ==
  ASSUME IInv, pc = "apply", NEW res \in {Value, Exception}, res = Exception => rerun,
         FinishTask(Head(items).key, res), Advance
  PROVE  \E key \in Key : Promise!Compute(key)
<1>0. PICK key : key = Head(items).key
  OBVIOUS
<1>1. key \in running /\ key \in Key
  BY <1>0, ApplySubmission DEF IInv, Bookkeeping, JobTypes, GraphOK, IsGraph, Tasks
<1>2. key \in Tasks(dsk) \ finished
  BY <1>1 DEF IInv, Bookkeeping, JobTypes, Accounting
<1>3. dsk.deps[key] \subseteq DOMAIN cache
  <2>1. key \notin DOMAIN waiting /\ key \in Keys(dsk)
    BY <1>1, <1>2 DEF IInv, Bookkeeping, Accounting, Tasks
  <2>2. SUFFICES ASSUME NEW d \in dsk.deps[key] PROVE d \in DOMAIN cache
    OBVIOUS
  <2>3. d \in Available /\ key \in Dependents(dsk, d)
    BY <1>2, <2>1 DEF IInv, Bookkeeping, WaitingExact, Dependents
  <2>4. QED
    BY <1>2, <2>3 DEF IInv, Bookkeeping, CacheExact, Needed, Available
<1>4. /\ finished' = finished \cup {key} /\ dsk' = dsk /\ rerun' = rerun
      /\ pc' \in {"loop", "apply"}
  BY <1>0 DEF FinishTask, Advance
<1>5. DOMAIN cache' = Needed(dsk, finished')
  BY ApplyIInv, <1>4 DEF IInv, Bookkeeping, CacheExact
<1>6. LET spoiled == {k \in DOMAIN cache : cache[k] = Exception}
          after == {k \in DOMAIN cache' : cache'[k] = Exception}
      IN  \/ after = spoiled \cap DOMAIN cache'
          \/ rerun /\ after = (spoiled \cup {key}) \cap DOMAIN cache'
  <2>1. key \notin DOMAIN cache
    BY <1>2 DEF IInv, Bookkeeping, CacheExact, Needed, Tasks
  <2>2. \A d \in DOMAIN cache' : cache'[d] = IF d = key THEN res ELSE cache[d]
    BY <1>0 DEF FinishTask
  <2>3. DOMAIN cache' \subseteq DOMAIN cache \cup {key}
    BY <1>0 DEF FinishTask
  <2>4. CASE res = Value
    BY <2>1, <2>2, <2>3, <2>4 DEF Value, Exception
  <2>5. CASE res = Exception
    BY <2>1, <2>2, <2>3, <2>5
  <2>6. QED
    BY <2>4, <2>5
<1>7. QED
  BY <1>1, <1>2, <1>3, <1>4, <1>5, <1>6, SameGraphTerms DEF Promise!Compute

(* Every step is a step of TaskGraph or leaves what it sees unchanged.     *)
LEMMA StepRefines ==
  IInv /\ [LocalNext]_allvars => [Promise!Next]_(Promise!vars)
<1> SUFFICES ASSUME IInv, [LocalNext]_allvars PROVE [Promise!Next]_(Promise!vars)
  OBVIOUS
<1>1. ASSUME UNCHANGED <<dsk, rerun, finished, cache>>, pc' = pc
      PROVE  UNCHANGED Promise!vars
  BY <1>1 DEF Promise!vars
<1>2. ASSUME UNCHANGED <<dsk, rerun, finished, cache>>,
             pc \in {"loop", "get"}, pc' \in {"get", "apply"}
      PROVE  UNCHANGED Promise!vars
  BY <1>2 DEF Promise!vars
<1>3. CASE FireTasks \/ GetBatch
  BY <1>2, <1>3 DEF FireTasks, GetBatch, state
<1>4. CASE (\E b \in inflight : Complete(b)) \/ UNCHANGED allvars
  BY <1>1, <1>4 DEF Complete, allvars, state
<1>5. ASSUME pc = "apply", NEW res \in {Value, Exception}, res = Exception => rerun,
             FinishTask(Head(items).key, res), Advance
      PROVE  Promise!Next
  BY <1>5, ApplyComputes DEF Promise!Next
<1>6. CASE ApplyResult
  <2>1. pc = "apply" /\ FinishTask(Head(items).key, Value) /\ Advance
    BY <1>6 DEF ApplyResult, Unpacked
  <2>2. QED
    BY <1>5, <2>1 DEF Value, Exception
<1>7. CASE RerunSucceeds
  <2>1. pc = "apply" /\ rerun /\ FinishTask(Head(items).key, Exception) /\ Advance
    BY <1>7 DEF RerunSucceeds, Unpacked
  <2>2. QED
    BY <1>5, <2>1
<1>8. CASE RaiseTaskError \/ FireTasksDividesByZero
  <2>1. UNCHANGED <<dsk, rerun, finished, cache>> /\ pc \in {"loop", "apply"} /\ pc' = "raised"
    BY <1>8 DEF RaiseTaskError, FireTasksDividesByZero, state
  <2>2. Promise!Raise
    BY <2>1 DEF Promise!Raise
  <2>3. QED
    BY <2>2 DEF Promise!Next
<1>9. CASE Finish
  <2>1. /\ UNCHANGED <<dsk, rerun, finished, cache>> /\ pc = "loop" /\ pc' = "returned"
        /\ ~ Unfinished
    BY <1>9 DEF Finish, state
  <2>2. finished = Tasks(dsk)
    BY <2>1 DEF Unfinished, IInv, Bookkeeping, Accounting, Range
  <2>3. Promise!Return
    BY <2>1, <2>2, SameGraphTerms DEF Promise!Return
  <2>4. QED
    BY <2>3 DEF Promise!Next
<1>10. QED
  BY <1>3, <1>4, <1>6, <1>7, <1>8, <1>9 DEF LocalNext, MainStep

(* get_async implements TaskGraph: each task computed once and after its   *)
(* inputs, memory exact at every step, return only when all is computed,   *)
(* and no failed task among them unless the caller asked for reruns.       *)
THEOREM Refinement == LocalSpec => KeepsPromise
<1>1. LocalInit => Promise!Init
  <2> SUFFICES ASSUME LocalInit PROVE Promise!Init
    OBVIOUS
  <2>1. CacheExact
    BY InitBookkeeping DEF Bookkeeping
  <2>2. \A k \in DOMAIN cache : cache[k] # Exception
    BY DEF LocalInit, StartState, Value, Exception
  <2>3. QED
    BY <2>1, <2>2, SameGraphTerms, RerunAssumption
       DEF LocalInit, StartState, CacheExact, Promise!Init
<1>2. QED
  BY <1>1, StepRefines, InductiveInvariant, PTL DEF LocalSpec, KeepsPromise, Promise!Spec
=============================================================================
