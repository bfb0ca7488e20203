--------------------------- MODULE DaskStartProofs ---------------------------
(***************************************************************************)
(* start_state_from_dask builds the state that get_async is modelled to    *)
(* start from, for every graph, cache and order of the walk.               *)
(*                                                                         *)
(* Books says what the dictionaries hold in terms of the keys visited so   *)
(* far; Walk says that what has been visited leads to what is still on the *)
(* stack, so that an empty stack means that all is visited.                *)
(***************************************************************************)
EXTENDS DaskStart, SeqFacts, FiniteSetTheorems, TLAPS

CachedExact == cached = DOMAIN input.cache \cup SeenData

ReadersExact ==
  \A k \in Key : /\ dependencies[k] = IF k \in SeenTasks THEN Deps(k) ELSE {}
                 /\ dependents[k] = {t \in SeenTasks : k \in Deps(t)}
                 /\ waiting_data[k] = dependents[k]

Books ==
  /\ TypeOK
  /\ waiting = [t \in DOMAIN waiting |-> waiting[t]]
  /\ WaitingTracksCache
  /\ CachedExact
  /\ ReadersExact

Met == seen \cup Range(stack)

Walk ==
  /\ input.results \subseteq Met
  /\ \A k \in seen : Deps(k) \subseteq Met
  /\ \A k \in Met : k \in input.results \/ dependents[k] # {}
  /\ seen \ Defined \subseteq input.results \cup DOMAIN input.cache
  /\ status = "done" => stack = <<>>

IInv == Books /\ Walk

-----------------------------------------------------------------------------
(* An order of a set of keys is a sequence of exactly these keys. *)
LEMMA OrdersFacts ==
  ASSUME NEW S \in SUBSET Key, NEW q \in Orders(S)
  PROVE  q \in Seq(Key) /\ Range(q) = S
<1>1. Cardinality(S) \in Nat
  BY KeyAssumption, FS_Subset, FS_CardinalityType
<1> QED
  <2>1. q \in [1 .. Cardinality(S) -> S] /\ {q[i] : i \in DOMAIN q} = S
    BY DEF Orders
  <2>2. q \in Seq(Key)
    BY <1>1, <2>1
  <2> QED
    BY <2>1, <2>2, Zenon DEF Range

(* The last element of the stack and those below it. *)
LEMMA StackFacts ==
  ASSUME stack \in Seq(Key), stack # <<>>
  PROVE  /\ Below \in Seq(Key) /\ Top \in Key
         /\ Range(stack) = Range(Below) \cup {Top}
<1>1. /\ Len(stack) \in Nat \ {0} /\ Top \in Key
      /\ Below \in Seq(Key) /\ Len(Below) = Len(stack) - 1
      /\ \A i \in 1 .. Len(stack) - 1 : Below[i] = stack[i]
  <2>1. Len(stack) \in Nat \ {0}
    OBVIOUS
  <2>2. Top \in Key
    BY <2>1 DEF Top
  <2>3. /\ Below \in Seq(Key) /\ Len(Below) = Len(stack) - 1
        /\ \A i \in 1 .. Len(stack) - 1 : Below[i] = stack[i]
    <3>1. \A i \in 1 .. Len(stack) - 1 : stack[i] \in Key
      OBVIOUS
    <3>2. Below = [i \in 1 .. Len(stack) - 1 |-> stack[i]]
      BY <2>1 DEF Below
    <3>3. Len(stack) - 1 \in Nat
      BY <2>1
    <3>4. Below \in Seq(Key)
      BY <3>1, <3>2, <3>3
    <3> QED
      BY <3>2, <3>3, <3>4
  <2> QED
    BY <2>1, <2>2, <2>3
<1>2. ASSUME NEW x \in Range(stack) PROVE x \in Range(Below) \cup {Top}
  <2>1. PICK i \in 1 .. Len(stack) : stack[i] = x
    BY RangeOfSeq
  <2>2. CASE i = Len(stack)
    BY <2>1, <2>2 DEF Top
  <2>3. CASE i # Len(stack)
    <3>1. i \in 1 .. Len(Below) /\ Below[i] = x
      BY <1>1, <2>1, <2>3
    <3> QED
      BY <1>1, <3>1, RangeOfSeq
  <2> QED
    BY <2>2, <2>3
<1>3. ASSUME NEW x \in Range(Below) PROVE x \in Range(stack)
  <2>1. PICK i \in 1 .. Len(Below) : Below[i] = x
    BY <1>1, RangeOfSeq
  <2>2. i \in 1 .. Len(stack) /\ stack[i] = x
    BY <1>1, <2>1
  <2> QED
    BY <2>2, RangeOfSeq
<1>4. Top \in Range(stack)
  BY <1>1, RangeOfSeq DEF Top
<1> QED
  BY <1>1, <1>2, <1>3, <1>4

LEMMA InitIInv == Init => IInv
<1> SUFFICES ASSUME Init PROVE IInv
  OBVIOUS
<1>1. IsInput(input)
  BY InputsAssumption DEF Init
<1>2. stack \in Seq(Key) /\ Range(stack) = input.results
  BY <1>1, OrdersFacts DEF Init, IsInput
<1>3. SeenTasks = {} /\ SeenData = {}
  BY DEF Init, SeenTasks, SeenData
<1>4. Books
  BY <1>1, <1>2, <1>3 DEF Init, Books, TypeOK, IsInput, WaitingTracksCache, CachedExact,
     ReadersExact
<1>5. Walk
  BY <1>1, <1>2, <1>3 DEF Init, Walk, Met
<1> QED
  BY <1>4, <1>5 DEF IInv

-----------------------------------------------------------------------------
(* What a visit adds to the sets of visited tasks and data. *)
LEMMA VisitedTask ==
  ASSUME NEW k \in Defined, input.dsk[k].kind = "task", input' = input,
         seen' = seen \cup {k}
  PROVE  SeenTasks' = SeenTasks \cup {k} /\ SeenData' = SeenData
BY DEF SeenTasks, SeenData, Defined

LEMMA VisitedData ==
  ASSUME NEW k \in Defined, input.dsk[k].kind = "data", input' = input,
         seen' = seen \cup {k}
  PROVE  SeenTasks' = SeenTasks /\ SeenData' = SeenData \cup {k}
BY DEF SeenTasks, SeenData, Defined

LEMMA VisitedUndefined ==
  ASSUME NEW k, k \notin Defined, input' = input, seen' = seen \cup {k}
  PROVE  SeenTasks' = SeenTasks /\ SeenData' = SeenData
BY DEF SeenTasks, SeenData, Defined

(* A visit of data tells every reader met so far. *)
LEMMA VisitDataIInv ==
  ASSUME IInv, NEW k \in Key, VisitData(k)
  PROVE  IInv'
<1> USE DEF IInv, Books
<1>1. stack \in Seq(Key) /\ stack # <<>> /\ k = Top /\ k \notin seen /\ k \in Defined
  BY DEF VisitData, Visiting, Scanning, TypeOK, Defined
<1>2. /\ input' = input /\ stack' = Below /\ seen' = seen \cup {k} /\ cached' = cached \cup {k}
      /\ UNCHANGED <<dependencies, dependents, waiting_data, status>>
  BY DEF VisitData
<1>3. SeenTasks' = SeenTasks /\ SeenData' = SeenData \cup {k}
  BY <1>1, <1>2, VisitedData DEF VisitData
<1>4. Defined' = Defined /\ \A t : Deps(t)' = Deps(t)
  BY <1>2 DEF Defined, Deps
<1>5. k \notin cached /\ Deps(k) = {}
  BY <1>1 DEF CachedExact, SeenData, TypeOK, IsInput, Defined, Deps, VisitData
<1>6. \A t \in dependents[k] : t \in DOMAIN waiting /\ waiting[t] = Deps(t) \ cached
  BY <1>5 DEF ReadersExact, WaitingTracksCache
<1> DEFINE freed == {t \in dependents[k] : waiting[t] = {k}}
<1>7. \A t \in dependents[k] : t \in freed <=> waiting[t] \ {k} = {}
  BY <1>5, <1>6 DEF ReadersExact
<1>8. /\ ready_set' = ready_set \cup freed
      /\ waiting' = [t \in DOMAIN waiting \ freed |->
                       IF t \in dependents[k] THEN waiting[t] \ {k} ELSE waiting[t]]
  <2>1. {t \in dependents[k] : t \in DOMAIN waiting => waiting[t] \ {k} = {}} = freed
    BY <1>6, <1>7
  <2> QED
    BY <2>1 DEF VisitData
<1>9. \A t \in SeenTasks : t \in dependents[k] <=> k \in Deps(t)
  BY DEF ReadersExact
<1>10. WaitingTracksCache'
  <2>1. freed \subseteq DOMAIN waiting
    BY <1>6
  <2>2. DOMAIN waiting' = DOMAIN waiting \ freed
    BY <1>8
  <2>3. /\ DOMAIN waiting' \cap ready_set' = {}
        /\ DOMAIN waiting' \cup ready_set' = SeenTasks'
    BY <1>3, <1>8, <2>1, <2>2 DEF WaitingTracksCache
  <2>4. ASSUME NEW t \in ready_set' PROVE Deps(t)' \subseteq cached'
    <3>1. CASE t \in ready_set
      BY <1>2, <1>4, <3>1 DEF WaitingTracksCache
    <3>2. CASE t \in freed
      BY <1>2, <1>4, <1>6, <3>2
    <3> QED
      BY <1>8, <2>4, <3>1, <3>2
  <2>5. ASSUME NEW t \in DOMAIN waiting'
        PROVE  waiting'[t] = Deps(t)' \ cached' /\ waiting'[t] # {}
    <3>1. t \in DOMAIN waiting /\ t \notin freed /\ t \in SeenTasks
      BY <2>2, <2>5 DEF WaitingTracksCache
    <3>2. waiting[t] = Deps(t) \ cached /\ waiting[t] # {}
      BY <3>1 DEF WaitingTracksCache
    <3>3. CASE t \in dependents[k]
      <4>1. waiting'[t] = waiting[t] \ {k}
        BY <1>8, <3>1, <3>3
      <4> QED
        BY <1>2, <1>4, <1>7, <3>1, <3>2, <3>3, <4>1
    <3>4. CASE t \notin dependents[k]
      <4>1. waiting'[t] = waiting[t]
        BY <1>8, <3>1, <3>4
      <4> QED
        BY <1>2, <1>4, <1>9, <3>1, <3>2, <3>4, <4>1
    <3> QED
      BY <3>3, <3>4
  <2> QED
    BY <2>3, <2>4, <2>5 DEF WaitingTracksCache
<1>11. TypeOK' /\ waiting' = [t \in DOMAIN waiting' |-> waiting'[t]]
  <2>1. stack' \in Seq(Key)
    BY <1>1, <1>2, StackFacts
  <2>2. freed \subseteq Defined /\ DOMAIN waiting' \subseteq Defined
    BY <1>6, <1>8 DEF TypeOK, Defined
  <2>3. \A t \in DOMAIN waiting' : waiting'[t] \subseteq Key
    BY <1>8 DEF TypeOK
  <2>4. waiting' = [t \in DOMAIN waiting' |-> waiting'[t]]
    BY <1>8
  <2> QED
    BY <1>2, <1>8, <2>1, <2>2, <2>3, <2>4 DEF TypeOK, Defined
<1>12. CachedExact'
  BY <1>2, <1>3 DEF CachedExact
<1>13. ReadersExact'
  <2>1. ASSUME NEW j \in Key
        PROVE  /\ dependencies'[j] = IF j \in SeenTasks' THEN Deps(j)' ELSE {}
               /\ dependents'[j] = {t \in SeenTasks' : j \in Deps(t)'}
               /\ waiting_data'[j] = dependents'[j]
    BY <1>2, <1>3, <1>4 DEF ReadersExact
  <2> QED
    BY <2>1 DEF ReadersExact
<1>14. Walk'
  <2>1. Met' = Met
    BY <1>1, <1>2, StackFacts DEF Met
  <2> QED
    BY <1>1, <1>2, <1>4, <1>5, <2>1 DEF Walk, VisitData, Visiting, Scanning
<1> QED
  BY <1>10, <1>11, <1>12, <1>13, <1>14

(* A visit of a task makes it wait for what is not cached yet, and leaves  *)
(* its inputs to be visited.                                               *)
LEMMA VisitTaskIInv ==
  ASSUME IInv, NEW k \in Key, VisitTask(k)
  PROVE  IInv'
<1> USE DEF IInv, Books
<1>1. stack \in Seq(Key) /\ stack # <<>> /\ k = Top /\ k \notin seen /\ k \in Defined
  BY DEF VisitTask, Visiting, Scanning, TypeOK, Defined
<1> DEFINE deps == input.dsk[k].deps
           wait == deps \ cached
           AddReader(f) == [d \in Key |-> IF d \in deps THEN f[d] \cup {k} ELSE f[d]]
<1>2. /\ input' = input /\ cached' = cached /\ status' = status /\ seen' = seen \cup {k}
      /\ dependencies' = [dependencies EXCEPT ![k] = @ \cup deps]
      /\ dependents' = AddReader(dependents)
      /\ waiting_data' = AddReader(waiting_data)
  BY DEF VisitTask
<1>3. deps \subseteq Key /\ Deps(k) = deps
  BY <1>1 DEF TypeOK, IsInput, Defined, Deps
<1>4. stack' \in Seq(Key) /\ Range(stack') = Range(Below) \cup deps
  <2>1. PICK q \in Orders(deps) : stack' = Below \o q
    BY DEF VisitTask
  <2>2. q \in Seq(Key) /\ Range(q) = deps
    BY <1>3, <2>1, OrdersFacts
  <2>3. Below \in Seq(Key)
    BY <1>1, StackFacts
  <2> QED
    BY <2>1, <2>2, <2>3, RangeConcat
<1>5. SeenTasks' = SeenTasks \cup {k} /\ SeenData' = SeenData /\ k \notin SeenTasks
  <2>1. k \notin SeenTasks
    BY <1>1 DEF SeenTasks
  <2> QED
    BY <1>1, <1>2, <2>1, VisitedTask DEF VisitTask
<1>6. Defined' = Defined /\ \A t : Deps(t)' = Deps(t)
  BY <1>2 DEF Defined, Deps
<1>7. k \notin DOMAIN waiting /\ k \notin ready_set
  BY <1>5 DEF WaitingTracksCache
<1>8. /\ DOMAIN waiting' \cap ready_set' = {}
      /\ DOMAIN waiting' \cup ready_set' = SeenTasks'
      /\ \A t \in ready_set' : t \in ready_set \/ (t = k /\ wait = {})
      /\ \A t \in DOMAIN waiting' : \/ (t \in DOMAIN waiting /\ waiting'[t] = waiting[t])
                                   \/ (t = k /\ wait # {} /\ waiting'[t] = wait)
      /\ waiting' = [t \in DOMAIN waiting' |-> waiting'[t]]
  <2>1. CASE wait = {}
    <3>1. ready_set' = ready_set \cup {k} /\ waiting' = waiting
      BY <2>1 DEF VisitTask
    <3> QED
      BY <1>5, <1>7, <2>1, <3>1 DEF WaitingTracksCache
  <2>2. CASE wait # {}
    <3>1. /\ waiting' = [t \in DOMAIN waiting \cup {k} |-> IF t = k THEN wait ELSE waiting[t]]
          /\ ready_set' = ready_set
      BY <2>2 DEF VisitTask
    <3>2. /\ DOMAIN waiting' = DOMAIN waiting \cup {k}
          /\ \A t \in DOMAIN waiting : waiting'[t] = waiting[t]
          /\ waiting'[k] = wait
      BY <1>7, <3>1
    <3>3. waiting' = [t \in DOMAIN waiting' |-> waiting'[t]]
      BY <3>1
    <3> QED
      BY <1>5, <1>7, <2>2, <3>1, <3>2, <3>3 DEF WaitingTracksCache
  <2> QED
    BY <2>1, <2>2
<1>9. WaitingTracksCache'
  <2>1. \A t \in ready_set' : Deps(t)' \subseteq cached'
    BY <1>2, <1>3, <1>6, <1>8 DEF WaitingTracksCache
  <2>2. \A t \in DOMAIN waiting' : waiting'[t] = Deps(t)' \ cached' /\ waiting'[t] # {}
    BY <1>2, <1>3, <1>6, <1>8 DEF WaitingTracksCache
  <2> QED
    BY <1>8, <2>1, <2>2 DEF WaitingTracksCache
<1>10. TypeOK'
  <2>1. DOMAIN waiting' \subseteq Defined /\ ready_set' \subseteq Defined
    BY <1>1, <1>8 DEF TypeOK, Defined
  <2>2. \A t \in DOMAIN waiting' : waiting'[t] \subseteq Key
    BY <1>3, <1>8 DEF TypeOK
  <2>3. dependencies' \in [Key -> SUBSET Key]
    BY <1>2, <1>3 DEF TypeOK
  <2>4. dependents' \in [Key -> SUBSET Key] /\ waiting_data' \in [Key -> SUBSET Key]
    BY <1>2 DEF TypeOK
  <2> QED
    BY <1>2, <1>4, <2>1, <2>2, <2>3, <2>4 DEF TypeOK, Defined
<1>11. CachedExact'
  BY <1>2, <1>5 DEF CachedExact
<1>12. ReadersExact'
  <2>1. ASSUME NEW j \in Key
        PROVE  /\ dependencies'[j] = IF j \in SeenTasks' THEN Deps(j)' ELSE {}
               /\ dependents'[j] = {t \in SeenTasks' : j \in Deps(t)'}
               /\ waiting_data'[j] = dependents'[j]
    <3>1. dependencies'[j] = IF j \in SeenTasks' THEN Deps(j)' ELSE {}
      BY <1>2, <1>3, <1>5, <1>6 DEF ReadersExact, TypeOK
    <3>2. dependents'[j] = {t \in SeenTasks' : j \in Deps(t)'}
      <4>1. dependents'[j] = IF j \in deps THEN dependents[j] \cup {k} ELSE dependents[j]
        BY <1>2
      <4>2. dependents[j] = {t \in SeenTasks : j \in Deps(t)}
        BY DEF ReadersExact
      <4> QED
        BY <1>3, <1>5, <1>6, <4>1, <4>2
    <3>3. waiting_data'[j] = dependents'[j]
      BY <1>2 DEF ReadersExact
    <3> QED
      BY <3>1, <3>2, <3>3
  <2> QED
    BY <2>1 DEF ReadersExact
<1>13. Walk'
  <2>1. Met' = Met \cup deps
    BY <1>1, <1>2, <1>4, StackFacts DEF Met
  <2>2. \A j \in Key : dependents[j] \subseteq dependents'[j]
    BY <1>2
  <2>3. \A j \in deps : dependents'[j] # {}
    BY <1>2, <1>3
  <2>4. Met \subseteq Key
    BY <1>1, RangeOfSeq DEF Met, TypeOK
  <2>5. \A j \in Met' : j \in input.results \/ dependents'[j] # {}
    BY <2>1, <2>2, <2>3, <2>4 DEF Walk
  <2>6. \A j \in seen' : Deps(j)' \subseteq Met'
    BY <1>2, <1>3, <1>6, <2>1 DEF Walk
  <2> QED
    BY <1>1, <1>2, <1>6, <2>1, <2>5, <2>6 DEF Walk, VisitTask, Visiting, Scanning
<1> QED
  BY <1>9, <1>10, <1>11, <1>12, <1>13, <1>8

(* What the dictionaries hold depends on the visited keys that are         *)
(* defined, not on the stack.                                              *)
LEMMA VisitUndefinedIInv ==
  ASSUME IInv, NEW k \in Key, VisitUndefined(k)
  PROVE  IInv'
<1> USE DEF IInv, Books
<1>1. stack \in Seq(Key) /\ stack # <<>> /\ k = Top /\ k \notin Defined
  BY DEF VisitUndefined, Visiting, Scanning, TypeOK, Defined
<1>2. input' = input /\ stack' = Below /\ seen' = seen \cup {k} /\ UNCHANGED <<dicts, status>>
  BY DEF VisitUndefined
<1>3. SeenTasks' = SeenTasks /\ SeenData' = SeenData
  BY <1>1, <1>2, VisitedUndefined
<1>4. Defined' = Defined /\ \A t : Deps(t)' = Deps(t)
  BY <1>2 DEF Defined, Deps
<1>5. stack' \in Seq(Key) /\ Met' = Met /\ k \in Met
  BY <1>1, <1>2, StackFacts DEF Met
<1>6. Books'
  BY <1>2, <1>3, <1>4, <1>5 DEF TypeOK, dicts, WaitingTracksCache, CachedExact, ReadersExact
<1>7. Walk'
  <2>1. k \in input.results \/ k \in DOMAIN input.cache
    BY <1>5 DEF Walk, VisitUndefined, CacheCovers
  <2>2. Deps(k) = {}
    BY <1>1 DEF Deps
  <2> QED
    BY <1>1, <1>2, <1>4, <1>5, <2>1, <2>2
       DEF Walk, VisitUndefined, Visiting, Scanning, dicts
<1> QED
  BY <1>6, <1>7

LEMMA NextIInv == IInv /\ [Next]_vars => IInv'
<1> SUFFICES ASSUME IInv, [Next]_vars PROVE IInv'
  OBVIOUS
<1> USE DEF IInv, Books
<1>1. CASE UNCHANGED <<input, seen, dicts>> /\ stack' \in Seq(Key) /\ Met' = Met
           /\ status' \in {"scanning", "done", "raised"} /\ (status' = "done" => stack' = <<>>)
  <2>1. SeenTasks' = SeenTasks /\ SeenData' = SeenData /\ Defined' = Defined
    BY <1>1 DEF SeenTasks, SeenData, Defined
  <2>2. \A t : Deps(t)' = Deps(t)
    BY <1>1 DEF Deps, Defined
  <2>3. Books'
    BY <1>1, <2>1, <2>2 DEF TypeOK, dicts, WaitingTracksCache, CachedExact, ReadersExact
  <2>4. Walk'
    BY <1>1, <2>1, <2>2 DEF Walk, dicts
  <2> QED
    BY <2>3, <2>4
<1>2. CASE SkipSeen
  <2>1. stack \in Seq(Key) /\ stack # <<>> /\ Top \in seen /\ stack' = Below
        /\ UNCHANGED <<input, seen, dicts, status>> /\ status = "scanning"
    BY <1>2 DEF SkipSeen, Scanning, TypeOK
  <2>2. stack' \in Seq(Key) /\ Met' = Met
    BY <2>1, StackFacts DEF Met
  <2> QED
    BY <1>1, <2>1, <2>2
<1>3. ASSUME NEW k \in Key, MissingDependency(k) PROVE IInv'
  BY <1>1, <1>3 DEF MissingDependency, Met, TypeOK
<1>4. CASE Return
  BY <1>1, <1>4 DEF Return, Met, TypeOK
<1>5. CASE UNCHANGED vars
  BY <1>1, <1>5 DEF vars, Met, TypeOK, Walk
<1> QED
  BY <1>2, <1>3, <1>4, <1>5, VisitUndefinedIInv, VisitDataIInv, VisitTaskIInv DEF Next

LEMMA Invariant == Spec => []IInv
<1> QED
  BY InitIInv, NextIInv, PTL DEF Spec

-----------------------------------------------------------------------------
(* The dictionaries of start_state_from_dask keep their shapes. *)
THEOREM TypeCorrect == Spec => []TypeOK
<1>1. IInv => TypeOK
  BY DEF IInv, Books
<1> QED
  BY <1>1, Invariant, PTL

(* In whatever order the walk meets data nodes and their readers, a task   *)
(* waits for exactly its inputs that are not cached, and is ready exactly  *)
(* when there are none.                                                    *)
THEOREM WaitingTheorem == Spec => []WaitingTracksCache
<1>1. IInv => WaitingTracksCache
  BY DEF IInv, Books
<1> QED
  BY <1>1, Invariant, PTL

(* When the walk ends all that the results need has been visited, and no   *)
(* more.                                                                   *)
LEMMA WholeGraph ==
  ASSUME IInv, status = "done", ResultsExist
  PROVE  /\ Graph!IsGraph(SeenGraph)
         /\ Graph!Tasks(SeenGraph) = SeenTasks
         /\ seen \cap cached = SeenGraph.data
         /\ \A k \in seen : dependents[k] = Graph!Dependents(SeenGraph, k)
<1> USE DEF IInv, Books
<1>1. /\ DOMAIN SeenGraph.deps = seen /\ \A k \in seen : SeenGraph.deps[k] = Deps(k)
      /\ SeenGraph.data = SeenData \cup (seen \cap DOMAIN input.cache)
      /\ SeenGraph.results = input.results
  BY DEF SeenGraph
<1>2. Met = seen
  BY DEF Met, Walk, Range
<1>3. seen \cap cached = SeenGraph.data
  BY <1>1 DEF CachedExact, SeenData
<1>4. SeenGraph.data \subseteq seen /\ \A k \in SeenGraph.data : Deps(k) = {}
  BY <1>1 DEF SeenData, Deps, Defined, TypeOK, IsInput
<1>5. seen \ SeenGraph.data = SeenTasks
  <2>1. \A k \in seen : k \in SeenTasks \/ k \in SeenData \/ k \in DOMAIN input.cache
    BY DEF Walk, ResultsExist, SeenTasks, SeenData, Defined, TypeOK, IsInput
  <2>2. SeenTasks \cap SeenGraph.data = {} /\ SeenTasks \subseteq seen
    BY <1>1 DEF SeenTasks, SeenData, Defined, TypeOK, IsInput
  <2> QED
    BY <1>1, <2>1, <2>2
<1>6. ASSUME NEW k \in seen PROVE dependents[k] = Graph!Dependents(SeenGraph, k)
  <2>1. dependents[k] = {t \in SeenTasks : k \in Deps(t)}
    BY DEF ReadersExact, TypeOK
  <2>2. Graph!Dependents(SeenGraph, k) = {t \in seen : k \in Deps(t)}
    BY <1>1 DEF Graph!Dependents, Graph!Keys
  <2> QED
    BY <1>4, <1>5, <2>1, <2>2
<1>7. Graph!IsGraph(SeenGraph)
  <2>1. \A k \in seen \ input.results : Graph!Dependents(SeenGraph, k) # {}
    BY <1>2, <1>6 DEF Walk
  <2>2. seen \subseteq Key
    BY DEF TypeOK
  <2>3. \A k \in seen : Deps(k) \subseteq seen
    BY <1>2 DEF Walk
  <2>4. input.results \subseteq seen
    BY <1>2 DEF Walk
  <2> QED
    BY <1>1, <1>4, <2>1, <2>2, <2>3, <2>4 DEF Graph!IsGraph, Graph!Keys
<1> QED
  BY <1>1, <1>3, <1>5, <1>6, <1>7 DEF Graph!Tasks, Graph!Keys

(* The state returned is the one the model of get_async starts from, in    *)
(* closed form, of a graph that this model admits: the walk and the set    *)
(* expressions agree for every graph and every order.                      *)
THEOREM StartTheorem == Spec => []StartMatches
<1>1. ASSUME IInv, status = "done", ResultsExist
      PROVE  /\ Graph!IsGraph(SeenGraph)
             /\ waiting = Graph!StartWaiting(SeenGraph)
             /\ ready_set = Graph!StartReady(SeenGraph)
             /\ seen \cap cached = SeenGraph.data
             /\ \A k \in seen :
                  /\ dependencies[k] = Deps(k)
                  /\ dependents[k] = Graph!Dependents(SeenGraph, k)
                  /\ waiting_data[k] = dependents[k]
  <2> USE <1>1 DEF IInv, Books
  <2>1. /\ Graph!IsGraph(SeenGraph) /\ Graph!Tasks(SeenGraph) = SeenTasks
        /\ seen \cap cached = SeenGraph.data
        /\ \A k \in seen : dependents[k] = Graph!Dependents(SeenGraph, k)
    BY WholeGraph
  <2>2. \A t \in SeenTasks : SeenGraph.deps[t] = Deps(t) /\ Deps(t) \subseteq seen
    <3>1. seen = Met /\ SeenTasks \subseteq seen
      BY DEF Met, Walk, Range, SeenTasks
    <3> QED
      BY <3>1 DEF Walk, SeenGraph
  <2>3. \A t \in SeenTasks : /\ Deps(t) \subseteq cached <=> Deps(t) \subseteq SeenGraph.data
                             /\ Deps(t) \ cached = Deps(t) \ SeenGraph.data
    BY <2>1, <2>2
  <2>4. ready_set = Graph!StartReady(SeenGraph)
    <3>1. \A t \in SeenTasks : t \in ready_set <=> Deps(t) \subseteq cached
      BY DEF WaitingTracksCache
    <3>2. ready_set \subseteq SeenTasks
      BY DEF WaitingTracksCache
    <3> QED
      BY <2>1, <2>2, <2>3, <3>1, <3>2 DEF Graph!StartReady
  <2>5. waiting = Graph!StartWaiting(SeenGraph)
    <3>1. DOMAIN waiting = SeenTasks \ ready_set
      BY DEF WaitingTracksCache
    <3>2. \A t \in DOMAIN waiting : waiting[t] = SeenGraph.deps[t] \ SeenGraph.data
      BY <2>2, <2>3, <3>1 DEF WaitingTracksCache
    <3>3. waiting = [t \in DOMAIN waiting |-> SeenGraph.deps[t] \ SeenGraph.data]
      BY <3>2
    <3> QED
      BY <2>1, <2>4, <3>1, <3>3 DEF Graph!StartWaiting
  <2>6. \A k \in seen : dependencies[k] = Deps(k) /\ waiting_data[k] = dependents[k]
    <3>1. \A k \in seen \ SeenTasks : Deps(k) = {}
      BY DEF SeenTasks, Deps, Defined, TypeOK, IsInput
    <3> QED
      BY <3>1 DEF ReadersExact, TypeOK
  <2> QED
    BY <2>1, <2>4, <2>5, <2>6
<1>2. IInv => StartMatches
  BY <1>1 DEF StartMatches
<1> QED
  BY <1>2, Invariant, PTL
=============================================================================
