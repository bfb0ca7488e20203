----------------------------- MODULE DaskStart -----------------------------
(***************************************************************************)
(* dask/local.py: start_state_from_dask, the depth-first walk that builds  *)
(* the scheduler's dictionaries from a graph, a cache the caller may have  *)
(* filled, and the requested keys.  Sets are iterated in any order.        *)
(***************************************************************************)
EXTENDS Naturals, Sequences, FiniteSets

CONSTANTS
  Key,     \* names of tasks and data
  Inputs   \* the calls: [dsk, results, cache], see IsInput

(* dsk maps its keys to nodes, [kind, deps] with kind "task" or "data";    *)
(* cache maps keys that dsk does not define to whether their value is      *)
(* true in a Boolean context.                                              *)
IsInput(in) ==
  /\ DOMAIN in.dsk \subseteq Key
  /\ \A k \in DOMAIN in.dsk :
       /\ in.dsk[k].kind \in {"task", "data"}
       /\ in.dsk[k].deps \subseteq Key
       /\ in.dsk[k].kind = "data" => in.dsk[k].deps = {}
  /\ in.results \subseteq Key
  /\ DOMAIN in.cache \subseteq Key \ DOMAIN in.dsk
  /\ in.cache \in [DOMAIN in.cache -> BOOLEAN]

ASSUME KeyAssumption == IsFiniteSet(Key)

ASSUME InputsAssumption == \A in \in Inputs : IsInput(in)

VARIABLES
  input,         \* the arguments of this call
  stack,         \* keys still to visit, the next one last
  seen,
  dependencies,  \* defaultdict(set): a key not in it reads as {}
  dependents,
  waiting,
  waiting_data,
  cached,        \* keys of the cache
  ready_set,
  status         \* "scanning", "done" or "raised"

dicts == <<dependencies, dependents, waiting, waiting_data, cached, ready_set>>
vars == <<input, stack, seen, dicts, status>>

Orders(S) == {q \in [1 .. Cardinality(S) -> S] : {q[i] : i \in DOMAIN q} = S}

Init ==
  /\ input \in Inputs
  /\ stack \in Orders(input.results)
  /\ seen = {}
  /\ dependencies = [k \in Key |-> {}]
  /\ dependents = [k \in Key |-> {}]
  /\ waiting = [k \in {} |-> {}]
  /\ waiting_data = [k \in Key |-> {}]
  /\ cached = DOMAIN input.cache
  /\ ready_set = {}
  /\ status = "scanning"

-----------------------------------------------------------------------------
Top == stack[Len(stack)]
Below == SubSeq(stack, 1, Len(stack) - 1)

Scanning == status = "scanning" /\ stack # <<>>
BuggyVisiting(k) == Scanning /\ k = Top
Visiting(k) == Scanning /\ k = Top /\ k \notin seen

SkipSeen ==
  /\ Scanning
  /\ Top \in seen
  /\ stack' = Below
  /\ UNCHANGED <<input, seen, dicts, status>>

(* task is None: the caller's cache must hold a true value for the key,    *)
(* unless nobody visited so far reads it.                                  *)
BuggyCacheCovers(k) == TRUE
CacheCovers(k) == k \in DOMAIN input.cache /\ input.cache[k]

BuggyVisitUndefined(k) ==
  /\ Visiting(k)
  /\ k \notin DOMAIN input.dsk
  /\ dependents[k] = {} \/ CacheCovers(k)
  /\ stack' = Below
  /\ seen' = seen \cup {k}
  /\ ready_set' = ready_set \cup {k}
  /\ UNCHANGED <<input, dependencies, dependents, waiting, waiting_data, cached, status>>

VisitUndefined(k) ==
  /\ Visiting(k)
  /\ k \notin DOMAIN input.dsk
  /\ dependents[k] = {} \/ CacheCovers(k)
  /\ stack' = Below
  /\ seen' = seen \cup {k}
  /\ UNCHANGED <<input, dicts, status>>

MissingDependency(k) ==
  /\ Visiting(k)
  /\ k \notin DOMAIN input.dsk
  /\ dependents[k] # {}
  /\ ~ CacheCovers(k)
  /\ status' = "raised"
  /\ UNCHANGED <<input, stack, seen, dicts>>

BuggyVisitData(k) ==
  /\ Visiting(k)
  /\ k \in DOMAIN input.dsk
  /\ input.dsk[k].kind = "data"
  /\ stack' = Below
  /\ seen' = seen \cup {k}
  /\ cached' = cached \cup {k}
  /\ UNCHANGED <<input, dependencies, dependents, waiting, waiting_data, ready_set, status>>

(* isinstance(task, DataNode): the value enters the cache and the readers  *)
(* met so far stop waiting for it.                                         *)
VisitData(k) ==
  /\ Visiting(k)
  /\ k \in DOMAIN input.dsk
  /\ input.dsk[k].kind = "data"
  /\ stack' = Below
  /\ seen' = seen \cup {k}
  /\ cached' = cached \cup {k}
  /\ LET freed == {d \in dependents[k] : d \in DOMAIN waiting => waiting[d] \ {k} = {}}
     IN  /\ ready_set' = ready_set \cup freed
         /\ waiting' = [d \in DOMAIN waiting \ freed |->
                          IF d \in dependents[k] THEN waiting[d] \ {k} ELSE waiting[d]]
  /\ UNCHANGED <<input, dependencies, dependents, waiting_data, status>>

VisitTask(k) ==
  /\ Visiting(k)
  /\ k \in DOMAIN input.dsk
  /\ input.dsk[k].kind = "task"
  /\ LET deps == input.dsk[k].deps
         wait == deps \ cached
         AddReader(f) == [d \in Key |-> IF d \in deps THEN f[d] \cup {k} ELSE f[d]]
     IN  /\ IF wait = {}
            THEN ready_set' = ready_set \cup {k} /\ UNCHANGED waiting
            ELSE /\ waiting' = [t \in DOMAIN waiting \cup {k} |->
                                  IF t = k THEN wait ELSE waiting[t]]
                 /\ UNCHANGED ready_set
         /\ dependencies' = [dependencies EXCEPT ![k] = @ \cup deps]
         /\ dependents' = AddReader(dependents)
         /\ waiting_data' = AddReader(waiting_data)
         /\ \E q \in Orders(deps) : stack' = Below \o q
  /\ seen' = seen \cup {k}
  /\ UNCHANGED <<input, cached, status>>

Return ==
  /\ status = "scanning"
  /\ stack = <<>>
  /\ status' = "done"
  /\ UNCHANGED <<input, stack, seen, dicts>>

Next ==
  \/ SkipSeen
  \/ \E k \in Key : \/ VisitUndefined(k) \/ MissingDependency(k)
                    \/ VisitData(k) \/ VisitTask(k)
  \/ Return

Spec == Init /\ [][Next]_vars

(* A sequential function: it keeps running. *)
FairSpec == Spec /\ WF_vars(Next)

-----------------------------------------------------------------------------
Defined == DOMAIN input.dsk
SeenTasks == {t \in seen \cap Defined : input.dsk[t].kind = "task"}
SeenData  == {t \in seen \cap Defined : input.dsk[t].kind = "data"}
Deps(k) == IF k \in Defined THEN input.dsk[k].deps ELSE {}

(* The graph the caller's arguments amount to: a key the cache supplies is *)
(* data.                                                                   *)
SeenGraph == [deps    |-> [k \in seen |-> Deps(k)],
              data    |-> SeenData \cup (seen \cap DOMAIN input.cache),
              results |-> input.results]

Graph == INSTANCE DaskGraph WITH Graphs <- {}

(* The shapes of the dictionaries. *)
TypeOK ==
  /\ IsInput(input)
  /\ stack \in Seq(Key)
  /\ seen \subseteq Key
  /\ dependencies \in [Key -> SUBSET Key]
  /\ dependents \in [Key -> SUBSET Key]
  /\ waiting_data \in [Key -> SUBSET Key]
  /\ DOMAIN waiting \subseteq DOMAIN input.dsk
  /\ \A k \in DOMAIN waiting : waiting[k] \subseteq Key
  /\ cached \subseteq Key
  /\ ready_set \subseteq DOMAIN input.dsk
  /\ status \in {"scanning", "done", "raised"}

(* At every point of the walk, whatever its order: a visited task waits    *)
(* for exactly its inputs that are not cached yet, and is ready exactly if *)
(* there are none.  A data node found before or after its readers makes no *)
(* difference.                                                             *)
WaitingTracksCache ==
  /\ DOMAIN waiting \cap ready_set = {}
  /\ DOMAIN waiting \cup ready_set = SeenTasks
  /\ \A t \in ready_set : Deps(t) \subseteq cached
  /\ \A t \in DOMAIN waiting : waiting[t] = Deps(t) \ cached /\ waiting[t] # {}

(* Every requested key exists somewhere; get_async's callers are refused a *)
(* result otherwise, by nested_get at the latest.                          *)
ResultsExist == input.results \subseteq Defined \cup DOMAIN input.cache

(* The state returned is the closed form get_async is modelled to start    *)
(* from, of a graph that its model admits: in particular no task waits for *)
(* a key that nothing will compute.                                        *)
StartMatches ==
  status = "done" /\ ResultsExist =>
    /\ Graph!IsGraph(SeenGraph)
    /\ waiting = Graph!StartWaiting(SeenGraph)
    /\ ready_set = Graph!StartReady(SeenGraph)
    /\ seen \cap cached = SeenGraph.data
    /\ \A k \in seen :
         /\ dependencies[k] = Deps(k)
         /\ dependents[k] = Graph!Dependents(SeenGraph, k)
         /\ waiting_data[k] = dependents[k]

(* "Missing dependency" is raised only for a key that is neither in the    *)
(* graph nor in the cache.                                                 *)
RaisesOnlyIfMissing ==
  status = "raised" => Top \notin Defined \cup DOMAIN input.cache

(* The walk ends, on cyclic graphs too. *)
Terminates == <>(status # "scanning")
=============================================================================
