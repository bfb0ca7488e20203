----------------------------- MODULE DaskGraph -----------------------------
(***************************************************************************)
(* The task graph get_async is called with, as start_state_from_dask sees  *)
(* it from the requested keys.                                             *)
(***************************************************************************)
CONSTANTS
  Key,    \* names of tasks and data
  Graphs  \* the graphs get may be called with

(* A graph as start_state_from_dask sees it from the requested keys:       *)
(* deps[k] are the keys k reads, data are the DataNode keys, results are   *)
(* the requested keys.                                                     *)
Keys(g)  == DOMAIN g.deps
Tasks(g) == Keys(g) \ g.data
Dependents(g, k) == {t \in Keys(g) : k \in g.deps[t]}

(* Only keys reachable from the results are visited, so every other key    *)
(* has a reader; data nodes read nothing.                                  *)
IsGraph(g) ==
  /\ Keys(g) \subseteq Key
  /\ \A k \in Keys(g) : g.deps[k] \subseteq Keys(g)
  /\ g.data \subseteq Keys(g)
  /\ \A k \in g.data : g.deps[k] = {}
  /\ g.results \subseteq Keys(g)
  /\ \A k \in Keys(g) \ g.results : Dependents(g, k) # {}

(* The keys whose value must be in memory once the tasks in d are done.    *)
Needed(g, d) ==
  {k \in g.data \cup d : k \in g.results \/ ~ Dependents(g, k) \subseteq d}

(* The state start_state_from_dask builds, in closed form: data is cached, *)
(* a task with all its inputs cached is ready, any other waits for the     *)
(* rest.                                                                   *)
StartReady(g) == {t \in Tasks(g) : g.deps[t] \subseteq g.data}
StartWaiting(g) == [t \in Tasks(g) \ StartReady(g) |-> g.deps[t] \ g.data]

ASSUME GraphsAssumption == \A g \in Graphs : IsGraph(g)
=============================================================================
