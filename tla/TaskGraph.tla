----------------------------- MODULE TaskGraph -----------------------------
(***************************************************************************)
(* What a dask scheduler promises, independently of how it keeps its       *)
(* books: every task of the graph is computed once, after all its          *)
(* dependencies; a piece of data is held exactly while it is a requested   *)
(* result or some uncomputed task still reads it; the call returns when    *)
(* every task is computed, or raises.  What is held is the task's value,   *)
(* except that rerun_exceptions_locally may leave the exception of its     *)
(* first attempt there.                                                    *)
(***************************************************************************)
EXTENDS DaskGraph

VARIABLES
  dsk,      \* the graph of this call
  rerun,    \* the caller has asked for failed tasks to be run again
  done,     \* tasks whose value has been computed
  held,     \* keys whose value is in memory
  spoiled,  \* held keys with an exception in the place of their value
  outcome   \* "running", "returned" or "raised"

vars == <<dsk, rerun, done, held, spoiled, outcome>>

Init ==
  /\ dsk \in Graphs
  /\ rerun \in BOOLEAN
  /\ done = {}
  /\ held = Needed(dsk, {})
  /\ spoiled = {}
  /\ outcome = "running"

Compute(k) ==
  /\ outcome = "running"
  /\ k \in Tasks(dsk) \ done
  /\ dsk.deps[k] \subseteq held
  /\ done' = done \cup {k}
  /\ held' = Needed(dsk, done')
  /\ \/ spoiled' = spoiled \cap held'
     \/ rerun /\ spoiled' = (spoiled \cup {k}) \cap held'
  /\ UNCHANGED <<dsk, rerun, outcome>>

Return ==
  /\ outcome = "running"
  /\ done = Tasks(dsk)
  /\ outcome' = "returned"
  /\ UNCHANGED <<dsk, rerun, done, held, spoiled>>

Raise ==
  /\ outcome = "running"
  /\ outcome' = "raised"
  /\ UNCHANGED <<dsk, rerun, done, held, spoiled>>

Next == (\E k \in Key : Compute(k)) \/ Return \/ Raise

Spec == Init /\ [][Next]_vars
=============================================================================
