---------------------------- MODULE MCDaskStart ----------------------------
(***************************************************************************)
(* Every call on up to three keys: each key a task with any inputs, a data *)
(* node, or undefined with the cache empty, true or false for it.  Cyclic  *)
(* graphs are included, start_state_from_dask does not look for cycles.    *)
(***************************************************************************)
EXTENDS DaskStart, Functions

MCKey == {"a", "b", "c"}

Nodes == [kind : {"task"}, deps : SUBSET MCKey] \cup [kind : {"data"}, deps : {{}}]
Dsks == UNION {[D -> Nodes] : D \in SUBSET MCKey}

MCInputs ==
  UNION {[dsk : {g}, results : SUBSET MCKey \ {{}},
          cache : UNION {[C -> BOOLEAN] : C \in SUBSET (MCKey \ DOMAIN g)}] : g \in Dsks}
=============================================================================
