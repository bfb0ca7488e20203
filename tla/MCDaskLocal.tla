---------------------------- MODULE MCDaskLocal ----------------------------
(***************************************************************************)
(* Every task graph of up to four keys, up to renaming: keys are numbered  *)
(* by their priority, any subset of the keys without inputs are data       *)
(* nodes, and any set of results that reaches the whole graph is asked for.*)
(***************************************************************************)
EXTENDS DaskLocal

CONSTANT MaxKeys

MCKey == 1 .. MaxKeys
MCOrder == [k \in MCKey |-> k]

DepsOn(n) == {f \in [1 .. n -> SUBSET (1 .. n - 1)] :
                \A k \in 1 .. n : f[k] \subseteq 1 .. k - 1}
Sources(f) == {k \in DOMAIN f : f[k] = {}}
Sinks(f)   == {k \in DOMAIN f : \A l \in DOMAIN f : k \notin f[l]}

MCGraphs ==
  {g \in UNION {[deps : {f}, data : SUBSET Sources(f), results : SUBSET DOMAIN f] :
                   f \in UNION {DepsOn(n) : n \in 1 .. MaxKeys}} :
     Sinks(g.deps) \subseteq g.results}

MCChunkSizes == {-1, 1, 2}
AutoChunk == {-1}
=============================================================================
