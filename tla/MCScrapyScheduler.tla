------------------------- MODULE MCScrapyScheduler --------------------------
(* Four requests out of seven: two alike of callbacks and two of start(),  *)
(* for the order within a line; one that cannot be stored; one more urgent *)
(* and one of another slot.  They come in any order.                       *)
EXTENDS ScrapyScheduler

Of(slot, prio, start, storable) ==
  [slot |-> slot, prio |-> prio, start |-> start, storable |-> storable]

MCKinds == <<Of(1, 0, FALSE, TRUE), Of(1, 0, FALSE, TRUE), Of(1, 0, TRUE, TRUE),
             Of(1, 0, TRUE, TRUE), Of(1, 0, FALSE, FALSE), Of(1, -1, FALSE, TRUE),
             Of(2, 0, FALSE, TRUE)>>

MCRequest == 1 .. 4

MCKindings ==
  {[r \in MCRequest |-> MCKinds[f[r]]] :
     f \in {f \in [MCRequest -> DOMAIN MCKinds] : \A r \in 2 .. 4 : f[r - 1] < f[r]}}
=============================================================================
