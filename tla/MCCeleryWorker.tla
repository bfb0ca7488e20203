--------------------------- MODULE MCCeleryWorker ---------------------------
(* Settings that differ in what they make the worker do, not their product;*)
(* the first is the default of acks_late, the third of the connection loss.*)
EXTENDS CeleryWorker

With(late, ackFailed, ackTimeout, requeueLost, cancel, eta, bound) ==
  [late |-> late, ackFailed |-> ackFailed, ackTimeout |-> ackTimeout,
   requeueLost |-> requeueLost, cancel |-> cancel, eta |-> eta, mishaps |-> bound]

MCConfs ==
  {With(FALSE, TRUE, TRUE, FALSE, FALSE, TRUE, 1),
   With(TRUE, TRUE, TRUE, FALSE, TRUE, TRUE, 1),
   With(TRUE, FALSE, TRUE, TRUE, FALSE, FALSE, 2),
   With(TRUE, TRUE, FALSE, FALSE, TRUE, FALSE, 2)}
=============================================================================
