---------------------------- MODULE RequestStore ----------------------------
(***************************************************************************)
(* What the scheduler of a Scrapy crawl does, whatever queues it keeps: a  *)
(* request is accepted once and given out once; all in memory go before    *)
(* all on disk; of a download slot's requests in memory, and of those on   *)
(* disk, the most urgent goes first; stopping and resuming the crawl       *)
(* changes nothing for the requests that could be stored.                  *)
(*                                                                         *)
(* It is less than the documentation of the class says in two points: a    *)
(* request in memory takes precedence over one on disk not only "For a     *)
(* given priority value", and None is not only returned "if there are no   *)
(* more enqueued requests" (Give, Refuse).                                 *)
(***************************************************************************)
EXTENDS Integers, Sequences

CONSTANTS Request, Kindings

VARIABLES
  kind,      \* of each request: slot, prio (less is more urgent), start, storable
  seen,      \* accepted requests, in the order they came
  stored,    \* those that outlive the process
  volatile,  \* those that do not
  given,     \* those handed to the engine
  owed       \* refusals that requests which could not be stored account for

vars == <<kind, seen, stored, volatile, given, owed>>

Init ==
  /\ kind \in Kindings
  /\ seen = <<>>
  /\ stored = {} /\ volatile = {} /\ given = {}
  /\ owed = 0

Position(r) == CHOOSE i \in DOMAIN seen : seen[i] = r

(* In one store and slot: by priority; those of callbacks before start's;  *)
(* the former last in first out, the latter first in first out.            *)
Before(q, r) ==
  /\ kind[q].slot = kind[r].slot
  /\ \/ kind[q].prio < kind[r].prio
     \/ /\ kind[q].prio = kind[r].prio
        /\ \/ ~ kind[q].start /\ kind[r].start
           \/ ~ kind[q].start /\ ~ kind[r].start /\ Position(q) > Position(r)
           \/ kind[q].start /\ kind[r].start /\ Position(q) < Position(r)

Accept(r) ==
  /\ \A i \in DOMAIN seen : seen[i] # r
  /\ seen' = Append(seen, r)
  /\ \/ /\ kind[r].storable
        /\ stored' = stored \cup {r}
        /\ UNCHANGED <<volatile, owed>>
     \/ /\ volatile' = volatile \cup {r}
        /\ owed' \in {owed, owed + 1}
        /\ UNCHANGED stored
  /\ UNCHANGED <<kind, given>>

(* What is in memory goes before what is on disk, be that more urgent. *)
Give(r) ==
  /\ r \in (IF volatile # {} THEN volatile ELSE stored)
  /\ \A q \in (IF volatile # {} THEN volatile ELSE stored) : ~ Before(q, r)
  /\ volatile' = volatile \ {r}
  /\ stored' = stored \ {r}
  /\ given' = given \cup {r}
  /\ UNCHANGED <<kind, seen, owed>>

(* None is returned although something is stored. *)
Refuse ==
  /\ volatile = {} /\ stored # {}
  /\ owed > 0
  /\ owed' = owed - 1
  /\ UNCHANGED <<kind, seen, stored, volatile, given>>

Resume ==
  /\ volatile' = {}
  /\ UNCHANGED <<kind, seen, stored, given, owed>>

Next == (\E r \in Request : Accept(r) \/ Give(r)) \/ Refuse \/ Resume

Spec == Init /\ [][Next]_vars
=============================================================================
