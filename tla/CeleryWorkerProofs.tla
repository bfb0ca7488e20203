------------------------- MODULE CeleryWorkerProofs -------------------------
(***************************************************************************)
(* Machine-checked facts about CeleryWorker, for every number of tasks and *)
(* of processes, every set of settings and every bound on the mishaps.     *)
(***************************************************************************)
EXTENDS CeleryWorker, SeqFacts, TLAPS

(* The how-many-th delivery of its task d is. *)
N(d) == d[2]

LEMMA DeliveryFacts ==
  /\ MaxMishaps \in Nat /\ Tasks \in Nat /\ Procs \in Nat \ {0}
  /\ \A d \in Delivery : Id(d) \in Task /\ N(d) \in 1 .. MaxMishaps + 1
  /\ \A d, e \in Delivery : Id(d) = Id(e) /\ N(d) = N(e) => d = e
  /\ \A t \in Task, n \in 1 .. MaxMishaps + 1 :
       <<t, n>> \in Delivery /\ Id(<<t, n>>) = t /\ N(<<t, n>>) = n
  /\ \A d : N(d) = d[2]
BY BoundsAssumption DEF Delivery, Id, N

-----------------------------------------------------------------------------
(* The waiters that a release passes over are the first ones. *)
LEMMA PassedFirst ==
  ASSUME waiters \in Seq(Delivery), IsInjective(waiters)
  PROVE  \E m \in 0 .. Len(waiters) :
           /\ Passed = Range(Firsts(waiters, m)) /\ Left = Others(waiters, m)
           /\ \A d \in Passed : Id(d) \in revoked
<1> DEFINE w == waiters
           Good(n) == \A j \in 1 .. n : Id(w[j]) \in revoked
           S == {n \in Nat : n <= Len(w) => Good(n)}
<1>0. Len(w) \in Nat /\ DOMAIN w = 1 .. Len(w)
  OBVIOUS
<1>1. \E m \in 0 .. Len(w) : Good(m) /\ (m < Len(w) => ~ Good(m + 1))
  <2>1. 0 \in S
    OBVIOUS
  <2>2. CASE Nat \subseteq S
    <3>1. Good(Len(w))
      BY <1>0, <2>2
    <3>2. QED
      BY <1>0, <3>1
  <2>3. CASE ~ (Nat \subseteq S)
    <3> HIDE DEF S
    <3>1. PICK n \in Nat : n \in S /\ n + 1 \notin S
      BY <2>1, <2>3, SetInduction
    <3>2. n + 1 <= Len(w) /\ ~ Good(n + 1)
      BY <3>1 DEF S
    <3>3. Good(n)
      BY <1>0, <3>1, <3>2 DEF S
    <3>4. QED
      BY <1>0, <3>2, <3>3
  <2>4. QED
    BY <2>2, <2>3
<1>2. PICK m \in 0 .. Len(w) : Good(m) /\ (m < Len(w) => ~ Good(m + 1))
  BY <1>1
<1> DEFINE fst == Firsts(w, m)
<1>3. /\ fst \in Seq(Delivery) /\ Len(fst) = m /\ IsInjective(fst)
      /\ \A i \in 1 .. m : fst[i] = w[i]
  BY SplitQueue
<1> HIDE DEF fst
<1>4. ASSUME NEW d \in Passed PROVE d \in Range(fst) /\ Id(d) \in revoked
  <2>1. PICK i \in DOMAIN w : d = w[i] /\ \A j \in 1 .. i : Id(w[j]) \in revoked
    BY <1>4 DEF Passed
  <2>2. i \in 1 .. m
    <3>1. SUFFICES ASSUME i > m PROVE FALSE
      BY <1>0, <1>2, <2>1
    <3>2. m + 1 \in 1 .. i /\ m < Len(w)
      BY <1>0, <1>2, <2>1, <3>1
    <3>3. Good(m + 1)
      BY <1>2, <2>1, <3>2
    <3>4. QED
      BY <1>2, <3>2, <3>3
  <2>3. fst[i] = d /\ i \in 1 .. Len(fst) /\ i \in 1 .. i
    BY <1>2, <1>3, <2>1, <2>2
  <2>4. QED
    BY <1>3, <2>1, <2>3, RangeOfSeq
<1>5. ASSUME NEW d \in Range(fst) PROVE d \in Passed
  <2>1. PICK i \in 1 .. m : fst[i] = d
    BY <1>3, RangeOfSeq
  <2>2. i \in DOMAIN w /\ d = w[i] /\ \A j \in 1 .. i : Id(w[j]) \in revoked
    BY <1>0, <1>2, <1>3, <2>1
  <2>3. QED
    BY <2>2 DEF Passed
<1>6. Passed = Range(fst)
  BY <1>4, <1>5
<1>7. Cardinality(Passed) = m
  BY <1>3, <1>6, RangeCardinality
<1>8. Left = Others(w, m)
  BY <1>7 DEF Left, Others
<1>9. QED
  BY <1>2, <1>4, <1>6, <1>8 DEF fst

-----------------------------------------------------------------------------
(* The invariant. *)

Types ==
  /\ conf \in Confs
  /\ message \in [Task -> {"queued", "out", "gone"}]
  /\ count \in [Task -> Nat]
  /\ live \subseteq Delivery
  /\ frames \subseteq [delivery : Delivery, how : {"ack", "reject", "requeue"}]
  /\ stage \in [Delivery -> Stages]
  /\ requests \in [Task -> 0 .. MaxMishaps + 1]
  /\ revoked \subseteq Task /\ survivors \subseteq Task /\ unheeded \subseteq Task
  /\ acknowledged \subseteq Delivery /\ announced \subseteq Delivery
  /\ cancelled \subseteq Delivery /\ terminating \subseteq Delivery
  /\ child \in [Delivery -> Children]
  /\ backend \in [Task -> {"PENDING", "SUCCESS", "FAILURE", "REVOKED", "RETRY"}]
  /\ mishaps \in 0 .. MaxMishaps

(* Who waits for a place. *)
Line ==
  /\ waiters \in Seq(Delivery) /\ IsInjective(waiters)
  /\ Range(waiters) = In("waiting")
  /\ semaphore \in 0 .. Procs
  /\ semaphore > 0 => waiters = <<>>
  /\ limited \subseteq In("accepted")

(* What is true of a delivery before the pool accepts it. *)
Fresh ==
  \A d \in Delivery :
    /\ stage[d] = "none" <=> N(d) > count[Id(d)]
    /\ stage[d] = "none" => d \notin live /\ d \notin acknowledged
    /\ stage[d] \in {"none", "eta", "waiting", "sent"} =>
         d \notin announced /\ d \notin cancelled
    /\ stage[d] \in {"eta", "waiting", "sent"} => d \in live /\ d \notin acknowledged
    /\ stage[d] \in {"none", "eta", "waiting"} => child[d] = "none"

(* A message that the broker has not seen settled is that of the last      *)
(* delivery of its task, and one answer at most is on its way.             *)
Latest(d) == message[Id(d)] = "out" /\ N(d) = count[Id(d)]

Broker ==
  /\ \A d \in live : d \notin acknowledged => Latest(d)
  /\ \A f \in frames :
       /\ f.delivery \in live /\ f.delivery \in acknowledged /\ Latest(f.delivery)
       /\ f.how = "requeue" => stage[f.delivery] = "over"
  /\ \A f, g \in frames : f.delivery = g.delivery => f = g

(* Each delivery of a task after the first is paid for by a mishap; a task *)
(* owes one that the broker is going to deliver again.                     *)
Owes(t) ==
  \/ message[t] = "queued"
  \/ \E f \in frames : Id(f.delivery) = t /\ f.how = "requeue"
  \/ \E d \in live : /\ d \notin acknowledged /\ Id(d) = t
                     /\ child[d] \in {"hung", "requeue", "lost"}

Debt ==
  \A t \in Task : count[t] <= mishaps + 1 /\ (Owes(t) => count[t] <= mishaps)

(* What the backend holds when a child or a revocation has stored it; only *)
(* the cancellation of a late request replaces a final state.  Early       *)
(* acknowledgement comes with acceptance.                                  *)
Kept ==
  /\ \A d \in Delivery :
       /\ child[d] = "success" => backend[Id(d)] = "SUCCESS"
       /\ child[d] = "failure" /\ (d \in live \/ ~ conf.late) => backend[Id(d)] \in Final
       /\ stage[d] = "accepted" => d \in acknowledged \/ conf.late
       /\ d \in announced /\ ~ conf.late => backend[Id(d)] \in Final
       /\ d \in cancelled => conf.late
       /\ conf.late /\ conf.cancel /\ stage[d] = "accepted" =>
            d \in announced \cup cancelled \cup acknowledged \cup live

(* A task that no loss of a connection made run twice has one delivery     *)
(* that is not over, and then no message in the queue.                     *)
Unique ==
  \A d \in Delivery : Id(d) \notin survivors /\ stage[d] \notin {"none", "over"} =>
    N(d) = count[Id(d)] /\ message[Id(d)] # "queued"

Listed(d) ==
  stage[d] \in {"waiting", "sent", "accepted"} /\ d \notin announced /\ d \notin cancelled

Registry ==
  \A d \in Delivery : Id(d) \notin survivors => (requests[Id(d)] = N(d) <=> Listed(d))

IInv ==
  Types /\ Line /\ Fresh /\ Broker /\ Debt /\ Kept /\ Unique /\ Registry /\ NothingLost

-----------------------------------------------------------------------------
(* The steps, by what they have in common. *)

(* A job that is over, settled as how ("nothing" is not at all) and stored *)
(* as s.                                                                   *)
Ending(d, how, s) ==
  /\ stage[d] = "accepted" /\ JobOver(d, how, s)
  /\ how \in {"nothing", "ack", "reject", "requeue"}
  /\ s \in {"nothing", "FAILURE", "REVOKED"}
  /\ how = "requeue" =>
       mishaps' = mishaps + 1 \/ child[d] \in {"hung", "requeue", "lost"}
  /\ how \in {"ack", "reject"} => s # "nothing" \/ child[d] \in {"success", "failure"}
  /\ ~ conf.late =>
       \/ s # "nothing" \/ child[d] \in {"success", "failure"} \/ how = "requeue"
       \/ d \in cancelled \/ d \in announced
  /\ mishaps' \in 0 .. MaxMishaps /\ mishaps' >= mishaps

LEMMA MishapStep ==
  ASSUME Types, Mishap
  PROVE  mishaps' \in 0 .. MaxMishaps /\ mishaps' = mishaps + 1 /\ mishaps' >= mishaps
<1>1. conf.mishaps \in 0 .. MaxMishaps
  BY ConfsAssumption DEF Types, Conf
<1>2. QED
  BY <1>1, DeliveryFacts DEF Types, Mishap

LEMMA Endings ==
  ASSUME Types, NEW d \in Delivery, Outcome(d) \/ HardTimeout(d)
  PROVE  \E how, s : Ending(d, how, s)
<1>1. mishaps' = mishaps => mishaps' \in 0 .. MaxMishaps /\ mishaps' >= mishaps
  BY DeliveryFacts DEF Types
<1>2. CASE OnSuccess(d)
  <2>1. Ending(d, IF conf.late THEN "ack" ELSE "nothing", "nothing")
    BY <1>1, <1>2 DEF OnSuccess, Handles, NoMishap, Ending
  <2>2. QED
    BY <2>1
<1>3. CASE OnTaskFailure(d)
  <2>1. Ending(d, AckFailure, "nothing")
    BY <1>1, <1>3 DEF OnTaskFailure, Handles, NoMishap, Ending, AckFailure
  <2>2. QED
    BY <2>1
<1>4. CASE OnReject(d)
  <2>1. CASE Handles(d, "requeue") /\ JobOver(d, "requeue", "nothing")
    <3>1. Ending(d, "requeue", "nothing")
      BY <1>1, <1>4, <2>1 DEF OnReject, Handles, NoMishap, Ending
    <3>2. QED
      BY <3>1
  <2>2. CASE Handles(d, "reject") /\ JobOver(d, "reject", "FAILURE")
    <3>1. Ending(d, "reject", "FAILURE")
      BY <1>1, <1>4, <2>2 DEF OnReject, Handles, NoMishap, Ending
    <3>2. QED
      BY <3>1
  <2>3. QED
    BY <1>4, <2>1, <2>2 DEF OnReject
<1>5. CASE OnTerminated(d)
  <2>1. CASE d \in cancelled \cup announced
    <3>1. Ending(d, "nothing", "nothing")
      BY <1>1, <1>5, <2>1 DEF OnTerminated, Handles, NoMishap, Ending
    <3>2. QED
      BY <3>1
  <2>2. CASE d \notin cancelled \cup announced
    <3>1. Ending(d, "ack", "REVOKED")
      BY <1>1, <1>5, <2>2 DEF OnTerminated, Handles, NoMishap, Ending
    <3>2. QED
      BY <3>1
  <2>3. QED
    BY <2>1, <2>2
<1>6. CASE OnWorkerLost(d)
  <2>1. CASE conf.late /\ conf.requeueLost
    <3>1. Ending(d, "requeue", "nothing")
      BY <1>1, <1>6, <2>1 DEF OnWorkerLost, Handles, NoMishap, Ending
    <3>2. QED
      BY <3>1
  <2>2. CASE ~ (conf.late /\ conf.requeueLost)
    <3>1. Ending(d, AckFailure, "FAILURE")
      BY <1>1, <1>6, <2>2 DEF OnWorkerLost, Handles, NoMishap, Ending, AckFailure
    <3>2. QED
      BY <3>1
  <2>3. QED
    BY <2>1, <2>2
<1>7. CASE HardTimeout(d)
  <2> DEFINE how == IF ~ conf.late THEN "nothing"
                    ELSE IF conf.ackTimeout THEN "ack" ELSE "requeue"
  <2>1. stage[d] = "accepted" /\ JobOver(d, how, "FAILURE")
    BY <1>7, Zenon DEF HardTimeout
  <2>2. (child[d] = "hung" /\ mishaps' = mishaps) \/ Mishap
    BY <1>7 DEF HardTimeout, NoMishap
  <2>3. /\ mishaps' \in 0 .. MaxMishaps /\ mishaps' >= mishaps
        /\ mishaps' = mishaps + 1 \/ child[d] = "hung"
    BY <1>1, <2>2, MishapStep
  <2>4. how \in {"nothing", "ack", "requeue"} /\ (how # "nothing" => conf.late)
    OBVIOUS
  <2>5. Ending(d, how, "FAILURE")
    BY <2>1, <2>3, <2>4 DEF Ending
  <2>6. QED
    BY <2>5
<1>8. QED
  BY <1>2, <1>3, <1>4, <1>5, <1>6, <1>7 DEF Outcome

(* Who is given the place that comes free, and who goes on waiting. *)
Taken == IF Left = <<>> THEN {} ELSE {Head(Left)}
Remaining == IF Left = <<>> THEN <<>> ELSE Tail(Left)

LEMMA ReleaseFacts ==
  ASSUME Line
  PROVE  /\ Passed \subseteq In("waiting") /\ \A d \in Passed : Id(d) \in revoked
         /\ Taken \subseteq In("waiting") /\ Taken \cap Passed = {}
         /\ Remaining \in Seq(Delivery) /\ IsInjective(Remaining)
         /\ Range(Remaining) = (In("waiting") \ Passed) \ Taken
         /\ Left # <<>> => semaphore = 0 /\ Taken = {Head(Left)} /\ Remaining = Tail(Left)
         /\ Left = <<>> => Taken = {} /\ Remaining = <<>>
<1>1. /\ waiters \in Seq(Delivery) /\ IsInjective(waiters)
      /\ Range(waiters) = In("waiting")
      /\ semaphore \in 0 .. Procs /\ (semaphore > 0 => waiters = <<>>)
  BY DEF Line
<1>2. PICK m \in 0 .. Len(waiters) :
        /\ Passed = Range(Firsts(waiters, m)) /\ Left = Others(waiters, m)
        /\ \A d \in Passed : Id(d) \in revoked
  BY <1>1, PassedFirst
<1>3. /\ Left \in Seq(Delivery) /\ IsInjective(Left) /\ Len(Left) = Len(waiters) - m
      /\ Passed \cap Range(Left) = {} /\ Passed \cup Range(Left) = In("waiting")
  BY <1>1, <1>2, SplitQueue
<1>4. CASE Left = <<>>
  <2>1. Range(Left) = {} /\ IsInjective(Left)
    BY <1>3, <1>4 DEF Range
  <2>2. QED
    BY <1>2, <1>3, <1>4, <2>1 DEF Taken, Remaining
<1>5. CASE Left # <<>>
  <2>1. /\ Head(Left) \in Range(Left)
        /\ Tail(Left) \in Seq(Delivery) /\ IsInjective(Tail(Left))
        /\ Range(Tail(Left)) = Range(Left) \ {Head(Left)}
    BY <1>3, <1>5, TailFacts
  <2>2. Len(Left) > 0
    BY <1>3, <1>5
  <2>3. waiters # <<>>
    BY <1>2, <1>3, <2>2
  <2>4. semaphore = 0
    BY <1>1, <2>3, DeliveryFacts
  <2>5. Taken = {Head(Left)} /\ Remaining = Tail(Left)
    BY <1>5 DEF Taken, Remaining
  <2>6. QED
    BY <1>2, <1>3, <1>5, <2>1, <2>4, <2>5
<1>6. QED
  BY <1>4, <1>5

(* What an ending leaves, point by point. *)
LEMMA EndingFacts ==
  ASSUME Line, NEW d \in Delivery, NEW how, NEW s, Ending(d, how, s)
  PROVE  /\ \A e \in Delivery :
              stage'[e] = IF e = d \/ e \in Passed THEN "over"
                          ELSE IF e \in Taken THEN "sent" ELSE stage[e]
         /\ stage' \in [Delivery -> {"over", "sent"} \cup {stage[e] : e \in Delivery}]
         /\ waiters' = Remaining /\ semaphore' \in 0 .. Procs
         /\ semaphore' > 0 => waiters' = <<>>
         /\ stage[d] = "accepted" /\ d \notin Passed /\ d \notin Taken
<1>1. JobOver(d, how, s) /\ stage[d] = "accepted"
  BY DEF Ending
<1>2. stage' = [e \in Delivery |->
                  IF e \in Passed \cup {d} THEN "over"
                  ELSE IF Left # <<>> /\ e = Head(Left) THEN "sent" ELSE stage[e]]
  BY <1>1 DEF JobOver
<1>3. \A e : e \in Taken <=> Left # <<>> /\ e = Head(Left)
  BY DEF Taken
<1>4. IF Left = <<>>
      THEN /\ waiters' = <<>>
           /\ semaphore' = IF semaphore < Procs THEN semaphore + 1 ELSE Procs
      ELSE waiters' = Tail(Left) /\ semaphore' = semaphore
  BY <1>1 DEF JobOver
<1>5. semaphore \in 0 .. Procs /\ Procs \in Nat
  BY DeliveryFacts DEF Line
<1>6. d \notin Passed /\ d \notin Taken
  BY <1>1, ReleaseFacts DEF In
<1>7. waiters' = Remaining /\ semaphore' \in 0 .. Procs /\ (semaphore' > 0 => waiters' = <<>>)
  BY <1>4, <1>5, ReleaseFacts
<1>8. \A e \in Delivery :
        stage'[e] = IF e = d \/ e \in Passed THEN "over"
                    ELSE IF e \in Taken THEN "sent" ELSE stage[e]
  BY <1>2, <1>3
<1>9. stage' \in [Delivery -> {"over", "sent"} \cup {stage[e] : e \in Delivery}]
  BY <1>2
<1>10. QED
  BY <1>1, <1>6, <1>7, <1>8, <1>9

(* The delivery that a queued message becomes. *)
LEMMA ComingFacts ==
  ASSUME Types, Fresh, Debt, NEW t \in Task, message[t] = "queued"
  PROVE  /\ Coming(t) \in Delivery /\ Id(Coming(t)) = t /\ N(Coming(t)) = count[t] + 1
         /\ stage[Coming(t)] = "none" /\ count[t] \in Nat
<1>1. count[t] \in Nat /\ mishaps \in 0 .. MaxMishaps /\ MaxMishaps \in Nat
  BY DeliveryFacts DEF Types
<1>2. count[t] <= mishaps
  BY DEF Debt, Owes
<1>3. count[t] + 1 \in 1 .. MaxMishaps + 1
  BY <1>1, <1>2
<1>4. Coming(t) \in Delivery /\ Id(Coming(t)) = t /\ N(Coming(t)) = count[t] + 1
  BY <1>3, DeliveryFacts DEF Coming
<1>5. stage[Coming(t)] = "none"
  BY <1>1, <1>4 DEF Fresh
<1>6. QED
  BY <1>1, <1>4, <1>5

LEMMA UnlistedType ==
  ASSUME Types, NEW T PROVE Unlisted(T) \in [Task -> 0 .. MaxMishaps + 1]
BY DeliveryFacts DEF Unlisted, Types

(* What the loss of a connection does to the requests. *)
LEMMA LossFacts ==
  ASSUME Types, ConnectionLost
  PROVE  /\ Mishap /\ cancelled' = cancelled \cup Doomed /\ Store(Ids(Doomed), "RETRY")
         /\ requests' = Unlisted(Ids(Doomed) \cup Ids(In("waiting") \cup In("sent")))
         /\ stage' = [d \in Delivery |-> IF d \in GivenUp THEN "over" ELSE stage[d]]
         /\ child' \in [Delivery -> Children]
         /\ \A d \in Delivery :
              /\ child'[d] = child[d] \/ child'[d] \in {"written", "terminated", "gone"}
              /\ stage[d] = "none" => child'[d] = child[d]
         /\ message' = [t \in Task |-> IF message[t] = "out" THEN "queued" ELSE message[t]]
         /\ frames' = {} /\ live' = {} /\ limited' = {}
         /\ semaphore' = Procs /\ waiters' = <<>>
         /\ survivors' = survivors \cup Ids(In("accepted"))
         /\ UNCHANGED <<count, revoked, acknowledged, announced, terminating, conf, unheeded>>
<1>1. PICK written \in SUBSET {d \in In("sent") : child[d] = "none"} :
        child' = [d \in Delivery |->
          IF d \in written THEN "written"
          ELSE IF d \in Doomed /\ child[d] \in {"running", "hung"} THEN "terminated"
          ELSE IF d \in GivenUp /\ child[d] \in Outcomes THEN "gone"
          ELSE child[d]]
  BY Zenon DEF ConnectionLost
<1>2. child' \in [Delivery -> Children]
  <2>1. \A d \in Delivery : child[d] \in Children
    BY DEF Types
  <2>2. \A d \in Delivery : child'[d] \in Children
    BY <1>1, <2>1 DEF Children, Outcomes
  <2>3. child' = [d \in Delivery |-> child'[d]]
    BY <1>1
  <2>4. QED
    BY <2>2, <2>3
<1>3. ASSUME NEW d \in Delivery
      PROVE  /\ child'[d] = child[d] \/ child'[d] \in {"written", "terminated", "gone"}
             /\ stage[d] = "none" => child'[d] = child[d]
  <2>1. child'[d] = child[d] \/ child'[d] \in {"written", "terminated", "gone"}
    BY <1>1
  <2>2. stage[d] = "none" => d \notin written /\ d \notin Doomed /\ d \notin GivenUp
    BY DEF Doomed, GivenUp, Active, In
  <2>3. QED
    BY <1>1, <2>1, <2>2
<1>4. /\ Mishap /\ cancelled' = cancelled \cup Doomed /\ Store(Ids(Doomed), "RETRY")
      /\ requests' = Unlisted(Ids(Doomed) \cup Ids(In("waiting") \cup In("sent")))
      /\ stage' = [d \in Delivery |-> IF d \in GivenUp THEN "over" ELSE stage[d]]
  BY Zenon DEF ConnectionLost
<1>5. QED
  BY <1>2, <1>3, <1>4 DEF ConnectionLost, HubReset

LEMMA TypesNext ==
  ASSUME Types, Line, Fresh, Broker, Debt, [Next]_vars
  PROVE  Types'
<1>1. ASSUME NEW t \in Task, ReceiveRevoked(t)
      PROVE  Types'
  BY <1>1, ComingFacts, DeliveryFacts
     DEF ReceiveRevoked, Deliver, Unlisted, Store, Stored, Types, Stages, Children,
         Outcomes, flags, pool, bounds, history
<1>2. ASSUME NEW t \in Task, ReceiveEta(t)
      PROVE  Types'
  BY <1>2, ComingFacts, DeliveryFacts
     DEF ReceiveEta, Deliver, Types, Stages, Children, Outcomes, flags, pool, bounds, history
<1>3. ASSUME NEW t \in Task, ReceiveNow(t)
      PROVE  Types'
  <2> DEFINE c == Coming(t)
  <2>1. c \in Delivery /\ Id(c) \in Task /\ c[2] \in 0 .. MaxMishaps + 1
    BY <1>3, ComingFacts, DeliveryFacts DEF ReceiveNow, Deliver
  <2>2. /\ Reserve(c) /\ live' = live \cup {c}
        /\ message' = [message EXCEPT ![t] = "out"] /\ count' = [count EXCEPT ![t] = count[t] + 1]
        /\ UNCHANGED <<frames, revoked, flags, limited, child, backend, bounds>>
    BY <1>3, Zenon DEF ReceiveNow, Deliver
  <2> HIDE DEF c
  <2>3. requests' \in [Task -> 0 .. MaxMishaps + 1] /\ stage' \in [Delivery -> Stages]
    BY <2>1, <2>2 DEF Reserve, Types, Stages
  <2>4. /\ message' \in [Task -> {"queued", "out", "gone"}] /\ count' \in [Task -> Nat]
        /\ live' \subseteq Delivery
    BY <2>1, <2>2 DEF Types
  <2>5. /\ UNCHANGED <<acknowledged, announced, cancelled, terminating>>
        /\ UNCHANGED <<conf, survivors, unheeded, mishaps, frames, revoked, limited, child, backend>>
    BY <2>2 DEF flags, bounds, history
  <2>6. QED
    BY <2>3, <2>4, <2>5 DEF Types
<1>4. ASSUME NEW d \in Delivery, EtaComes(d)
      PROVE  Types'
  <2> DEFINE c == d
  <2>1. c \in Delivery /\ Id(c) \in Task /\ c[2] \in 0 .. MaxMishaps + 1
    BY <1>4, DeliveryFacts DEF EtaComes
  <2>2. Reserve(c)
    BY <1>4 DEF EtaComes
  <2> HIDE DEF c
  <2>3. requests' \in [Task -> 0 .. MaxMishaps + 1] /\ stage' \in [Delivery -> Stages]
    BY <2>1, <2>2 DEF Reserve, Types, Stages
  <2>4. QED
    BY <1>4, <2>1, <2>3 DEF EtaComes, Types, Stages, Children, Outcomes, flags, bounds, history
<1>5. ASSUME NEW d \in Delivery, EtaComesRevoked(d)
      PROVE  Types'
  BY <1>5, DeliveryFacts
     DEF EtaComesRevoked, Announce, Unlisted, Ids, Store, Stored, Settle, Types, Stages,
         Children, Outcomes, flags, pool, bounds, history
<1>6. ASSUME NEW d \in Delivery, ChildStarts(d)
      PROVE  Types'
  BY <1>6, DeliveryFacts
     DEF ChildStarts, Types, Stages, Children, Outcomes, flags, pool, bounds, history
<1>7. ASSUME NEW d \in Delivery, ChildEnds(d)
      PROVE  Types'
  <2>1. Id(d) \in Task
    BY DeliveryFacts
  <2>2. PICK outcome \in {"success", "failure"}, state \in {"SUCCESS", "FAILURE"} :
          child' = [child EXCEPT ![d] = Reported(d, outcome)] /\ Store({Id(d)}, state)
    BY <1>7 DEF ChildEnds
  <2>3. Reported(d, outcome) \in Children
    BY <2>2 DEF Reported, Children, Outcomes
  <2>4. child' \in [Delivery -> Children]
    BY <2>2, <2>3 DEF Types
  <2>5. backend' \in [Task -> {"PENDING", "SUCCESS", "FAILURE", "REVOKED", "RETRY"}]
    BY <2>2 DEF Types, Store, Stored
  <2>6. QED
    BY <1>7, <2>4, <2>5 DEF ChildEnds, Types, flags, pool, bounds, history
<1>8. ASSUME NEW d \in Delivery, ChildFails(d)
      PROVE  Types'
  BY <1>8, DeliveryFacts, MishapStep
     DEF ChildFails, Reported, Types, Stages, Children, Outcomes, flags, pool, bounds, history
<1>9. ASSUME NEW d \in Delivery, Accepted(d)
      PROVE  Types'
  BY <1>9, DeliveryFacts
     DEF Accepted, Killed, Announce, Unlisted, Ids, Store, Stored, Settle, Types, Stages,
         Children, Outcomes, flags, pool, bounds, history
<1>10. ASSUME NEW d \in Delivery, NEW how, NEW s, Ending(d, how, s)
      PROVE  Types'
  <2>1. JobOver(d, how, s) /\ how \in {"nothing", "ack", "reject", "requeue"}
        /\ s \in {"nothing", "FAILURE", "REVOKED"} /\ mishaps' \in 0 .. MaxMishaps
    BY <1>10 DEF Ending
  <2>2. stage' \in [Delivery -> Stages]
    BY <1>10, EndingFacts DEF Types, Stages
  <2>3. Passed \subseteq Delivery
    BY ReleaseFacts DEF In
  <2>4. frames' \subseteq [delivery : Delivery, how : {"ack", "reject", "requeue"}]
    <3> DEFINE asked == IF how = "nothing" THEN {} ELSE {d}
    <3>1. frames' = frames
            \cup [delivery : (Passed \ acknowledged) \cap live, how : {"ack"}]
            \cup [delivery : (asked \ acknowledged) \cap live, how : {how}]
      BY <2>1 DEF JobOver
    <3>2. asked # {} => how \in {"ack", "reject", "requeue"}
      BY <2>1
    <3>3. asked \subseteq Delivery
      OBVIOUS
    <3> HIDE DEF asked
    <3>4. [delivery : (Passed \ acknowledged) \cap live, how : {"ack"}]
            \subseteq [delivery : Delivery, how : {"ack", "reject", "requeue"}]
      BY <2>3
    <3>5. [delivery : (asked \ acknowledged) \cap live, how : {how}]
            \subseteq [delivery : Delivery, how : {"ack", "reject", "requeue"}]
      BY <3>2, <3>3
    <3>6. QED
      BY <3>1, <3>4, <3>5 DEF Types
  <2>5. /\ requests' \in [Task -> 0 .. MaxMishaps + 1]
        /\ backend' \in [Task -> {"PENDING", "SUCCESS", "FAILURE", "REVOKED", "RETRY"}]
        /\ child' \in [Delivery -> Children]
    BY <2>1, DeliveryFacts DEF JobOver, Unlisted, Stored, Types, Children
  <2>6. acknowledged' \subseteq Delivery /\ announced' \subseteq Delivery
    BY <2>1, <2>3 DEF JobOver, Types
  <2>7. /\ UNCHANGED <<message, count, live, revoked, cancelled, terminating, conf, survivors>>
        /\ unheeded' \subseteq Task
    BY <2>1, DeliveryFacts DEF JobOver, Types
  <2>8. QED
    BY <2>1, <2>2, <2>4, <2>5, <2>6, <2>7 DEF Types
<1>11. ASSUME NEW f \in frames, SendFrame(f)
      PROVE  Types'
  BY <1>11, DeliveryFacts
     DEF SendFrame, Types, Stages, Children, Outcomes, flags, pool, bounds, history
<1>12. ASSUME NEW t \in Task, NEW terminate \in BOOLEAN, Revoke(t, terminate)
      PROVE  Types'
  BY <1>12, DeliveryFacts, MishapStep
     DEF Revoke, Killed, Announce, Unlisted, Ids, Store, Stored, Settle, Types, Stages,
         Children, Outcomes, flags, pool, bounds, history
<1>13. CASE ConnectionLost
  <2>1. /\ stage' \in [Delivery -> Stages]
        /\ requests' \in [Task -> 0 .. MaxMishaps + 1]
        /\ backend' \in [Task -> {"PENDING", "SUCCESS", "FAILURE", "REVOKED", "RETRY"}]
    <3>1. stage' \in [Delivery -> Stages]
      BY <1>13, LossFacts DEF Types, Stages
    <3>2. requests' \in [Task -> 0 .. MaxMishaps + 1]
      BY <1>13, LossFacts, UnlistedType
    <3>3. Store(Ids(Doomed), "RETRY")
      BY <1>13, LossFacts
    <3>4. QED
      BY <3>1, <3>2, <3>3 DEF Store, Stored, Types
  <2>2. cancelled' \subseteq Delivery /\ survivors' \subseteq Task
    BY <1>13, LossFacts, DeliveryFacts DEF Doomed, Types, Active, Ids, In
  <2>3. QED
    BY <1>13, <2>1, <2>2, LossFacts, MishapStep DEF Types
<1>14. CASE UNCHANGED vars
  BY <1>14, DeliveryFacts DEF vars, flags, pool, bounds, history, Types, Stages, Children, Outcomes
<1>15. QED
  BY <1>1, <1>2, <1>3, <1>4, <1>5, <1>6, <1>7, <1>8, <1>9, <1>10, <1>11, <1>12, <1>13,
     <1>14, Endings
     DEF Next, Work, Receive


LEMMA StaysInLine ==
  ASSUME Line, waiters' = waiters, semaphore' = semaphore,
         \A d \in Delivery : stage'[d] = "waiting" <=> stage[d] = "waiting",
         \A d \in limited' : d \in Delivery /\ stage'[d] = "accepted"
  PROVE  Line'
<1>1. In("waiting")' = In("waiting") /\ limited' \subseteq In("accepted")'
  BY DEF In
<1>2. QED
  BY <1>1 DEF Line

LEMMA ReserveLine ==
  ASSUME Types, Line, NEW c \in Delivery, stage[c] \in {"none", "eta"}, Reserve(c),
         limited' = limited
  PROVE  Line'
<1>1. stage' = [stage EXCEPT ![c] = IF semaphore > 0 THEN "sent" ELSE "waiting"]
  BY DEF Reserve
<1>2. \A d \in Delivery :
        stage'[d] = IF d = c THEN IF semaphore > 0 THEN "sent" ELSE "waiting" ELSE stage[d]
  BY <1>1 DEF Types
<1>3. limited' \subseteq In("accepted")'
  BY <1>2 DEF Line, In
<1>4. CASE semaphore > 0
  <2>1. semaphore' = semaphore - 1 /\ waiters' = waiters
    BY <1>4 DEF Reserve
  <2>2. In("waiting")' = In("waiting")
    BY <1>2, <1>4 DEF In
  <2>3. QED
    BY <1>3, <1>4, <2>1, <2>2, DeliveryFacts DEF Line
<1>5. CASE ~ (semaphore > 0)
  <2> DEFINE one == <<c>>
  <2>1. semaphore' = semaphore /\ waiters' = waiters \o one
    BY <1>5 DEF Reserve, Line
  <2>2. one \in Seq(Delivery) /\ IsInjective(one) /\ Range(one) = {c}
    BY DEF IsInjective, Range
  <2>3. In("waiting")' = In("waiting") \cup {c} /\ c \notin In("waiting")
    BY <1>2, <1>5 DEF In
  <2> HIDE DEF one
  <2>4. /\ waiters' \in Seq(Delivery) /\ IsInjective(waiters')
        /\ Range(waiters') = In("waiting")'
    <3>1. /\ waiters \in Seq(Delivery) /\ IsInjective(waiters)
          /\ Range(waiters) = In("waiting") /\ Range(waiters) \cap Range(one) = {}
      BY <2>2, <2>3 DEF Line
    <3>2. /\ waiters \o one \in Seq(Delivery) /\ IsInjective(waiters \o one)
          /\ Range(waiters \o one) = Range(waiters) \cup Range(one)
      BY <2>2, <3>1, RangeConcat, InjectiveConcat
    <3>3. QED
      BY <2>1, <2>2, <2>3, <3>1, <3>2
  <2>5. QED
    BY <1>3, <1>5, <2>1, <2>4 DEF Line
<1>6. QED
  BY <1>4, <1>5


LEMMA LineNext ==
  ASSUME Types, Line, Fresh, Debt, [Next]_vars
  PROVE  Line'
<1>1. ASSUME NEW t \in Task, ReceiveRevoked(t)
      PROVE  Line'
  <2>1. stage[Coming(t)] = "none" /\ Coming(t) \in Delivery
    BY <1>1, ComingFacts DEF ReceiveRevoked, Deliver
  <2>2. QED
    BY <1>1, <2>1, StaysInLine DEF ReceiveRevoked, Types, Line, In, pool
<1>2. ASSUME NEW t \in Task, ReceiveEta(t)
      PROVE  Line'
  <2>1. stage[Coming(t)] = "none" /\ Coming(t) \in Delivery
    BY <1>2, ComingFacts DEF ReceiveEta, Deliver
  <2>2. QED
    BY <1>2, <2>1, StaysInLine DEF ReceiveEta, Types, Line, In, pool
<1>3. ASSUME NEW t \in Task, ReceiveNow(t)
      PROVE  Line'
  <2>1. stage[Coming(t)] = "none" /\ Coming(t) \in Delivery
    BY <1>3, ComingFacts DEF ReceiveNow, Deliver
  <2>2. QED
    BY <1>3, <2>1, ReserveLine DEF ReceiveNow
<1>4. ASSUME NEW d \in Delivery, EtaComes(d)
      PROVE  Line'
  BY <1>4, ReserveLine DEF EtaComes
<1>5. ASSUME NEW d \in Delivery, EtaComesRevoked(d)
      PROVE  Line'
  BY <1>5, StaysInLine
     DEF EtaComesRevoked, Announce, Unlisted, Ids, Store, Stored, Settle, Types, Line, In,
         pool, bounds, history
<1>6. ASSUME NEW d \in Delivery, ChildStarts(d)
      PROVE  Line'
  BY <1>6, StaysInLine DEF ChildStarts, Types, Line, In, flags, pool, bounds, history
<1>7. ASSUME NEW d \in Delivery, ChildEnds(d)
      PROVE  Line'
  BY <1>7, StaysInLine
     DEF ChildEnds, Reported, Store, Stored, Types, Line, In, flags, pool, bounds, history
<1>8. ASSUME NEW d \in Delivery, ChildFails(d)
      PROVE  Line'
  BY <1>8, StaysInLine DEF ChildFails, Reported, Types, Line, In, flags, pool, history
<1>9. ASSUME NEW d \in Delivery, Accepted(d)
      PROVE  Line'
  BY <1>9, StaysInLine
     DEF Accepted, Killed, Announce, Unlisted, Ids, Store, Stored, Settle, Types, Line, In,
         pool, bounds, history
<1>10. ASSUME NEW d \in Delivery, NEW how, NEW s, Ending(d, how, s)
      PROVE  Line'
  <2>1. limited' = limited \ {d}
    BY <1>10 DEF Ending, JobOver
  <2>2. In("waiting")' = (In("waiting") \ Passed) \ Taken
    BY <1>10, EndingFacts DEF In
  <2>3. limited' \subseteq In("accepted")'
    <3>1. \A e \in In("accepted") : e \notin Passed /\ e \notin Taken
      BY ReleaseFacts DEF In
    <3>2. QED
      BY <1>10, <2>1, <3>1, EndingFacts DEF Line, In
  <2>4. QED
    BY <1>10, <2>2, <2>3, EndingFacts, ReleaseFacts DEF Line
<1>11. ASSUME NEW f \in frames, SendFrame(f)
      PROVE  Line'
  BY <1>11, StaysInLine DEF SendFrame, Line, In, pool
<1>12. ASSUME NEW t \in Task, NEW terminate \in BOOLEAN, Revoke(t, terminate)
      PROVE  Line'
  BY <1>12, StaysInLine DEF Revoke, Line, In, pool, history
<1>13. CASE ConnectionLost
  <2>1. /\ waiters' = <<>> /\ semaphore' = Procs /\ limited' = {}
        /\ stage' = [d \in Delivery |-> IF d \in GivenUp THEN "over" ELSE stage[d]]
    BY <1>13, LossFacts
  <2>2. In("waiting")' = {}
    BY <2>1 DEF In, GivenUp
  <2>3. waiters' \in Seq(Delivery) /\ IsInjective(waiters') /\ Range(waiters') = {}
    BY <2>1 DEF IsInjective, Range
  <2>4. semaphore' \in 0 .. Procs /\ limited' \subseteq In("accepted")'
    BY <2>1, DeliveryFacts
  <2>5. QED
    BY <2>1, <2>2, <2>3, <2>4 DEF Line
<1>14. CASE UNCHANGED vars
  BY <1>14, StaysInLine DEF vars, Line, In, pool
<1>15. QED
  BY <1>1, <1>2, <1>3, <1>4, <1>5, <1>6, <1>7, <1>8, <1>9, <1>10, <1>11, <1>12, <1>13,
     <1>14, Endings
     DEF Next, Work, Receive


LEMMA DeliverFacts ==
  ASSUME Types, Fresh, Debt, NEW t \in Task, Deliver(t)
  PROVE  /\ Coming(t) \in Delivery /\ Id(Coming(t)) = t /\ N(Coming(t)) = count[t] + 1
         /\ stage[Coming(t)] = "none" /\ count[t] \in Nat /\ count'[t] = count[t] + 1
         /\ live' = live \cup {Coming(t)}
         /\ message[t] = "queued" /\ message'[t] = "out"
         /\ \A u \in Task \ {t} : count'[u] = count[u] /\ message'[u] = message[u]
         /\ \A d \in Delivery \ {Coming(t)} :
              N(d) > count'[Id(d)] <=> N(d) > count[Id(d)]
<1>1. /\ message[t] = "queued" /\ live' = live \cup {Coming(t)}
      /\ message' = [message EXCEPT ![t] = "out"]
      /\ count' = [count EXCEPT ![t] = count[t] + 1]
  BY Zenon DEF Deliver
<1>2. /\ Coming(t) \in Delivery /\ Id(Coming(t)) = t /\ N(Coming(t)) = count[t] + 1
      /\ stage[Coming(t)] = "none" /\ count[t] \in Nat
  BY <1>1, ComingFacts
<1>3. /\ count'[t] = count[t] + 1 /\ message'[t] = "out"
      /\ \A u \in Task \ {t} : count'[u] = count[u] /\ message'[u] = message[u]
  BY <1>1 DEF Types
<1>4. ASSUME NEW d \in Delivery \ {Coming(t)}
      PROVE  N(d) > count'[Id(d)] <=> N(d) > count[Id(d)]
  <2>1. CASE Id(d) # t
    BY <1>3, <2>1, DeliveryFacts
  <2>2. CASE Id(d) = t
    <3>1. N(d) # count[t] + 1 /\ N(d) \in Nat
      BY <1>2, <2>2, DeliveryFacts
    <3>2. QED
      BY <1>2, <1>3, <2>2, <3>1
  <2>3. QED
    BY <2>1, <2>2
<1>5. QED
  BY <1>1, <1>2, <1>3, <1>4

(* A delivery that comes in and is kept. *)
LEMMA KeptFresh ==
  ASSUME Types, Fresh, Debt, NEW t \in Task, Deliver(t), NEW x \in {"eta", "sent", "waiting"},
         stage' = [stage EXCEPT ![Coming(t)] = x],
         UNCHANGED <<acknowledged, announced, cancelled, child>>
  PROVE  Fresh'
<1> DEFINE c == Coming(t)
<1>1. c \in Delivery /\ stage[c] = "none" /\ live' = live \cup {c}
      /\ ~ (N(c) > count'[Id(c)])
      /\ \A d \in Delivery \ {c} : N(d) > count'[Id(d)] <=> N(d) > count[Id(d)]
  BY DeliverFacts
<1> HIDE DEF c
<1>2. \A d \in Delivery : stage'[d] = IF d = c THEN x ELSE stage[d]
  BY <1>1 DEF Types, c
<1>3. QED
  BY <1>1, <1>2 DEF Fresh


LEMMA FreshNext ==
  ASSUME Types, Line, Fresh, Broker, Debt, [Next]_vars
  PROVE  Fresh'
<1>1. ASSUME NEW t \in Task, ReceiveRevoked(t)
      PROVE  Fresh'
  <2> DEFINE c == Coming(t)
  <2>1. c \in Delivery /\ stage[c] = "none" /\ live' = live \cup {c}
        /\ ~ (N(c) > count'[Id(c)])
        /\ \A d \in Delivery \ {c} : N(d) > count'[Id(d)] <=> N(d) > count[Id(d)]
    BY <1>1, DeliverFacts DEF ReceiveRevoked
  <2>2. /\ stage' = [stage EXCEPT ![c] = "over"] /\ child' = child
        /\ acknowledged' = acknowledged \cup {c} /\ announced' = announced \cup {c}
        /\ cancelled' = cancelled
    BY <1>1 DEF ReceiveRevoked
  <2> HIDE DEF c
  <2>3. \A d \in Delivery : stage'[d] = IF d = c THEN "over" ELSE stage[d]
    BY <2>1, <2>2 DEF Types
  <2>4. QED
    BY <2>1, <2>2, <2>3 DEF Fresh
<1>2. ASSUME NEW t \in Task, ReceiveEta(t)
      PROVE  Fresh'
  BY <1>2, KeptFresh DEF ReceiveEta, flags
<1>3. ASSUME NEW t \in Task, ReceiveNow(t)
      PROVE  Fresh'
  <2>1. stage' = [stage EXCEPT ![Coming(t)] = IF semaphore > 0 THEN "sent" ELSE "waiting"]
    BY <1>3 DEF ReceiveNow, Reserve
  <2>2. QED
    BY <1>3, <2>1, KeptFresh DEF ReceiveNow, flags
<1>4. ASSUME NEW d \in Delivery, EtaComes(d)
      PROVE  Fresh'
  BY <1>4, DeliveryFacts DEF EtaComes, Reserve, Types, Fresh, flags, bounds, history
<1>5. ASSUME NEW d \in Delivery, EtaComesRevoked(d)
      PROVE  Fresh'
  BY <1>5, DeliveryFacts
     DEF EtaComesRevoked, Announce, Unlisted, Ids, Store, Stored, Settle, Types, Fresh,
         pool, bounds, history
<1>6. ASSUME NEW d \in Delivery, ChildStarts(d)
      PROVE  Fresh'
  BY <1>6, DeliveryFacts DEF ChildStarts, Types, Fresh, flags, pool, bounds, history
<1>7. ASSUME NEW d \in Delivery, ChildEnds(d)
      PROVE  Fresh'
  BY <1>7, DeliveryFacts
     DEF ChildEnds, Reported, Store, Stored, Types, Fresh, flags, pool, bounds, history
<1>8. ASSUME NEW d \in Delivery, ChildFails(d)
      PROVE  Fresh'
  BY <1>8, DeliveryFacts DEF ChildFails, Reported, Types, Fresh, flags, pool, history
<1>9. ASSUME NEW d \in Delivery, Accepted(d)
      PROVE  Fresh'
  BY <1>9, DeliveryFacts
     DEF Accepted, Killed, Announce, Unlisted, Ids, Store, Stored, Settle, Types, Fresh,
         pool, bounds, history
<1>10. ASSUME NEW d \in Delivery, NEW how, NEW s, Ending(d, how, s)
      PROVE  Fresh'
  <2>1. /\ acknowledged' \subseteq acknowledged \cup Passed \cup {d}
        /\ announced' \subseteq announced \cup Passed \cup {d}
        /\ UNCHANGED <<count, live, cancelled>> /\ child' = [child EXCEPT ![d] = "gone"]
    BY <1>10 DEF Ending, JobOver
  <2>2. \A e \in Delivery : e # d => child'[e] = child[e]
    BY <2>1 DEF Types
  <2>3. \A e \in Passed \cup Taken : stage[e] = "waiting"
    BY ReleaseFacts DEF In
  <2>4. QED
    BY <1>10, <2>1, <2>2, <2>3, EndingFacts DEF Fresh
<1>11. ASSUME NEW f \in frames, SendFrame(f)
      PROVE  Fresh'
  BY <1>11, DeliveryFacts DEF SendFrame, Types, Fresh, flags, pool, bounds, history
<1>12. ASSUME NEW t \in Task, NEW terminate \in BOOLEAN, Revoke(t, terminate)
      PROVE  Fresh'
  BY <1>12, DeliveryFacts
     DEF Revoke, Killed, Announce, Unlisted, Ids, Store, Stored, Settle, Types, Fresh,
         flags, pool
<1>13. CASE ConnectionLost
  <2>1. \A d \in Delivery : stage'[d] = IF d \in GivenUp THEN "over" ELSE stage[d]
    BY <1>13, LossFacts
  <2>2. \A d \in Delivery :
          d \in GivenUp <=> stage[d] \in {"eta", "waiting", "sent"}
    BY DEF GivenUp, In
  <2>3. \A d \in Doomed : stage[d] = "accepted"
    BY DEF Doomed, Active, In
  <2>4. live' = {} /\ UNCHANGED <<count, acknowledged, announced>>
        /\ cancelled' = cancelled \cup Doomed
        /\ \A d \in Delivery : stage[d] = "none" => child'[d] = child[d]
    BY <1>13, LossFacts
  <2>5. QED
    BY <2>1, <2>2, <2>3, <2>4 DEF Fresh
<1>14. CASE UNCHANGED vars
  BY <1>14, DeliveryFacts DEF vars, flags, pool, bounds, history, Types, Fresh
<1>15. QED
  BY <1>1, <1>2, <1>3, <1>4, <1>5, <1>6, <1>7, <1>8, <1>9, <1>10, <1>11, <1>12, <1>13,
     <1>14, Endings
     DEF Next, Work, Receive


(* The frames after two groups of requests are settled: those that were    *)
(* not acknowledged before, if the connection they came on is the present  *)
(* one.                                                                    *)
Frames(P, a, Q, b) ==
  frames \cup [delivery : (P \ acknowledged) \cap live, how : {a}]
         \cup [delivery : (Q \ acknowledged) \cap live, how : {b}]

LEMMA FramesAdded ==
  ASSUME Broker, NEW P, NEW Q, P \cap Q = {}, NEW a, NEW b
  PROVE  /\ frames \subseteq Frames(P, a, Q, b)
         /\ \A f \in Frames(P, a, Q, b) : \/ f \in frames
                          \/ /\ f.delivery \in live /\ f.delivery \notin acknowledged
                             /\ \/ f.delivery \in P /\ f.how = a
                                \/ f.delivery \in Q /\ f.how = b
         /\ \A f, g \in Frames(P, a, Q, b) : f.delivery = g.delivery => f = g
<1> DEFINE A == [delivery : (P \ acknowledged) \cap live, how : {a}]
           B == [delivery : (Q \ acknowledged) \cap live, how : {b}]
<1>1. \A f \in A : /\ f.delivery \in live /\ f.delivery \notin acknowledged
                   /\ f.delivery \in P /\ f.how = a
                   /\ f = [delivery |-> f.delivery, how |-> f.how]
  OBVIOUS
<1>2. \A f \in B : /\ f.delivery \in live /\ f.delivery \notin acknowledged
                   /\ f.delivery \in Q /\ f.how = b
                   /\ f = [delivery |-> f.delivery, how |-> f.how]
  OBVIOUS
<1>3. Frames(P, a, Q, b) = frames \cup A \cup B
  BY DEF Frames
<1> HIDE DEF A, B
<1>4. \A f \in frames : f.delivery \in acknowledged
  BY DEF Broker
<1>5. ASSUME NEW f \in Frames(P, a, Q, b), NEW g \in Frames(P, a, Q, b), f.delivery = g.delivery
      PROVE  f = g
  <2>1. CASE f \in frames
    BY <1>1, <1>2, <1>3, <1>4, <1>5, <2>1 DEF Broker
  <2>2. CASE f \in A
    <3>1. g \in A
      BY <1>1, <1>2, <1>3, <1>4, <1>5, <2>2
    <3>2. f.how = g.how
      BY <1>1, <2>2, <3>1
    <3>3. [delivery |-> f.delivery, how |-> f.how] = [delivery |-> g.delivery, how |-> g.how]
      BY <1>5, <3>2
    <3>4. QED
      BY <1>1, <2>2, <3>1, <3>3
  <2>3. CASE f \in B
    <3>1. g \in B
      BY <1>1, <1>2, <1>3, <1>4, <1>5, <2>3
    <3>2. f.how = g.how
      BY <1>2, <2>3, <3>1
    <3>3. [delivery |-> f.delivery, how |-> f.how] = [delivery |-> g.delivery, how |-> g.how]
      BY <1>5, <3>2
    <3>4. QED
      BY <1>2, <2>3, <3>1, <3>3
  <2>4. QED
    BY <1>3, <2>1, <2>2, <2>3
<1>6. QED
  BY <1>1, <1>2, <1>3, <1>5

LEMMA SettleFrames ==
  ASSUME Broker, NEW D, NEW how, Settle(D, how)
  PROVE  /\ acknowledged' = acknowledged \cup D /\ frames \subseteq frames'
         /\ \A f \in frames' :
              \/ f \in frames
              \/ /\ f.delivery \in live /\ f.delivery \notin acknowledged
                 /\ f.delivery \in D /\ f.how = how
         /\ \A f, g \in frames' : f.delivery = g.delivery => f = g
<1> DEFINE none == [delivery : ({} \ acknowledged) \cap live, how : {how}]
<1>1. none = {}
  OBVIOUS
<1>2. frames' = Frames(D, how, {}, how)
  BY <1>1, Zenon DEF Settle, Frames
<1>3. D \cap {} = {}
  OBVIOUS
<1>4. /\ frames \subseteq Frames(D, how, {}, how)
      /\ \A f \in Frames(D, how, {}, how) : \/ f \in frames
                            \/ /\ f.delivery \in live /\ f.delivery \notin acknowledged
                               /\ \/ f.delivery \in D /\ f.how = how
                                  \/ f.delivery \in {} /\ f.how = how
      /\ \A f, g \in Frames(D, how, {}, how) : f.delivery = g.delivery => f = g
  BY <1>3, FramesAdded
<1>5. acknowledged' = acknowledged \cup D
  BY DEF Settle
<1>6. QED
  BY <1>2, <1>4, <1>5

LEMMA StaysInBroker ==
  ASSUME Types, Broker, UNCHANGED <<message, count, live>>,
         \A d \in Delivery : stage[d] = "over" => stage'[d] = "over",
         acknowledged \subseteq acknowledged',
         \A f \in frames' :
           \/ f \in frames
           \/ /\ f.delivery \in live /\ f.delivery \notin acknowledged
              /\ f.delivery \in acknowledged'
              /\ f.how = "requeue" => stage'[f.delivery] = "over",
         \A f, g \in frames' : f.delivery = g.delivery => f = g
  PROVE  Broker'
<1>1. \A f \in frames : f.delivery \in Delivery
  BY DEF Types
<1>2. QED
  BY <1>1 DEF Broker, Latest


LEMMA BrokerNext ==
  ASSUME Types, Line, Fresh, Broker, Debt, [Next]_vars
  PROVE  Broker'
<1>1. ASSUME NEW t \in Task, ReceiveRevoked(t)
      PROVE  Broker'
  <2> DEFINE c == Coming(t)
  <2>1. /\ c \in Delivery /\ Id(c) = t /\ N(c) = count[t] + 1 /\ stage[c] = "none"
        /\ live' = live \cup {c} /\ message[t] = "queued" /\ message'[t] = "out"
        /\ count'[t] = count[t] + 1
        /\ \A u \in Task \ {t} : count'[u] = count[u] /\ message'[u] = message[u]
    BY <1>1, DeliverFacts DEF ReceiveRevoked
  <2>2. \A d \in live : d \notin acknowledged => Id(d) # t /\ Id(d) \in Task
    BY <2>1, DeliveryFacts DEF Broker, Latest, Types
  <2>3. \A f \in frames : Id(f.delivery) # t /\ Id(f.delivery) \in Task
    BY <2>1, DeliveryFacts DEF Broker, Latest, Types
  <2>4. /\ stage' = [stage EXCEPT ![c] = "over"] /\ acknowledged' = acknowledged \cup {c}
        /\ frames' = frames \cup {[delivery |-> c, how |-> "ack"]}
    BY <1>1 DEF ReceiveRevoked
  <2> HIDE DEF c
  <2>5. \A d \in live \cup {c} : d \notin acknowledged => Latest(d)'
    BY <2>1, <2>2 DEF Broker, Latest
  <2>6. \A f \in frames : f.delivery \in live' /\ f.delivery \in acknowledged'
                          /\ Latest(f.delivery)' /\ f.delivery # c
    BY <2>1, <2>3, <2>4 DEF Broker, Latest
  <2>7. \A f \in frames : f.how = "requeue" => stage'[f.delivery] = "over"
    BY <2>1, <2>4 DEF Broker, Types
  <2>8. QED
    BY <2>1, <2>4, <2>5, <2>6, <2>7 DEF Broker, Latest
<1>2. ASSUME NEW t \in Task, ReceiveEta(t)
      PROVE  Broker'
  <2> DEFINE c == Coming(t)
  <2>1. /\ c \in Delivery /\ Id(c) = t /\ N(c) = count[t] + 1 /\ stage[c] = "none"
        /\ live' = live \cup {c} /\ message[t] = "queued" /\ message'[t] = "out"
        /\ count'[t] = count[t] + 1
        /\ \A u \in Task \ {t} : count'[u] = count[u] /\ message'[u] = message[u]
    BY <1>2, DeliverFacts DEF ReceiveEta
  <2>2. \A d \in live : d \notin acknowledged => Id(d) # t /\ Id(d) \in Task
    BY <2>1, DeliveryFacts DEF Broker, Latest, Types
  <2>3. \A f \in frames : Id(f.delivery) # t /\ Id(f.delivery) \in Task
    BY <2>1, DeliveryFacts DEF Broker, Latest, Types
  <2>4. /\ stage' = [stage EXCEPT ![c] = "eta"] /\ acknowledged' = acknowledged
        /\ frames' = frames
    BY <1>2 DEF ReceiveEta, flags
  <2> HIDE DEF c
  <2>5. \A d \in live \cup {c} : d \notin acknowledged => Latest(d)'
    BY <2>1, <2>2 DEF Broker, Latest
  <2>6. \A f \in frames : f.delivery \in live' /\ f.delivery \in acknowledged'
                          /\ Latest(f.delivery)' /\ f.delivery # c
    BY <2>1, <2>3, <2>4 DEF Broker, Latest
  <2>7. \A f \in frames : f.how = "requeue" => stage'[f.delivery] = "over"
    BY <2>1, <2>4 DEF Broker, Types
  <2>8. QED
    BY <2>1, <2>4, <2>5, <2>6, <2>7 DEF Broker, Latest
<1>3. ASSUME NEW t \in Task, ReceiveNow(t)
      PROVE  Broker'
  <2> DEFINE c == Coming(t)
  <2>1. /\ c \in Delivery /\ Id(c) = t /\ N(c) = count[t] + 1 /\ stage[c] = "none"
        /\ live' = live \cup {c} /\ message[t] = "queued" /\ message'[t] = "out"
        /\ count'[t] = count[t] + 1
        /\ \A u \in Task \ {t} : count'[u] = count[u] /\ message'[u] = message[u]
    BY <1>3, DeliverFacts DEF ReceiveNow
  <2>2. \A d \in live : d \notin acknowledged => Id(d) # t /\ Id(d) \in Task
    BY <2>1, DeliveryFacts DEF Broker, Latest, Types
  <2>3. \A f \in frames : Id(f.delivery) # t /\ Id(f.delivery) \in Task
    BY <2>1, DeliveryFacts DEF Broker, Latest, Types
  <2>4. /\ stage' = [stage EXCEPT ![c] = IF semaphore > 0 THEN "sent" ELSE "waiting"]
        /\ acknowledged' = acknowledged /\ frames' = frames
    BY <1>3 DEF ReceiveNow, flags, Reserve
  <2> HIDE DEF c
  <2>5. \A d \in live \cup {c} : d \notin acknowledged => Latest(d)'
    BY <2>1, <2>2 DEF Broker, Latest
  <2>6. \A f \in frames : f.delivery \in live' /\ f.delivery \in acknowledged'
                          /\ Latest(f.delivery)' /\ f.delivery # c
    BY <2>1, <2>3, <2>4 DEF Broker, Latest
  <2>7. \A f \in frames : f.how = "requeue" => stage'[f.delivery] = "over"
    BY <2>1, <2>4 DEF Broker, Types
  <2>8. QED
    BY <2>1, <2>4, <2>5, <2>6, <2>7 DEF Broker, Latest
<1>4. ASSUME NEW d \in Delivery, EtaComes(d)
      PROVE  Broker'
  BY <1>4, StaysInBroker DEF EtaComes, Reserve, Types, Broker, flags
<1>5. ASSUME NEW d \in Delivery, EtaComesRevoked(d)
      PROVE  Broker'
  <2>1. /\ UNCHANGED <<message, count, live>> /\ Settle({d}, "ack")
        /\ \A e \in Delivery : stage[e] = "over" => stage'[e] = "over"
    BY <1>5 DEF EtaComesRevoked, Announce, Types
  <2>2. QED
    BY <2>1, SettleFrames, StaysInBroker
<1>6. ASSUME NEW d \in Delivery, ChildStarts(d)
      PROVE  Broker'
  BY <1>6, StaysInBroker DEF ChildStarts, Broker, flags, pool, bounds, history
<1>7. ASSUME NEW d \in Delivery, ChildEnds(d)
      PROVE  Broker'
  BY <1>7, StaysInBroker DEF ChildEnds, Reported, Store, Stored, Broker, flags, pool, bounds, history
<1>8. ASSUME NEW d \in Delivery, ChildFails(d)
      PROVE  Broker'
  BY <1>8, StaysInBroker DEF ChildFails, Reported, Broker, flags, pool, history
<1>9. ASSUME NEW d \in Delivery, Accepted(d)
      PROVE  Broker'
  <2>1. /\ UNCHANGED <<message, count, live>>
        /\ \A e \in Delivery : stage[e] = "over" => stage'[e] = "over"
        /\ Settle({d}, "ack") \/ UNCHANGED <<frames, acknowledged>>
    BY <1>9 DEF Accepted, Announce, Types
  <2>2. CASE UNCHANGED <<frames, acknowledged>>
    BY <2>1, <2>2, StaysInBroker DEF Broker
  <2>3. CASE Settle({d}, "ack")
    BY <2>1, <2>3, SettleFrames, StaysInBroker
  <2>4. QED
    BY <2>1, <2>2, <2>3
<1>10. ASSUME NEW d \in Delivery, NEW how, NEW s, Ending(d, how, s)
      PROVE  Broker'
  <2> DEFINE asked == IF how = "nothing" THEN {} ELSE {d}
  <2>1. /\ UNCHANGED <<message, count, live>>
        /\ acknowledged' = acknowledged \cup Passed \cup asked
        /\ frames' = Frames(Passed, "ack", asked, how)
    BY <1>10, Zenon DEF Ending, JobOver, Frames
  <2>2. \A e \in Delivery : stage[e] = "over" => stage'[e] = "over"
    <3>1. \A e \in Taken : stage[e] = "waiting"
      BY ReleaseFacts DEF In
    <3>2. QED
      BY <1>10, <3>1, EndingFacts
  <2>3. Passed \cap asked = {} /\ asked \subseteq {d} /\ stage'[d] = "over"
    BY <1>10, EndingFacts
  <2> HIDE DEF asked
  <2>4. /\ \A f \in frames' :
             \/ f \in frames
             \/ /\ f.delivery \in live /\ f.delivery \notin acknowledged
                /\ \/ f.delivery \in Passed /\ f.how = "ack"
                   \/ f.delivery \in asked /\ f.how = how
        /\ \A f, g \in frames' : f.delivery = g.delivery => f = g
    <3>1. /\ \A f \in Frames(Passed, "ack", asked, how) :
               \/ f \in frames
               \/ /\ f.delivery \in live /\ f.delivery \notin acknowledged
                  /\ \/ f.delivery \in Passed /\ f.how = "ack"
                     \/ f.delivery \in asked /\ f.how = how
          /\ \A f, g \in Frames(Passed, "ack", asked, how) : f.delivery = g.delivery => f = g
      BY <2>3, FramesAdded
    <3>2. QED
      BY <2>1, <3>1
  <2>5. \A f \in frames' :
           \/ f \in frames
           \/ /\ f.delivery \in live /\ f.delivery \notin acknowledged
              /\ f.delivery \in acknowledged'
              /\ f.how = "requeue" => stage'[f.delivery] = "over"
    BY <2>1, <2>3, <2>4
  <2>6. QED
    BY <2>1, <2>2, <2>4, <2>5, StaysInBroker
<1>11. ASSUME NEW f \in frames, SendFrame(f)
      PROVE  Broker'
  <2> DEFINE t == Id(f.delivery)
  <2>1. /\ f.delivery \in live /\ f.delivery \in acknowledged /\ Latest(f.delivery)
        /\ f.delivery \in Delivery /\ t \in Task
    BY DeliveryFacts DEF Broker, Types
  <2>2. /\ frames' = frames \ {f} /\ UNCHANGED <<count, live, stage, acknowledged>>
        /\ \A u \in Task \ {t} : message'[u] = message[u]
    BY <1>11 DEF SendFrame, Types, flags
  <2>3. ASSUME NEW d \in live, Latest(d), Id(d) = t PROVE d = f.delivery
    BY <2>1, <2>3, DeliveryFacts DEF Latest, Types
  <2> HIDE DEF t
  <2>4. \A d \in live : d \notin acknowledged => Id(d) # t /\ Id(d) \in Task
    BY <2>1, <2>3, DeliveryFacts DEF Broker, Types
  <2>5. \A g \in frames' : Id(g.delivery) # t /\ Id(g.delivery) \in Task
    BY <2>2, <2>3, DeliveryFacts DEF Broker, Types
  <2>6. QED
    BY <2>2, <2>4, <2>5 DEF Broker, Latest
<1>12. ASSUME NEW t \in Task, NEW terminate \in BOOLEAN, Revoke(t, terminate)
      PROVE  Broker'
  <2> DEFINE r == <<t, requests[t]>>
  <2>1. /\ UNCHANGED <<message, count, live, stage>>
        /\ Settle({r}, "ack") \/ UNCHANGED <<frames, acknowledged>>
    BY <1>12 DEF Revoke, Announce, flags, history
  <2> HIDE DEF r
  <2>2. CASE UNCHANGED <<frames, acknowledged>>
    BY <2>1, <2>2, StaysInBroker DEF Broker
  <2>3. CASE Settle({r}, "ack")
    BY <2>1, <2>3, SettleFrames, StaysInBroker
  <2>4. QED
    BY <2>1, <2>2, <2>3
<1>13. CASE ConnectionLost
  <2>1. frames' = {} /\ live' = {}
    BY <1>13, LossFacts
  <2>2. QED
    BY <2>1 DEF Broker
<1>14. CASE UNCHANGED vars
  BY <1>14, StaysInBroker DEF vars, Broker, flags
<1>15. QED
  BY <1>1, <1>2, <1>3, <1>4, <1>5, <1>6, <1>7, <1>8, <1>9, <1>10, <1>11, <1>12, <1>13,
     <1>14, Endings
     DEF Next, Work, Receive


(* A step that pays, or after which no task owes that did not before. *)
LEMMA StaysInDebt ==
  ASSUME Types, Debt, count' = count, mishaps' \in Nat, mishaps' >= mishaps,
         \/ mishaps' = mishaps + 1
         \/ \A t \in Task : Owes(t)' => Owes(t)
  PROVE  Debt'
<1>1. \A t \in Task : count[t] \in Nat /\ mishaps \in Nat
  BY DeliveryFacts DEF Types
<1>2. ASSUME NEW t \in Task PROVE count[t] <= mishaps' + 1
  BY <1>1 DEF Debt
<1>3. ASSUME NEW t \in Task, Owes(t)' PROVE count[t] <= mishaps'
  BY <1>1, <1>3 DEF Debt
<1>4. QED
  BY <1>2, <1>3 DEF Debt

LEMMA StaysOwing ==
  ASSUME Types, Debt, UNCHANGED <<message, count, live, mishaps>>,
         acknowledged \subseteq acknowledged',
         \A f \in frames' : f \in frames \/ f.how # "requeue",
         \A d \in Delivery : child'[d] = child[d] \/ child'[d] \notin {"hung", "requeue", "lost"}
  PROVE  Debt'
<1>1. \A t \in Task : Owes(t)' => Owes(t)
  BY DEF Owes, Types
<1>2. mishaps \in Nat
  BY DeliveryFacts DEF Types
<1>3. QED
  BY <1>1, <1>2, StaysInDebt

(* What comes in has been paid for. *)
LEMMA DeliveryPaid ==
  ASSUME Types, Fresh, Broker, Debt, NEW t \in Task, Deliver(t),
         mishaps' = mishaps, child' = child, acknowledged \subseteq acknowledged',
         \A f \in frames' : f \in frames \/ f.how # "requeue"
  PROVE  Debt'
<1> DEFINE c == Coming(t)
<1>1. /\ c \in Delivery /\ Id(c) = t /\ stage[c] = "none" /\ live' = live \cup {c}
      /\ message[t] = "queued" /\ message'[t] = "out"
      /\ count[t] \in Nat /\ count'[t] = count[t] + 1
      /\ \A u \in Task \ {t} : count'[u] = count[u] /\ message'[u] = message[u]
  BY DeliverFacts
<1> HIDE DEF c
<1>2. child[c] = "none"
  BY <1>1 DEF Fresh
<1>3. count[t] <= mishaps /\ mishaps \in Nat
  BY <1>1, DeliveryFacts DEF Debt, Owes, Types
<1>4. \A d \in live : d \notin acknowledged => Id(d) # t
  BY <1>1 DEF Broker, Latest
<1>5. \A f \in frames : Id(f.delivery) # t
  BY <1>1 DEF Broker, Latest
<1>6. ~ Owes(t)'
  BY <1>1, <1>2, <1>4, <1>5 DEF Owes
<1>7. ASSUME NEW u \in Task \ {t}, Owes(u)' PROVE Owes(u)
  BY <1>1, <1>7 DEF Owes
<1>8. count'[t] <= mishaps' + 1
  BY <1>1, <1>3
<1>9. QED
  BY <1>1, <1>6, <1>7, <1>8 DEF Debt


LEMMA DebtNext ==
  ASSUME Types, Line, Fresh, Broker, Debt, [Next]_vars
  PROVE  Debt'
<1>1. ASSUME NEW t \in Task, ReceiveRevoked(t)
      PROVE  Debt'
  BY <1>1, DeliveryPaid DEF ReceiveRevoked, bounds, history
<1>2. ASSUME NEW t \in Task, ReceiveEta(t)
      PROVE  Debt'
  BY <1>2, DeliveryPaid DEF ReceiveEta, flags, bounds, history
<1>3. ASSUME NEW t \in Task, ReceiveNow(t)
      PROVE  Debt'
  BY <1>3, DeliveryPaid DEF ReceiveNow, flags, bounds, history
<1>4. ASSUME NEW d \in Delivery, EtaComes(d)
      PROVE  Debt'
  BY <1>4, StaysOwing DEF EtaComes, Reserve, Types, flags, bounds, history
<1>5. ASSUME NEW d \in Delivery, EtaComesRevoked(d)
      PROVE  Debt'
  <2>1. /\ UNCHANGED <<message, count, live, mishaps, child>> /\ Settle({d}, "ack")
    BY <1>5 DEF EtaComesRevoked, Announce, bounds, history
  <2>2. /\ acknowledged \subseteq acknowledged'
        /\ \A f \in frames' : f \in frames \/ f.how # "requeue"
    BY <2>1, SettleFrames
  <2>3. QED
    BY <2>1, <2>2, StaysOwing
<1>6. ASSUME NEW d \in Delivery, ChildStarts(d)
      PROVE  Debt'
  BY <1>6, StaysOwing DEF ChildStarts, Types, flags, pool, bounds, history
<1>7. ASSUME NEW d \in Delivery, ChildEnds(d)
      PROVE  Debt'
  BY <1>7, StaysOwing DEF ChildEnds, Reported, Store, Stored, Types, flags, pool, bounds, history
<1>8. ASSUME NEW d \in Delivery, ChildFails(d)
      PROVE  Debt'
  <2>1. mishaps' \in 0 .. MaxMishaps /\ mishaps' = mishaps + 1 /\ mishaps' >= mishaps
    BY <1>8, MishapStep DEF ChildFails, history
  <2>2. count' = count
    BY <1>8 DEF ChildFails, history
  <2>3. QED
    BY <2>1, <2>2, StaysInDebt
<1>9. ASSUME NEW d \in Delivery, Accepted(d)
      PROVE  Debt'
  <2>1. /\ UNCHANGED <<message, count, live, mishaps>>
        /\ Settle({d}, "ack") \/ UNCHANGED <<frames, acknowledged>>
        /\ \A e \in Delivery : child'[e] = child[e] \/ child'[e] = "terminated"
    BY <1>9 DEF Accepted, Announce, Killed, bounds, history
  <2>2. /\ acknowledged \subseteq acknowledged'
        /\ \A f \in frames' : f \in frames \/ f.how # "requeue"
    BY <2>1, SettleFrames
  <2>3. QED
    BY <2>1, <2>2, StaysOwing
<1>10. ASSUME NEW d \in Delivery, NEW how, NEW s, Ending(d, how, s)
      PROVE  Debt'
  <2> DEFINE asked == IF how = "nothing" THEN {} ELSE {d}
  <2>1. /\ UNCHANGED <<message, count, live>>
        /\ acknowledged' = acknowledged \cup Passed \cup asked
        /\ frames' = Frames(Passed, "ack", asked, how)
        /\ child' = [child EXCEPT ![d] = "gone"]
    BY <1>10, Zenon DEF Ending, JobOver, Frames
  <2>2. Passed \cap asked = {} /\ asked \subseteq {d}
    BY <1>10, EndingFacts
  <2> HIDE DEF asked
  <2>3. mishaps' \in Nat /\ mishaps' >= mishaps
        /\ (how = "requeue" =>
              mishaps' = mishaps + 1 \/ child[d] \in {"hung", "requeue", "lost"})
    BY <1>10, DeliveryFacts DEF Ending
  <2>4. \A f \in Frames(Passed, "ack", asked, how) :
           \/ f \in frames
           \/ /\ f.delivery \in live /\ f.delivery \notin acknowledged
              /\ \/ f.delivery \in Passed /\ f.how = "ack"
                 \/ f.delivery \in asked /\ f.how = how
    BY <2>2, FramesAdded
  <2>5. ASSUME mishaps' # mishaps + 1, NEW t \in Task, Owes(t)' PROVE Owes(t)
    <3>1. CASE message'[t] = "queued"
      BY <2>1, <3>1 DEF Owes
    <3>2. CASE \E f \in frames' : Id(f.delivery) = t /\ f.how = "requeue"
      <4>1. PICK f \in frames' : Id(f.delivery) = t /\ f.how = "requeue"
        BY <3>2
      <4>2. CASE f \in frames
        BY <4>1, <4>2 DEF Owes
      <4>3. CASE f \notin frames
        <5>1. /\ f.delivery \in live /\ f.delivery \notin acknowledged
              /\ f.delivery = d /\ how = "requeue"
          BY <2>1, <2>2, <2>4, <4>1, <4>3
        <5>2. child[d] \in {"hung", "requeue", "lost"}
          BY <2>3, <2>5, <5>1
        <5>3. QED
          BY <4>1, <5>1, <5>2 DEF Owes
      <4>4. QED
        BY <4>2, <4>3
    <3>3. CASE \E e \in live' : /\ e \notin acknowledged' /\ Id(e) = t
                                /\ child'[e] \in {"hung", "requeue", "lost"}
      BY <2>1, <3>3 DEF Owes, Types
    <3>4. QED
      BY <2>5, <3>1, <3>2, <3>3 DEF Owes
  <2>6. QED
    BY <2>1, <2>3, <2>5, StaysInDebt
<1>11. ASSUME NEW f \in frames, SendFrame(f)
      PROVE  Debt'
  <2>1. /\ frames' = frames \ {f} /\ UNCHANGED <<count, live, acknowledged, child, mishaps>>
        /\ message' = [message EXCEPT ![Id(f.delivery)] =
                        IF f.how = "requeue" THEN "queued" ELSE "gone"]
    BY <1>11 DEF SendFrame, flags, bounds, history
  <2>2. \A t \in Task : Owes(t)' => Owes(t)
    BY <2>1 DEF Owes, Types
  <2>3. mishaps \in Nat
    BY DeliveryFacts DEF Types
  <2>4. QED
    BY <2>1, <2>2, <2>3, StaysInDebt
<1>12. ASSUME NEW t \in Task, NEW terminate \in BOOLEAN, Revoke(t, terminate)
      PROVE  Debt'
  <2>1. mishaps' \in 0 .. MaxMishaps /\ mishaps' = mishaps + 1 /\ mishaps' >= mishaps
    BY <1>12, MishapStep DEF Revoke, history
  <2>2. count' = count
    BY <1>12 DEF Revoke, history
  <2>3. QED
    BY <2>1, <2>2, StaysInDebt
<1>13. CASE ConnectionLost
  <2>1. Mishap /\ count' = count
    BY <1>13 DEF ConnectionLost
  <2>2. QED
    BY <2>1, MishapStep, StaysInDebt, DeliveryFacts
<1>14. CASE UNCHANGED vars
  BY <1>14, StaysOwing DEF vars, flags, bounds, history
<1>15. QED
  BY <1>1, <1>2, <1>3, <1>4, <1>5, <1>6, <1>7, <1>8, <1>9, <1>10, <1>11, <1>12, <1>13,
     <1>14, Endings
     DEF Next, Work, Receive


(* What is stored. *)
LEMMA StoreFacts ==
  ASSUME Types, NEW T, NEW s \in {"SUCCESS", "FAILURE", "REVOKED", "RETRY"}, Store(T, s)
  PROVE  /\ \A t \in Task : backend[t] = "SUCCESS" => backend'[t] = "SUCCESS"
         /\ \A t \in Task : t \in T => backend'[t] \in {"SUCCESS", s}
         /\ \A t \in Task : t \notin T => backend'[t] = backend[t]
         /\ s # "RETRY" => \A t \in Task : /\ backend[t] \in Final => backend'[t] \in Final
                                           /\ t \in T => backend'[t] \in Final
<1>1. \A t \in Task : backend'[t] = IF t \in T THEN Stored(t, s) ELSE backend[t]
  BY DEF Store
<1>2. QED
  BY <1>1 DEF Stored, Final

LEMMA EndingStores ==
  ASSUME Types, NEW d \in Delivery, NEW how, NEW s, Ending(d, how, s)
  PROVE  \A t \in Task :
           /\ backend[t] = "SUCCESS" => backend'[t] = "SUCCESS"
           /\ backend[t] \in Final => backend'[t] \in Final
           /\ t \in Ids(Passed) => backend'[t] \in Final
           /\ t = Id(d) /\ s # "nothing" => backend'[t] \in Final
<1>1. s \in {"nothing", "FAILURE", "REVOKED"}
  BY DEF Ending
<1>2. \A t \in Task : backend'[t] = IF t = Id(d) /\ s # "nothing" THEN Stored(t, s)
                                   ELSE IF t \in Ids(Passed) THEN Stored(t, "REVOKED")
                                   ELSE backend[t]
  BY DEF Ending, JobOver
<1>3. QED
  BY <1>1, <1>2 DEF Stored, Final

LEMMA StaysKept ==
  ASSUME Types, Kept, conf' = conf, cancelled' = cancelled, live \subseteq live',
         announced \subseteq announced', acknowledged \subseteq acknowledged',
         \A t \in Task : /\ backend[t] = "SUCCESS" => backend'[t] = "SUCCESS"
                         /\ backend[t] \in Final => backend'[t] \in Final,
         \A d \in Delivery :
           \/ child'[d] \notin {"success", "failure"}
           \/ child'[d] = child[d] /\ (d \in live' => d \in live)
           \/ child'[d] = "success" /\ backend'[Id(d)] = "SUCCESS"
           \/ child'[d] = "failure" /\ backend'[Id(d)] \in Final,
         \A d \in announced' : d \in announced \/ backend'[Id(d)] \in Final,
         \A d \in Delivery :
           stage'[d] = "accepted" =>
             stage[d] = "accepted" \/ (d \in live' /\ (d \in acknowledged' \/ conf.late))
  PROVE  Kept'
<1> SUFFICES ASSUME NEW d \in Delivery
             PROVE  /\ child'[d] = "success" => backend'[Id(d)] = "SUCCESS"
                    /\ child'[d] = "failure" /\ (d \in live' \/ ~ conf.late) =>
                         backend'[Id(d)] \in Final
                    /\ stage'[d] = "accepted" => d \in acknowledged' \/ conf.late
                    /\ d \in announced' /\ ~ conf.late => backend'[Id(d)] \in Final
                    /\ d \in cancelled => conf.late
                    /\ conf.late /\ conf.cancel /\ stage'[d] = "accepted" =>
                         d \in announced' \cup cancelled \cup acknowledged' \cup live'
  BY DEF Kept, Final
<1>1. Id(d) \in Task
  BY DeliveryFacts
<1>2. /\ child[d] = "success" => backend[Id(d)] = "SUCCESS"
      /\ child[d] = "failure" /\ (d \in live \/ ~ conf.late) => backend[Id(d)] \in Final
      /\ stage[d] = "accepted" => d \in acknowledged \/ conf.late
      /\ d \in announced /\ ~ conf.late => backend[Id(d)] \in Final
      /\ d \in cancelled => conf.late
      /\ conf.late /\ conf.cancel /\ stage[d] = "accepted" =>
           d \in announced \cup cancelled \cup acknowledged \cup live
  BY DEF Kept
<1>3. /\ backend[Id(d)] = "SUCCESS" => backend'[Id(d)] = "SUCCESS"
      /\ backend[Id(d)] \in Final => backend'[Id(d)] \in Final
  BY <1>1
<1>4. "SUCCESS" \in Final
  BY DEF Final
<1>5. child'[d] = "success" => backend'[Id(d)] = "SUCCESS"
  BY <1>2, <1>3
<1>6. child'[d] = "failure" /\ (d \in live' \/ ~ conf.late) => backend'[Id(d)] \in Final
  BY <1>2, <1>3
<1>7. stage'[d] = "accepted" => d \in acknowledged' \/ conf.late
  BY <1>2
<1>8. d \in announced' /\ ~ conf.late => backend'[Id(d)] \in Final
  BY <1>2, <1>3
<1>9. conf.late /\ conf.cancel /\ stage'[d] = "accepted" =>
        d \in announced' \cup cancelled \cup acknowledged' \cup live'
  BY <1>2
<1>10. QED
  BY <1>2, <1>5, <1>6, <1>7, <1>8, <1>9


LEMMA KeptNext ==
  ASSUME Types, Line, Fresh, Debt, Kept, [Next]_vars
  PROVE  Kept'
<1>1. ASSUME NEW t \in Task, ReceiveRevoked(t)
      PROVE  Kept'
  <2> DEFINE c == Coming(t)
  <2>1. c \in Delivery /\ Id(c) = t /\ stage[c] = "none" /\ live' = live \cup {c}
    BY <1>1, DeliverFacts DEF ReceiveRevoked
  <2>2. /\ UNCHANGED <<child, conf, cancelled>>
        /\ stage' = [stage EXCEPT ![c] = "over"] /\ acknowledged' = acknowledged \cup {c}
        /\ announced' = announced \cup {c} /\ Store({t}, "REVOKED")
    BY <1>1 DEF ReceiveRevoked, bounds, history
  <2> HIDE DEF c
  <2>3. child[c] = "none"
    BY <2>1 DEF Fresh
  <2>4. \A u \in Task : /\ backend[u] = "SUCCESS" => backend'[u] = "SUCCESS"
                        /\ backend[u] \in Final => backend'[u] \in Final
    BY <2>2, StoreFacts
  <2>5. \A d \in announced' : d \in announced \/ backend'[Id(d)] \in Final
    BY <2>1, <2>2, StoreFacts
  <2>6. \A d \in Delivery : stage'[d] = "accepted" => stage[d] = "accepted"
    BY <2>1, <2>2 DEF Types
  <2>7. \A d \in Delivery : child'[d] = "none" \/ (child'[d] = child[d] /\ (d \in live' => d \in live))
    BY <2>1, <2>2, <2>3
  <2>8. announced \subseteq announced' /\ acknowledged \subseteq acknowledged' /\ live \subseteq live'
    BY <2>1, <2>2
  <2>9. QED
    BY <2>2, <2>4, <2>5, <2>6, <2>7, <2>8, StaysKept
<1>2. ASSUME NEW t \in Task, ReceiveEta(t)
      PROVE  Kept'
  <2> DEFINE c == Coming(t)
  <2>1. c \in Delivery /\ Id(c) = t /\ stage[c] = "none" /\ live' = live \cup {c}
    BY <1>2, DeliverFacts DEF ReceiveEta
  <2>2. /\ UNCHANGED <<child, conf, cancelled>>
        /\ stage' = [stage EXCEPT ![c] = "eta"] /\ acknowledged' = acknowledged
        /\ announced' = announced /\ backend' = backend
    BY <1>2 DEF ReceiveEta, flags, bounds, history
  <2> HIDE DEF c
  <2>3. child[c] = "none"
    BY <2>1 DEF Fresh
  <2>4. \A u \in Task : /\ backend[u] = "SUCCESS" => backend'[u] = "SUCCESS"
                        /\ backend[u] \in Final => backend'[u] \in Final
    BY <2>2
  <2>5. \A d \in announced' : d \in announced \/ backend'[Id(d)] \in Final
    BY <2>2
  <2>6. \A d \in Delivery : stage'[d] = "accepted" => stage[d] = "accepted"
    BY <2>1, <2>2 DEF Types
  <2>7. \A d \in Delivery : child'[d] = "none" \/ (child'[d] = child[d] /\ (d \in live' => d \in live))
    BY <2>1, <2>2, <2>3
  <2>8. announced \subseteq announced' /\ acknowledged \subseteq acknowledged' /\ live \subseteq live'
    BY <2>1, <2>2
  <2>9. QED
    BY <2>2, <2>4, <2>5, <2>6, <2>7, <2>8, StaysKept
<1>3. ASSUME NEW t \in Task, ReceiveNow(t)
      PROVE  Kept'
  <2> DEFINE c == Coming(t)
  <2>1. c \in Delivery /\ Id(c) = t /\ stage[c] = "none" /\ live' = live \cup {c}
    BY <1>3, DeliverFacts DEF ReceiveNow
  <2>2. /\ UNCHANGED <<child, conf, cancelled>>
        /\ stage' = [stage EXCEPT ![c] = IF semaphore > 0 THEN "sent" ELSE "waiting"]
        /\ acknowledged' = acknowledged /\ announced' = announced /\ backend' = backend
    BY <1>3 DEF ReceiveNow, flags, Reserve, bounds, history
  <2> HIDE DEF c
  <2>3. child[c] = "none"
    BY <2>1 DEF Fresh
  <2>4. \A u \in Task : /\ backend[u] = "SUCCESS" => backend'[u] = "SUCCESS"
                        /\ backend[u] \in Final => backend'[u] \in Final
    BY <2>2
  <2>5. \A d \in announced' : d \in announced \/ backend'[Id(d)] \in Final
    BY <2>2
  <2>6. \A d \in Delivery : stage'[d] = "accepted" => stage[d] = "accepted"
    BY <2>1, <2>2 DEF Types
  <2>7. \A d \in Delivery : child'[d] = "none" \/ (child'[d] = child[d] /\ (d \in live' => d \in live))
    BY <2>1, <2>2, <2>3
  <2>8. announced \subseteq announced' /\ acknowledged \subseteq acknowledged' /\ live \subseteq live'
    BY <2>1, <2>2
  <2>9. QED
    BY <2>2, <2>4, <2>5, <2>6, <2>7, <2>8, StaysKept
<1>4. ASSUME NEW d \in Delivery, EtaComes(d)
      PROVE  Kept'
  <2>1. /\ UNCHANGED <<live, acknowledged, announced, cancelled, child, backend, conf>>
        /\ stage' = [stage EXCEPT ![d] = IF semaphore > 0 THEN "sent" ELSE "waiting"]
    BY <1>4 DEF EtaComes, Reserve, flags, bounds, history
  <2>2. QED
    BY <2>1, StaysKept DEF Types
<1>5. ASSUME NEW d \in Delivery, EtaComesRevoked(d)
      PROVE  Kept'
  <2>1. /\ UNCHANGED <<live, child, conf, cancelled>> /\ announced' = announced \cup {d}
        /\ Settle({d}, "ack") /\ Store(Ids({d}), "REVOKED")
        /\ stage' = [stage EXCEPT ![d] = "over"]
    BY <1>5 DEF EtaComesRevoked, Announce, bounds, history
  <2>2. acknowledged \subseteq acknowledged' /\ Id(d) \in Ids({d}) /\ Id(d) \in Task
    BY <2>1, DeliveryFacts DEF Settle, Ids
  <2>3. QED
    BY <2>1, <2>2, StoreFacts, StaysKept DEF Types
<1>6. ASSUME NEW d \in Delivery, ChildStarts(d)
      PROVE  Kept'
  <2>1. /\ UNCHANGED <<live, acknowledged, announced, cancelled, backend, conf, stage>>
        /\ child' = [child EXCEPT ![d] = "running"]
    BY <1>6 DEF ChildStarts, flags, bounds, history
  <2>2. QED
    BY <2>1, StaysKept DEF Types
<1>7. ASSUME NEW d \in Delivery, ChildEnds(d)
      PROVE  Kept'
  <2>1. UNCHANGED <<live, acknowledged, announced, cancelled, conf, stage>>
    BY <1>7 DEF ChildEnds, flags, bounds, history
  <2>2. PICK o \in {"success", "failure"} :
          /\ child' = [child EXCEPT ![d] = Reported(d, o)]
          /\ Store({Id(d)}, IF o = "success" THEN "SUCCESS" ELSE "FAILURE")
    <3>1. CASE child' = [child EXCEPT ![d] = Reported(d, "success")] /\ Store({Id(d)}, "SUCCESS")
      BY <3>1
    <3>2. CASE child' = [child EXCEPT ![d] = Reported(d, "failure")] /\ Store({Id(d)}, "FAILURE")
      BY <3>2
    <3>3. QED
      BY <1>7, <3>1, <3>2, Zenon DEF ChildEnds
  <2>3. /\ \A u \in Task : /\ backend[u] = "SUCCESS" => backend'[u] = "SUCCESS"
                           /\ backend[u] \in Final => backend'[u] \in Final
        /\ o = "success" => backend'[Id(d)] = "SUCCESS"
        /\ backend'[Id(d)] \in Final
    BY <2>2, StoreFacts, DeliveryFacts
  <2>4. \A e \in Delivery : child'[e] = IF e = d THEN Reported(d, o) ELSE child[e]
    BY <2>2 DEF Types
  <2>5. Reported(d, o) \in {"gone", o}
    BY DEF Reported
  <2>6. QED
    BY <2>1, <2>3, <2>4, <2>5, StaysKept
<1>8. ASSUME NEW d \in Delivery, ChildFails(d)
      PROVE  Kept'
  <2>1. UNCHANGED <<live, acknowledged, announced, cancelled, backend, conf, stage>>
    BY <1>8 DEF ChildFails, flags, history
  <2>2. PICK o \in {"hung", "requeue", "reject", "lost"} :
             child' = [child EXCEPT ![d] = IF o = "hung" THEN o ELSE Reported(d, o)]
    BY <1>8 DEF ChildFails, history
  <2>3. \A e \in Delivery : child'[e] = IF e = d THEN IF o = "hung" THEN o ELSE Reported(d, o)
                                        ELSE child[e]
    BY <2>2 DEF Types
  <2>4. Reported(d, o) \in {"gone", o}
    BY DEF Reported
  <2>5. QED
    BY <2>1, <2>2, <2>3, <2>4, StaysKept
<1>9. ASSUME NEW d \in Delivery, Accepted(d)
      PROVE  Kept'
  <2>1. /\ UNCHANGED <<live, conf, cancelled>>
        /\ stage' = [stage EXCEPT ![d] = "accepted"]
        /\ \A e \in Delivery : child'[e] = child[e] \/ child'[e] = "terminated"
    BY <1>9 DEF Accepted, Announce, Killed, bounds, history
  <2>2. acknowledged \subseteq acknowledged'
    BY <1>9 DEF Accepted, Announce, Settle
  <2>3. d \in live /\ (d \in acknowledged' \/ conf.late)
    BY <1>9 DEF Accepted, Announce, Settle, Fresh
  <2>4. /\ announced \subseteq announced'
        /\ \A e \in announced' : e \in announced \/ backend'[Id(e)] \in Final
        /\ \A u \in Task : /\ backend[u] = "SUCCESS" => backend'[u] = "SUCCESS"
                           /\ backend[u] \in Final => backend'[u] \in Final
    <3>1. CASE d \in terminating
      <4>1. Store(Ids({d}), "REVOKED") /\ announced' = announced \cup {d}
        BY <1>9, <3>1 DEF Accepted, Announce
      <4>2. Id(d) \in Ids({d}) /\ Id(d) \in Task
        BY DeliveryFacts DEF Ids
      <4>3. QED
        BY <4>1, <4>2, StoreFacts
    <3>2. CASE d \notin terminating
      BY <1>9, <3>2 DEF Accepted
    <3>3. QED
      BY <3>1, <3>2
  <2>5. QED
    BY <2>1, <2>2, <2>3, <2>4, StaysKept DEF Types
<1>10. ASSUME NEW d \in Delivery, NEW how, NEW s, Ending(d, how, s)
      PROVE  Kept'
  <2>1. /\ UNCHANGED <<live, conf, cancelled>>
        /\ acknowledged \subseteq acknowledged' /\ announced \subseteq announced'
        /\ child' = [child EXCEPT ![d] = "gone"]
    BY <1>10 DEF Ending, JobOver
  <2>2. \A e \in announced' : e \in announced \/ e \in Passed \/ (e = d /\ s # "nothing")
    BY <1>10 DEF Ending, JobOver
  <2>3. \A e \in Passed : e \in Delivery /\ Id(e) \in Ids(Passed)
    BY ReleaseFacts DEF In, Ids
  <2>4. \A e \in announced' : e \in announced \/ backend'[Id(e)] \in Final
    BY <1>10, <2>2, <2>3, EndingStores, DeliveryFacts
  <2>5. \A e \in Delivery : stage'[e] = "accepted" => stage[e] = "accepted"
    BY <1>10, EndingFacts
  <2>6. \A e \in Delivery : child'[e] = "gone" \/ (child'[e] = child[e] /\ (e \in live' => e \in live))
    BY <2>1 DEF Types
  <2>7. \A u \in Task : /\ backend[u] = "SUCCESS" => backend'[u] = "SUCCESS"
                        /\ backend[u] \in Final => backend'[u] \in Final
    BY <1>10, EndingStores
  <2>8. QED
    BY <2>1, <2>4, <2>5, <2>6, <2>7, StaysKept
<1>11. ASSUME NEW f \in frames, SendFrame(f)
      PROVE  Kept'
  BY <1>11, StaysKept DEF SendFrame, flags, bounds, history
<1>12. ASSUME NEW t \in Task, NEW terminate \in BOOLEAN, Revoke(t, terminate)
      PROVE  Kept'
  <2> DEFINE r == <<t, requests[t]>>
  <2>1. /\ UNCHANGED <<live, conf, cancelled, stage>>
        /\ acknowledged \subseteq acknowledged'
        /\ \A e \in Delivery : child'[e] = child[e] \/ child'[e] = "terminated"
    BY <1>12 DEF Revoke, Announce, Settle, Killed, flags, history
  <2>2. Store({t}, "REVOKED") \/ Store(Ids({r}), "REVOKED")
    BY <1>12 DEF Revoke, Announce, history
  <2>3. announced' = announced \/ (announced' = announced \cup {r} /\ Store(Ids({r}), "REVOKED"))
    BY <1>12 DEF Revoke, Announce, flags, history
  <2>4. Id(r) = t /\ t \in Ids({r})
    BY DEF Id, Ids
  <2> HIDE DEF r
  <2>5. QED
    BY <2>1, <2>2, <2>3, <2>4, StoreFacts, StaysKept
<1>13. CASE ConnectionLost
  <2>1. /\ live' = {} /\ cancelled' = cancelled \cup Doomed /\ conf' = conf
        /\ UNCHANGED <<acknowledged, announced>> /\ Store(Ids(Doomed), "RETRY")
        /\ \A d \in Delivery : stage'[d] = IF d \in GivenUp THEN "over" ELSE stage[d]
        /\ \A d \in Delivery : child'[d] = child[d] \/ child'[d] \in {"written", "terminated", "gone"}
    BY <1>13, LossFacts
  <2>2. \A d \in Delivery : d \in Doomed <=> /\ conf.cancel /\ conf.late /\ d \notin acknowledged
                                             /\ stage[d] = "accepted"
                                             /\ d \notin announced /\ d \notin cancelled
    BY DEF Doomed, Active, In
  <2>3. \A u \in Task : backend[u] = "SUCCESS" => backend'[u] = "SUCCESS"
    BY <2>1, StoreFacts
  <2>4. ~ conf.late => \A u \in Task : backend'[u] = backend[u]
    <3>1. ~ conf.late => Ids(Doomed) = {}
      BY DEF Doomed, Ids
    <3>2. QED
      BY <2>1, <3>1, StoreFacts
  <2>5. QED
    BY <2>1, <2>2, <2>3, <2>4, DeliveryFacts DEF Kept, GivenUp, In
<1>14. CASE UNCHANGED vars
  BY <1>14, StaysKept DEF vars, flags, bounds, history
<1>15. QED
  BY <1>1, <1>2, <1>3, <1>4, <1>5, <1>6, <1>7, <1>8, <1>9, <1>10, <1>11, <1>12, <1>13,
     <1>14, Endings
     DEF Next, Work, Receive


LEMMA StaysUnique ==
  ASSUME Types, Unique, UNCHANGED <<message, count>>, survivors \subseteq survivors',
         \A d \in Delivery :
           stage'[d] \notin {"none", "over"} => stage[d] \notin {"none", "over"}
  PROVE  Unique'
BY DEF Unique

LEMMA DeliveryUnique ==
  ASSUME Types, Fresh, Debt, Unique, NEW t \in Task, Deliver(t), survivors' = survivors,
         NEW x, stage' = [stage EXCEPT ![Coming(t)] = x]
  PROVE  Unique'
<1> DEFINE c == Coming(t)
<1>1. /\ c \in Delivery /\ Id(c) = t /\ N(c) = count'[t]
      /\ message[t] = "queued" /\ message'[t] = "out"
      /\ \A u \in Task \ {t} : count'[u] = count[u] /\ message'[u] = message[u]
  BY DeliverFacts
<1> HIDE DEF c
<1>2. \A d \in Delivery \ {c} : stage'[d] = stage[d]
  BY <1>1 DEF Types, c
<1>3. SUFFICES ASSUME NEW d \in Delivery, Id(d) \notin survivors, stage'[d] \notin {"none", "over"}
               PROVE  N(d) = count'[Id(d)] /\ message'[Id(d)] # "queued"
  BY DEF Unique
<1>4. CASE d = c
  BY <1>1, <1>4
<1>5. CASE d # c
  <2>1. N(d) = count[Id(d)] /\ message[Id(d)] # "queued" /\ Id(d) \in Task
    BY <1>2, <1>3, <1>5, DeliveryFacts DEF Unique
  <2>2. QED
    BY <1>1, <2>1
<1>6. QED
  BY <1>4, <1>5


LEMMA UniqueNext ==
  ASSUME Types, Line, Fresh, Broker, Debt, Unique, [Next]_vars
  PROVE  Unique'
<1>1. ASSUME NEW t \in Task, ReceiveRevoked(t)
      PROVE  Unique'
  BY <1>1, DeliveryUnique DEF ReceiveRevoked, bounds, history
<1>2. ASSUME NEW t \in Task, ReceiveEta(t)
      PROVE  Unique'
  BY <1>2, DeliveryUnique DEF ReceiveEta, bounds, history
<1>3. ASSUME NEW t \in Task, ReceiveNow(t)
      PROVE  Unique'
  <2>1. stage' = [stage EXCEPT ![Coming(t)] = IF semaphore > 0 THEN "sent" ELSE "waiting"]
    BY <1>3 DEF ReceiveNow, Reserve
  <2>2. QED
    BY <1>3, <2>1, DeliveryUnique DEF ReceiveNow, bounds, history
<1>4. ASSUME NEW d \in Delivery, EtaComes(d)
      PROVE  Unique'
  BY <1>4, StaysUnique DEF EtaComes, Reserve, Types, flags, bounds, history
<1>5. ASSUME NEW d \in Delivery, EtaComesRevoked(d)
      PROVE  Unique'
  BY <1>5, StaysUnique
     DEF EtaComesRevoked, Announce, Unlisted, Ids, Store, Stored, Settle, Types, pool,
         bounds, history
<1>6. ASSUME NEW d \in Delivery, ChildStarts(d)
      PROVE  Unique'
  BY <1>6, StaysUnique DEF ChildStarts, Types, flags, pool, bounds, history
<1>7. ASSUME NEW d \in Delivery, ChildEnds(d)
      PROVE  Unique'
  BY <1>7, StaysUnique DEF ChildEnds, Reported, Store, Stored, Types, flags, pool, bounds, history
<1>8. ASSUME NEW d \in Delivery, ChildFails(d)
      PROVE  Unique'
  BY <1>8, StaysUnique DEF ChildFails, Reported, Types, flags, pool, history
<1>9. ASSUME NEW d \in Delivery, Accepted(d)
      PROVE  Unique'
  BY <1>9, StaysUnique
     DEF Accepted, Killed, Announce, Unlisted, Ids, Store, Stored, Settle, Types, pool,
         bounds, history
<1>10. ASSUME NEW d \in Delivery, NEW how, NEW s, Ending(d, how, s)
      PROVE  Unique'
  <2>1. UNCHANGED <<message, count, survivors>>
    BY <1>10 DEF Ending, JobOver
  <2>2. \A e \in Taken : stage[e] = "waiting"
    BY ReleaseFacts DEF In
  <2>3. \A e \in Delivery :
          stage'[e] \notin {"none", "over"} => stage[e] \notin {"none", "over"}
    BY <1>10, <2>2, EndingFacts
  <2>4. QED
    BY <2>1, <2>3, StaysUnique
<1>11. ASSUME NEW f \in frames, SendFrame(f)
      PROVE  Unique'
  <2> DEFINE t == Id(f.delivery)
  <2>1. /\ f.delivery \in Delivery /\ Latest(f.delivery) /\ t \in Task
        /\ f.how = "requeue" => stage[f.delivery] = "over"
    BY DeliveryFacts DEF Broker, Types
  <2>2. /\ UNCHANGED <<count, stage, survivors>>
        /\ message' = [message EXCEPT ![t] = IF f.how = "requeue" THEN "queued" ELSE "gone"]
    BY <1>11 DEF SendFrame, bounds, history
  <2>3. ASSUME NEW d \in Delivery, Id(d) \notin survivors, stage[d] \notin {"none", "over"}
        PROVE  N(d) = count[Id(d)] /\ message'[Id(d)] # "queued"
    <3>1. N(d) = count[Id(d)] /\ message[Id(d)] # "queued" /\ Id(d) \in Task
      BY <2>3, DeliveryFacts DEF Unique
    <3>2. Id(d) = t => d = f.delivery
      BY <2>1, <3>1, DeliveryFacts DEF Latest
    <3>3. Id(d) = t => f.how # "requeue"
      BY <2>1, <2>3, <3>2
    <3>4. QED
      BY <2>1, <2>2, <3>1, <3>3 DEF Types
  <2>4. QED
    BY <2>2, <2>3 DEF Unique
<1>12. ASSUME NEW t \in Task, NEW terminate \in BOOLEAN, Revoke(t, terminate)
      PROVE  Unique'
  BY <1>12, StaysUnique
     DEF Revoke, Killed, Announce, Unlisted, Ids, Store, Stored, Settle, Types, flags, pool, history
<1>13. CASE ConnectionLost
  <2>1. /\ survivors' = survivors \cup Ids(In("accepted"))
        /\ \A d \in Delivery : stage'[d] = IF d \in GivenUp THEN "over" ELSE stage[d]
    BY <1>13, LossFacts
  <2>2. \A d \in Delivery : stage'[d] \notin {"none", "over"} => stage[d] = "accepted"
    BY <2>1 DEF GivenUp, In, Types, Stages
  <2>3. \A d \in Delivery : stage[d] = "accepted" => Id(d) \in Ids(In("accepted"))
    BY DEF In, Ids
  <2>4. QED
    BY <2>1, <2>2, <2>3 DEF Unique
<1>14. CASE UNCHANGED vars
  BY <1>14, StaysUnique DEF vars, flags, pool, bounds, history, Types
<1>15. QED
  BY <1>1, <1>2, <1>3, <1>4, <1>5, <1>6, <1>7, <1>8, <1>9, <1>10, <1>11, <1>12, <1>13,
     <1>14, Endings
     DEF Next, Work, Receive


LEMMA OnlyOne ==
  ASSUME Unique, NEW d \in Delivery, NEW e \in Delivery, Id(d) = Id(e), Id(d) \notin survivors,
         stage[d] \notin {"none", "over"}, stage[e] \notin {"none", "over"}
  PROVE  d = e
BY DeliveryFacts DEF Unique

(* Steps that change no entry, that make one, and that remove some. *)
LEMMA StaysRegistered ==
  ASSUME Registry, requests' = requests, survivors' = survivors,
         \A d \in Delivery : Listed(d)' <=> Listed(d)
  PROVE  Registry'
BY DEF Registry

LEMMA EntryMade ==
  ASSUME Types, Registry, NEW c \in Delivery, survivors' = survivors,
         requests' = [requests EXCEPT ![Id(c)] = c[2]], Listed(c)',
         \A d \in Delivery \ {c} : Listed(d)' <=> Listed(d),
         \A d \in Delivery \ {c} : Id(d) = Id(c) /\ Id(d) \notin survivors => ~ Listed(d)
  PROVE  Registry'
<1>1. requests'[Id(c)] = N(c) /\ \A t \in Task \ {Id(c)} : requests'[t] = requests[t]
  BY DeliveryFacts DEF Types, N
<1>2. ASSUME NEW d \in Delivery, Id(d) \notin survivors
      PROVE  requests'[Id(d)] = N(d) <=> Listed(d)'
  <2>1. CASE d = c
    BY <1>1, <2>1
  <2>2. CASE d # c /\ Id(d) = Id(c)
    BY <1>1, <1>2, <2>2, DeliveryFacts
  <2>3. CASE Id(d) # Id(c)
    BY <1>1, <1>2, <2>3, DeliveryFacts DEF Registry
  <2>4. QED
    BY <2>1, <2>2, <2>3
<1>3. QED
  BY <1>2 DEF Registry

LEMMA EntriesRemoved ==
  ASSUME Registry, NEW T, requests' = Unlisted(T), survivors \subseteq survivors',
         \A d \in Delivery : Id(d) \notin survivors' =>
           IF Id(d) \in T THEN ~ Listed(d)' ELSE Listed(d)' <=> Listed(d)
  PROVE  Registry'
<1>1. \A t \in Task : requests'[t] = IF t \in T THEN 0 ELSE requests[t]
  BY DEF Unlisted
<1>2. ASSUME NEW d \in Delivery, Id(d) \notin survivors'
      PROVE  requests'[Id(d)] = N(d) <=> Listed(d)'
  <2>1. Id(d) \in Task /\ N(d) # 0 /\ Id(d) \notin survivors
    BY <1>2, DeliveryFacts
  <2>2. CASE Id(d) \in T
    BY <1>1, <1>2, <2>1, <2>2
  <2>3. CASE Id(d) \notin T
    BY <1>1, <1>2, <2>1, <2>3 DEF Registry
  <2>4. QED
    BY <2>2, <2>3
<1>3. QED
  BY <1>2 DEF Registry

(* Nothing is listed under the id of a message in the queue. *)
LEMMA QueuedUnlisted ==
  ASSUME Unique, NEW t \in Task, message[t] = "queued"
  PROVE  \A d \in Delivery : Id(d) = t /\ Id(d) \notin survivors => ~ Listed(d)
BY DEF Unique, Listed


LEMMA RegistryNext ==
  ASSUME Types, Line, Fresh, Debt, Unique, Registry, [Next]_vars
  PROVE  Registry'
<1>1. ASSUME NEW t \in Task, ReceiveRevoked(t)
      PROVE  Registry'
  <2>0. Coming(t) \in Delivery
    BY <1>1, DeliverFacts DEF ReceiveRevoked
  <2> PICK c \in Delivery : c = Coming(t)
    BY <2>0
  <2>1. c \in Delivery /\ Id(c) = t /\ stage[c] = "none" /\ message[t] = "queued"
    BY <1>1, DeliverFacts DEF ReceiveRevoked
  <2>2. /\ requests' = Unlisted({t}) /\ UNCHANGED <<survivors, cancelled>>
        /\ stage' = [stage EXCEPT ![c] = "over"] /\ announced' = announced \cup {c}
    BY <1>1 DEF ReceiveRevoked, bounds, history
  <2>3. ~ Listed(c)' /\ \A d \in Delivery \ {c} : Listed(d)' <=> Listed(d)
    BY <2>1, <2>2 DEF Listed, Types
  <2>4. \A d \in Delivery : Id(d) \notin survivors =>
          IF Id(d) \in {t} THEN ~ Listed(d)' ELSE Listed(d)' <=> Listed(d)
    BY <2>1, <2>3, QueuedUnlisted
  <2>5. QED
    BY <2>2, <2>4, EntriesRemoved
<1>2. ASSUME NEW t \in Task, ReceiveEta(t)
      PROVE  Registry'
  <2>1. Coming(t) \in Delivery /\ stage[Coming(t)] = "none"
    BY <1>2, DeliverFacts DEF ReceiveEta
  <2>2. /\ UNCHANGED <<requests, survivors, cancelled, announced>>
        /\ stage' = [stage EXCEPT ![Coming(t)] = "eta"]
    BY <1>2 DEF ReceiveEta, bounds, history, flags
  <2>3. \A d \in Delivery : Listed(d)' <=> Listed(d)
    BY <2>1, <2>2 DEF Listed, Types
  <2>4. QED
    BY <2>2, <2>3, StaysRegistered
<1>3. ASSUME NEW t \in Task, ReceiveNow(t)
      PROVE  Registry'
  <2>0. Coming(t) \in Delivery
    BY <1>3, DeliverFacts DEF ReceiveNow
  <2> PICK c \in Delivery : c = Coming(t)
    BY <2>0
  <2>1. c \in Delivery /\ Id(c) = t /\ stage[c] = "none" /\ message[t] = "queued"
    BY <1>3, DeliverFacts DEF ReceiveNow
  <2>2. /\ requests' = [requests EXCEPT ![Id(c)] = c[2]]
        /\ stage' = [stage EXCEPT ![c] = IF semaphore > 0 THEN "sent" ELSE "waiting"]
        /\ UNCHANGED <<survivors, cancelled, announced>>
    BY <1>3 DEF ReceiveNow, Reserve, bounds, history, flags
  <2>3. c \notin announced /\ c \notin cancelled
    BY <2>1 DEF Fresh
  <2>4. Listed(c)' /\ \A d \in Delivery \ {c} : Listed(d)' <=> Listed(d)
    BY <2>1, <2>2, <2>3 DEF Listed, Types
  <2>5. \A d \in Delivery \ {c} : Id(d) = Id(c) /\ Id(d) \notin survivors => ~ Listed(d)
    BY <2>1, QueuedUnlisted
  <2>6. QED
    BY <2>1, <2>2, <2>4, <2>5, EntryMade
<1>4. ASSUME NEW d \in Delivery, EtaComes(d)
      PROVE  Registry'
  <2>1. /\ requests' = [requests EXCEPT ![Id(d)] = d[2]] /\ stage[d] = "eta"
        /\ stage' = [stage EXCEPT ![d] = IF semaphore > 0 THEN "sent" ELSE "waiting"]
        /\ UNCHANGED <<survivors, cancelled, announced>>
    BY <1>4 DEF EtaComes, Reserve, bounds, history, flags
  <2>2. d \notin announced /\ d \notin cancelled
    BY <2>1 DEF Fresh
  <2>3. Listed(d)' /\ \A e \in Delivery \ {d} : Listed(e)' <=> Listed(e)
    BY <2>1, <2>2 DEF Listed, Types
  <2>4. \A e \in Delivery \ {d} : Id(e) = Id(d) /\ Id(e) \notin survivors => ~ Listed(e)
    BY <2>1, OnlyOne DEF Listed
  <2>5. QED
    BY <2>1, <2>3, <2>4, EntryMade
<1>5. ASSUME NEW d \in Delivery, EtaComesRevoked(d)
      PROVE  Registry'
  <2>1. /\ requests' = Unlisted(Ids({d})) /\ stage[d] = "eta"
        /\ stage' = [stage EXCEPT ![d] = "over"] /\ announced' = announced \cup {d}
        /\ UNCHANGED <<survivors, cancelled>>
    BY <1>5 DEF EtaComesRevoked, Announce, bounds, history
  <2>2. ~ Listed(d)' /\ \A e \in Delivery \ {d} : Listed(e)' <=> Listed(e)
    BY <2>1 DEF Listed, Types
  <2>3. \A e \in Delivery \ {d} : Id(e) = Id(d) /\ Id(e) \notin survivors => ~ Listed(e)
    BY <2>1, OnlyOne DEF Listed
  <2>4. \A e : Id(e) \in Ids({d}) <=> Id(e) = Id(d)
    BY DEF Ids
  <2>5. QED
    BY <2>1, <2>2, <2>3, <2>4, EntriesRemoved
<1>6. ASSUME NEW d \in Delivery, ChildStarts(d)
      PROVE  Registry'
  <2>1. UNCHANGED <<stage, announced, cancelled, requests, survivors>>
    BY <1>6 DEF ChildStarts, flags, bounds, history
  <2>2. QED
    BY <2>1, StaysRegistered DEF Listed
<1>7. ASSUME NEW d \in Delivery, ChildEnds(d)
      PROVE  Registry'
  <2>1. UNCHANGED <<stage, announced, cancelled, requests, survivors>>
    BY <1>7 DEF ChildEnds, flags, bounds, history
  <2>2. QED
    BY <2>1, StaysRegistered DEF Listed
<1>8. ASSUME NEW d \in Delivery, ChildFails(d)
      PROVE  Registry'
  <2>1. UNCHANGED <<stage, announced, cancelled, requests, survivors>>
    BY <1>8 DEF ChildFails, flags, history
  <2>2. QED
    BY <2>1, StaysRegistered DEF Listed
<1>9. ASSUME NEW d \in Delivery, Accepted(d)
      PROVE  Registry'
  <2>1. /\ stage[d] = "sent" /\ stage' = [stage EXCEPT ![d] = "accepted"]
        /\ UNCHANGED <<survivors, cancelled>>
    BY <1>9 DEF Accepted, bounds, history
  <2>2. d \notin announced /\ d \notin cancelled
    BY <2>1 DEF Fresh
  <2>3. \A e \in Delivery \ {d} : Id(e) = Id(d) /\ Id(e) \notin survivors => ~ Listed(e)
    BY <2>1, OnlyOne DEF Listed
  <2>4. CASE d \in terminating
    <3>1. requests' = Unlisted(Ids({d})) /\ announced' = announced \cup {d}
      BY <1>9, <2>4 DEF Accepted, Announce
    <3>2. ~ Listed(d)' /\ \A e \in Delivery \ {d} : Listed(e)' <=> Listed(e)
      BY <2>1, <3>1 DEF Listed, Types
    <3>3. \A e : Id(e) \in Ids({d}) <=> Id(e) = Id(d)
      BY DEF Ids
    <3>4. QED
      BY <2>1, <2>3, <3>1, <3>2, <3>3, EntriesRemoved
  <2>5. CASE d \notin terminating
    <3>1. requests' = [requests EXCEPT ![Id(d)] = d[2]] /\ announced' = announced
      BY <1>9, <2>5 DEF Accepted
    <3>2. Listed(d)' /\ \A e \in Delivery \ {d} : Listed(e)' <=> Listed(e)
      BY <2>1, <2>2, <3>1 DEF Listed, Types
    <3>3. QED
      BY <2>1, <2>3, <3>1, <3>2, EntryMade
  <2>6. QED
    BY <2>4, <2>5
<1>10. ASSUME NEW d \in Delivery, NEW how, NEW s, Ending(d, how, s)
      PROVE  Registry'
  <2> DEFINE quits == Passed \cup {d}
  <2>1. /\ requests' = Unlisted(Ids(quits)) /\ UNCHANGED <<survivors, cancelled>>
        /\ announced \subseteq announced' /\ announced' \subseteq announced \cup quits
    BY <1>10 DEF Ending, JobOver
  <2>2. /\ \A e \in quits : e \in Delivery /\ stage[e] \in {"waiting", "accepted"}
        /\ \A e \in Taken : stage[e] = "waiting"
        /\ \A e \in Delivery : stage'[e] = IF e \in quits THEN "over"
                                           ELSE IF e \in Taken THEN "sent" ELSE stage[e]
    BY <1>10, EndingFacts, ReleaseFacts DEF In
  <2> HIDE DEF quits
  <2>3. \A e \in quits : ~ Listed(e)'
    BY <2>2 DEF Listed
  <2>4. \A e \in Delivery \ quits : Listed(e)' <=> Listed(e)
    BY <2>1, <2>2 DEF Listed
  <2>5. ASSUME NEW e \in Delivery, Id(e) \notin survivors, Id(e) \in Ids(quits)
        PROVE  ~ Listed(e)'
    <3>1. PICK q \in quits : Id(q) = Id(e)
      BY <2>5 DEF Ids
    <3>2. Listed(e) => e = q
      BY <2>2, <2>5, <3>1, OnlyOne DEF Listed
    <3>3. QED
      BY <2>3, <2>4, <3>2
  <2>6. \A e \in quits : Id(e) \in Ids(quits)
    BY DEF Ids
  <2>7. QED
    BY <2>1, <2>4, <2>5, <2>6, EntriesRemoved
<1>11. ASSUME NEW f \in frames, SendFrame(f)
      PROVE  Registry'
  <2>1. UNCHANGED <<stage, announced, cancelled, requests, survivors>>
    BY <1>11 DEF SendFrame, flags, bounds, history
  <2>2. QED
    BY <2>1, StaysRegistered DEF Listed
<1>12. ASSUME NEW t \in Task, NEW terminate \in BOOLEAN, Revoke(t, terminate)
      PROVE  Registry'
  <2>1. UNCHANGED <<stage, cancelled, survivors>>
    BY <1>12 DEF Revoke, Announce, flags, history
  <2>2. CASE UNCHANGED <<requests, announced>>
    BY <2>1, <2>2, StaysRegistered DEF Listed
  <2>3. CASE /\ requests[t] # 0 /\ stage[<<t, requests[t]>>] = "accepted"
            /\ Announce({<<t, requests[t]>>})
    <3>0. <<t, requests[t]>> \in Delivery /\ Id(<<t, requests[t]>>) = t
      BY <2>3, DeliveryFacts DEF Types
    <3> PICK r \in Delivery : r = <<t, requests[t]>>
      BY <3>0
    <3>1. r \in Delivery /\ Id(r) = t /\ stage[r] = "accepted"
      BY <2>3, <3>0
    <3>2. requests' = Unlisted(Ids({r})) /\ announced' = announced \cup {r}
      BY <2>3 DEF Announce
    <3>3. ~ Listed(r)' /\ \A e \in Delivery \ {r} : Listed(e)' <=> Listed(e)
      BY <2>1, <3>2 DEF Listed
    <3>4. \A e \in Delivery \ {r} : Id(e) = Id(r) /\ Id(e) \notin survivors => ~ Listed(e)
      BY <3>1, OnlyOne DEF Listed
    <3>5. \A e : Id(e) \in Ids({r}) <=> Id(e) = Id(r)
      BY DEF Ids
    <3>6. QED
      BY <2>1, <3>1, <3>2, <3>3, <3>4, <3>5, EntriesRemoved
  <2>4. QED
    BY <1>12, <2>2, <2>3 DEF Revoke, flags, history
<1>13. CASE ConnectionLost
  <2> DEFINE T == Ids(Doomed) \cup Ids(In("waiting") \cup In("sent"))
  <2>1. /\ survivors' = survivors \cup Ids(In("accepted")) /\ requests' = Unlisted(T)
        /\ \A d \in Delivery : stage'[d] = IF d \in GivenUp THEN "over" ELSE stage[d]
    BY <1>13, LossFacts
  <2>2. ASSUME NEW d \in Delivery, Id(d) \notin survivors'
        PROVE  ~ Listed(d)' /\ (Listed(d) => Id(d) \in T)
    <3>1. stage[d] # "accepted"
      BY <2>1, <2>2 DEF In, Ids
    <3>2. stage'[d] \notin {"waiting", "sent", "accepted"}
      BY <2>1, <3>1 DEF GivenUp, In
    <3>3. stage[d] \in {"waiting", "sent"} => Id(d) \in T
      BY DEF In, Ids
    <3>4. QED
      BY <3>1, <3>2, <3>3 DEF Listed
  <2> HIDE DEF T
  <2>3. QED
    BY <2>1, <2>2, EntriesRemoved
<1>14. CASE UNCHANGED vars
  <2>1. UNCHANGED <<stage, announced, cancelled, requests, survivors>>
    BY <1>14 DEF vars, flags, bounds, history
  <2>2. QED
    BY <2>1, StaysRegistered DEF Listed
<1>15. QED
  BY <1>1, <1>2, <1>3, <1>4, <1>5, <1>6, <1>7, <1>8, <1>9, <1>10, <1>11, <1>12, <1>13,
     <1>14, Endings
     DEF Next, Work, Receive


(* A step after which what was final is final, and which forgets no        *)
(* message but of a task that is final or goes on early acknowledged, and  *)
(* ends no delivery early acknowledged whose task is not final, or asked   *)
(* in vain to be queued again.                                             *)
LEMMA NothingMoreLost ==
  ASSUME NothingLost, conf' = conf, unheeded \subseteq unheeded',
         \A t \in Task : backend[t] \in Final => backend'[t] \in Final,
         \A d \in Delivery :
           stage[d] = "accepted" => \/ stage'[d] = "accepted"
                                    \/ conf.late \/ backend'[Id(d)] \in Final
                                    \/ Id(d) \in unheeded',
         \A t \in Task : Forgotten(t)' =>
           \/ Forgotten(t) \/ backend'[t] \in Final
           \/ ~ conf.late /\ \E d \in Delivery : stage'[d] = "accepted" /\ Id(d) = t
  PROVE  NothingLost'
<1>1. SUFFICES ASSUME NEW t \in Task, Forgotten(t)', backend'[t] \notin Final,
                      t \notin unheeded'
               PROVE  ~ conf.late /\ \E d \in Delivery : stage'[d] = "accepted" /\ Id(d) = t
  <2>1. SUFFICES ASSUME NEW t \in Task, Forgotten(t)', backend'[t] \notin Final,
                        ~ conf.late => t \notin unheeded'
                 PROVE  ~ conf.late /\ \E d \in Delivery : stage'[d] = "accepted" /\ Id(d) = t
    BY DEF NothingLost, In, Final, Abandoned
  <2>2. CASE conf.late
    BY <2>1, <2>2 DEF NothingLost, Abandoned
  <2>3. CASE ~ conf.late
    BY <2>1, <2>3
  <2>4. QED
    BY <2>2, <2>3
<1>2. CASE Forgotten(t)
  <2>1. backend[t] \notin Final /\ t \notin unheeded
    BY <1>1
  <2>2. ~ conf.late /\ \E d \in Delivery : stage[d] = "accepted" /\ Id(d) = t
    BY <1>2, <2>1 DEF NothingLost, Abandoned, In
  <2>3. QED
    BY <1>1, <2>2
<1>3. CASE ~ Forgotten(t)
  BY <1>1, <1>3
<1>4. QED
  BY <1>2, <1>3

(* What is forgotten is the message of a request with a frame. *)
LEMMA NewlyForgotten ==
  ASSUME Types, NEW t \in Task, Forgotten(t)',
         \A u \in Task : message'[u] = "gone" => message[u] = "gone"
  PROVE  Forgotten(t) \/ \E f \in frames' \ frames : Id(f.delivery) = t /\ f.how # "requeue"
BY DEF Forgotten


LEMMA NothingLostNext ==
  ASSUME Types, Line, Fresh, Broker, Debt, Kept, NothingLost, [Next]_vars
  PROVE  NothingLost'
<1>1. ASSUME NEW t \in Task, ReceiveRevoked(t)
      PROVE  NothingLost'
  <2> DEFINE c == Coming(t)
  <2>1. /\ c \in Delivery /\ Id(c) = t /\ stage[c] = "none" /\ message'[t] = "out"
        /\ \A u \in Task \ {t} : message'[u] = message[u]
    BY <1>1, DeliverFacts DEF ReceiveRevoked
  <2>2. /\ UNCHANGED <<conf, unheeded>> /\ Store({t}, "REVOKED")
        /\ frames' = frames \cup {[delivery |-> c, how |-> "ack"]}
        /\ stage' = [stage EXCEPT ![c] = "over"]
    BY <1>1 DEF ReceiveRevoked, bounds, history
  <2> HIDE DEF c
  <2>3. \A d \in Delivery : stage[d] = "accepted" => stage'[d] = "accepted"
    BY <2>1, <2>2 DEF Types
  <2>4. /\ \A u \in Task : backend[u] \in Final => backend'[u] \in Final
        /\ backend'[t] \in Final
    BY <2>2, StoreFacts
  <2>5. \A u \in Task \ {t} : Forgotten(u)' => Forgotten(u)
    BY <2>1, <2>2 DEF Forgotten
  <2>6. QED
    BY <2>2, <2>3, <2>4, <2>5, NothingMoreLost
<1>2. ASSUME NEW t \in Task, ReceiveEta(t)
      PROVE  NothingLost'
  <2> DEFINE c == Coming(t)
  <2>1. /\ c \in Delivery /\ Id(c) = t /\ stage[c] = "none" /\ message'[t] = "out"
        /\ \A u \in Task \ {t} : message'[u] = message[u]
    BY <1>2, DeliverFacts DEF ReceiveEta
  <2>2. /\ UNCHANGED <<conf, unheeded, backend, frames>>
        /\ stage' = [stage EXCEPT ![c] = "eta"]
    BY <1>2 DEF ReceiveEta, bounds, history, flags
  <2> HIDE DEF c
  <2>3. \A d \in Delivery : stage[d] = "accepted" => stage'[d] = "accepted"
    BY <2>1, <2>2 DEF Types
  <2>4. \A u \in Task : Forgotten(u)' => Forgotten(u)
    BY <2>1, <2>2 DEF Forgotten
  <2>5. QED
    BY <2>2, <2>3, <2>4, NothingMoreLost
<1>3. ASSUME NEW t \in Task, ReceiveNow(t)
      PROVE  NothingLost'
  <2> DEFINE c == Coming(t)
  <2>1. /\ c \in Delivery /\ Id(c) = t /\ stage[c] = "none" /\ message'[t] = "out"
        /\ \A u \in Task \ {t} : message'[u] = message[u]
    BY <1>3, DeliverFacts DEF ReceiveNow
  <2>2. /\ UNCHANGED <<conf, unheeded, backend, frames>>
        /\ stage' = [stage EXCEPT ![c] = IF semaphore > 0 THEN "sent" ELSE "waiting"]
    BY <1>3 DEF ReceiveNow, bounds, history, flags, Reserve
  <2> HIDE DEF c
  <2>3. \A d \in Delivery : stage[d] = "accepted" => stage'[d] = "accepted"
    BY <2>1, <2>2 DEF Types
  <2>4. \A u \in Task : Forgotten(u)' => Forgotten(u)
    BY <2>1, <2>2 DEF Forgotten
  <2>5. QED
    BY <2>2, <2>3, <2>4, NothingMoreLost
<1>4. ASSUME NEW d \in Delivery, EtaComes(d)
      PROVE  NothingLost'
  <2>1. UNCHANGED <<message, frames, conf, unheeded, backend>> /\ stage[d] = "eta"
        /\ stage' = [stage EXCEPT ![d] = IF semaphore > 0 THEN "sent" ELSE "waiting"]
    BY <1>4 DEF EtaComes, Reserve, bounds, history
  <2>2. \A e \in Delivery : stage[e] = "accepted" => stage'[e] = "accepted"
    BY <2>1 DEF Types
  <2>3. \A u \in Task : Forgotten(u)' => Forgotten(u)
    BY <2>1 DEF Forgotten
  <2>4. QED
    BY <2>1, <2>2, <2>3, NothingMoreLost
<1>5. ASSUME NEW d \in Delivery, EtaComesRevoked(d)
      PROVE  NothingLost'
  <2>1. /\ UNCHANGED <<message, conf, unheeded>> /\ stage[d] = "eta"
        /\ Settle({d}, "ack") /\ Store(Ids({d}), "REVOKED")
        /\ stage' = [stage EXCEPT ![d] = "over"]
    BY <1>5 DEF EtaComesRevoked, Announce, bounds, history
  <2>2. \A e \in Delivery : stage[e] = "accepted" => stage'[e] = "accepted"
    BY <2>1 DEF Types
  <2>3. Id(d) \in Ids({d}) /\ Id(d) \in Task
    BY DeliveryFacts DEF Ids
  <2>4. /\ \A u \in Task : backend[u] \in Final => backend'[u] \in Final
        /\ backend'[Id(d)] \in Final
    BY <2>1, <2>3, StoreFacts
  <2>5. \A f \in frames' : f \in frames \/ f.delivery = d
    BY <2>1, SettleFrames
  <2>6. \A u \in Task : Forgotten(u)' => Forgotten(u) \/ u = Id(d)
    BY <2>1, <2>5, NewlyForgotten
  <2>7. QED
    BY <2>1, <2>2, <2>4, <2>6, NothingMoreLost
<1>6. ASSUME NEW d \in Delivery, ChildStarts(d)
      PROVE  NothingLost'
  <2>1. UNCHANGED <<stage, message, frames, conf, unheeded>>
    BY <1>6 DEF ChildStarts, flags, bounds, history
  <2>2. \A u \in Task : backend[u] \in Final => backend'[u] \in Final
    BY <1>6 DEF ChildStarts
  <2>3. \A u \in Task : Forgotten(u)' => Forgotten(u)
    BY <2>1 DEF Forgotten
  <2>4. QED
    BY <2>1, <2>2, <2>3, NothingMoreLost
<1>7. ASSUME NEW d \in Delivery, ChildEnds(d)
      PROVE  NothingLost'
  <2>1. UNCHANGED <<stage, message, frames, conf, unheeded>>
    BY <1>7 DEF ChildEnds, flags, bounds, history
  <2>2. \A u \in Task : backend[u] \in Final => backend'[u] \in Final
    BY <1>7, StoreFacts DEF ChildEnds
  <2>3. \A u \in Task : Forgotten(u)' => Forgotten(u)
    BY <2>1 DEF Forgotten
  <2>4. QED
    BY <2>1, <2>2, <2>3, NothingMoreLost
<1>8. ASSUME NEW d \in Delivery, ChildFails(d)
      PROVE  NothingLost'
  <2>1. UNCHANGED <<stage, message, frames, conf, unheeded>>
    BY <1>8 DEF ChildFails, flags, history
  <2>2. \A u \in Task : backend[u] \in Final => backend'[u] \in Final
    BY <1>8 DEF ChildFails, history
  <2>3. \A u \in Task : Forgotten(u)' => Forgotten(u)
    BY <2>1 DEF Forgotten
  <2>4. QED
    BY <2>1, <2>2, <2>3, NothingMoreLost
<1>9. ASSUME NEW d \in Delivery, Accepted(d)
      PROVE  NothingLost'
  <2>1. /\ UNCHANGED <<message, conf, unheeded>> /\ stage' = [stage EXCEPT ![d] = "accepted"]
    BY <1>9 DEF Accepted, bounds, history
  <2>2. \A e \in Delivery : stage[e] = "accepted" \/ e = d => stage'[e] = "accepted"
    BY <2>1 DEF Types
  <2>3. CASE d \in terminating
    <3>1. Settle({d}, "ack") /\ Store(Ids({d}), "REVOKED")
      BY <1>9, <2>3 DEF Accepted, Announce
    <3>2. Id(d) \in Ids({d}) /\ Id(d) \in Task
      BY DeliveryFacts DEF Ids
    <3>3. /\ \A u \in Task : backend[u] \in Final => backend'[u] \in Final
          /\ backend'[Id(d)] \in Final
      BY <3>1, <3>2, StoreFacts
    <3>4. \A f \in frames' : f \in frames \/ f.delivery = d
      BY <3>1, SettleFrames
    <3>5. \A u \in Task : Forgotten(u)' => Forgotten(u) \/ u = Id(d)
      BY <2>1, <3>4, NewlyForgotten
    <3>6. QED
      BY <2>1, <2>2, <3>3, <3>5, NothingMoreLost
  <2>4. CASE d \notin terminating
    <3>1. backend' = backend
      BY <1>9, <2>4 DEF Accepted
    <3>2. CASE conf.late
      <4>1. frames' = frames
        BY <1>9, <2>4, <3>2 DEF Accepted
      <4>2. \A u \in Task : Forgotten(u)' => Forgotten(u)
        BY <2>1, <4>1 DEF Forgotten
      <4>3. QED
        BY <2>1, <2>2, <3>1, <4>2, NothingMoreLost
    <3>3. CASE ~ conf.late
      <4>1. Settle({d}, "ack")
        BY <1>9, <2>4, <3>3 DEF Accepted
      <4>2. \A f \in frames' : f \in frames \/ f.delivery = d
        BY <4>1, SettleFrames
      <4>3. \A u \in Task : Forgotten(u)' => Forgotten(u) \/ u = Id(d)
        BY <2>1, <4>2, NewlyForgotten
      <4>4. QED
        BY <2>1, <2>2, <3>1, <3>3, <4>3, NothingMoreLost
    <3>4. QED
      BY <3>2, <3>3
  <2>5. QED
    BY <2>3, <2>4
<1>10. ASSUME NEW d \in Delivery, NEW how, NEW s, Ending(d, how, s)
      PROVE  NothingLost'
  <2> DEFINE asked == IF how = "nothing" THEN {} ELSE {d}
  <2>1. /\ UNCHANGED <<message, conf>>
        /\ frames' = Frames(Passed, "ack", asked, how)
    BY <1>10, Zenon DEF Ending, JobOver, Frames
  <2>2. Passed \cap asked = {} /\ asked \subseteq {d}
    BY <1>10, EndingFacts
  <2> HIDE DEF asked
  <2>3. \A f \in Frames(Passed, "ack", asked, how) :
           \/ f \in frames
           \/ /\ f.delivery \in live /\ f.delivery \notin acknowledged
              /\ \/ f.delivery \in Passed /\ f.how = "ack"
                 \/ f.delivery \in asked /\ f.how = how
    BY <2>2, FramesAdded
  <2>4. \A u \in Task : backend[u] \in Final => backend'[u] \in Final
    BY <1>10, EndingStores
  <2>5. /\ s # "nothing" => backend'[Id(d)] \in Final
        /\ \A e \in Passed : backend'[Id(e)] \in Final
    <3>1. \A e \in Passed : Id(e) \in Ids(Passed) /\ Id(e) \in Task
      BY DeliveryFacts, ReleaseFacts DEF Ids, In
    <3>2. Id(d) \in Task
      BY DeliveryFacts
    <3>3. QED
      BY <1>10, <3>1, <3>2, EndingStores
  <2>6. /\ child[d] = "success" => backend'[Id(d)] \in Final
        /\ child[d] = "failure" /\ (d \in live \/ ~ conf.late) => backend'[Id(d)] \in Final
    <3>1. "SUCCESS" \in Final /\ Id(d) \in Task
      BY DeliveryFacts DEF Final
    <3>2. QED
      BY <2>4, <3>1 DEF Kept
  <2>7. /\ unheeded \subseteq unheeded'
        /\ ~ conf.late => backend'[Id(d)] \in Final \/ Id(d) \in unheeded'
    <3>1. ~ conf.late => \/ s # "nothing" \/ child[d] \in {"success", "failure"}
                         \/ how = "requeue" \/ d \in cancelled \/ d \in announced
      BY <1>10 DEF Ending
    <3>2. ~ conf.late => /\ d \in acknowledged /\ d \notin cancelled
                         /\ d \in announced => backend[Id(d)] \in Final
      BY <1>10 DEF Kept, Ending
    <3>3. /\ unheeded \subseteq unheeded'
          /\ how = "requeue" /\ d \in acknowledged => Id(d) \in unheeded'
      BY <1>10 DEF Ending, JobOver
    <3>4. Id(d) \in Task
      BY DeliveryFacts
    <3>5. QED
      BY <2>4, <2>5, <2>6, <3>1, <3>2, <3>3, <3>4
  <2>8. ASSUME NEW f \in frames' \ frames, f.how # "requeue"
        PROVE  backend'[Id(f.delivery)] \in Final
    <3>1. CASE f.delivery \in Passed
      BY <2>5, <3>1
    <3>2. CASE f.delivery \notin Passed
      <4>1. f.delivery = d /\ d \in live /\ f.how = how /\ how # "nothing"
        <5>1. f.delivery \in asked /\ f.delivery \in live /\ f.how = how
          BY <2>1, <2>3, <2>8, <3>2
        <5>2. QED
          BY <5>1 DEF asked
      <4>2. s # "nothing" \/ child[d] \in {"success", "failure"}
        BY <1>10, <2>8, <4>1 DEF Ending
      <4>3. QED
        BY <2>5, <2>6, <4>1, <4>2
    <3>3. QED
      BY <3>1, <3>2
  <2>9. \A u \in Task : Forgotten(u)' => Forgotten(u) \/ backend'[u] \in Final
    BY <2>1, <2>8, NewlyForgotten
  <2>10. \A e \in Delivery :
           stage[e] = "accepted" => stage'[e] = "accepted" \/ e = d
    BY <1>10, EndingFacts, ReleaseFacts DEF In
  <2>11. QED
    BY <2>1, <2>4, <2>7, <2>9, <2>10, NothingMoreLost
<1>11. ASSUME NEW f \in frames, SendFrame(f)
      PROVE  NothingLost'
  <2>1. /\ UNCHANGED <<stage, conf, unheeded, backend>> /\ frames' = frames \ {f}
        /\ message' = [message EXCEPT ![Id(f.delivery)] =
                        IF f.how = "requeue" THEN "queued" ELSE "gone"]
    BY <1>11 DEF SendFrame, bounds, history
  <2>2. \A u \in Task : Forgotten(u)' => Forgotten(u)
    BY <2>1 DEF Forgotten, Types
  <2>3. QED
    BY <2>1, <2>2, NothingMoreLost
<1>12. ASSUME NEW t \in Task, NEW terminate \in BOOLEAN, Revoke(t, terminate)
      PROVE  NothingLost'
  <2>1. UNCHANGED <<message, stage, conf, unheeded>>
    BY <1>12 DEF Revoke, history
  <2>2. CASE Store({t}, "REVOKED") /\ frames' = frames
    <3>1. \A u \in Task : Forgotten(u)' => Forgotten(u)
      BY <2>1, <2>2 DEF Forgotten
    <3>2. QED
      BY <2>1, <2>2, <3>1, StoreFacts, NothingMoreLost
  <2>3. CASE Announce({<<t, requests[t]>>})
    <3> DEFINE r == <<t, requests[t]>>
    <3>1. Settle({r}, "ack") /\ Store(Ids({r}), "REVOKED")
      BY <2>3 DEF Announce
    <3>2. Id(r) = t /\ Id(r) \in Ids({r})
      BY DEF Id, Ids
    <3> HIDE DEF r
    <3>3. /\ \A u \in Task : backend[u] \in Final => backend'[u] \in Final
          /\ backend'[t] \in Final
      BY <3>1, <3>2, StoreFacts
    <3>4. \A f \in frames' : f \in frames \/ f.delivery = r
      BY <3>1, SettleFrames
    <3>5. \A u \in Task : Forgotten(u)' => Forgotten(u) \/ u = t
      BY <2>1, <3>2, <3>4, NewlyForgotten
    <3>6. QED
      BY <2>1, <3>3, <3>5, NothingMoreLost
  <2>4. QED
    BY <1>12, <2>2, <2>3 DEF Revoke, flags, history
<1>13. CASE ConnectionLost
  <2>1. /\ frames' = {} /\ UNCHANGED <<conf, unheeded>> /\ Store(Ids(Doomed), "RETRY")
        /\ message' = [t \in Task |-> IF message[t] = "out" THEN "queued" ELSE message[t]]
        /\ stage' = [d \in Delivery |-> IF d \in GivenUp THEN "over" ELSE stage[d]]
    BY <1>13, LossFacts
  <2>2. \A d \in Delivery : stage[d] = "accepted" => stage'[d] = "accepted"
    BY <2>1 DEF GivenUp, In
  <2>3. \A t \in Task : t \notin Ids(Doomed) => backend'[t] = backend[t]
    BY <2>1, StoreFacts
  <2>4. ASSUME NEW t \in Task, Forgotten(t)'
        PROVE  message[t] = "gone" /\ backend'[t] = backend[t]
    <3>1. message[t] = "gone"
      BY <2>1, <2>4 DEF Forgotten
    <3>2. ASSUME NEW d \in Doomed PROVE Id(d) # t
      <4>1. /\ conf.late /\ conf.cancel /\ d \in Delivery /\ stage[d] = "accepted"
            /\ d \notin announced /\ d \notin cancelled /\ d \notin acknowledged
        BY DEF Doomed, Active, In
      <4>2. d \in live
        BY <4>1 DEF Kept
      <4>3. QED
        BY <3>1, <4>1, <4>2 DEF Broker, Latest
    <3>3. t \notin Ids(Doomed)
      BY <3>2 DEF Ids
    <3>4. QED
      BY <2>3, <3>1, <3>3
  <2>5. QED
    BY <2>1, <2>2, <2>4 DEF NothingLost, Abandoned, Forgotten, In
<1>14. CASE UNCHANGED vars
  <2>1. UNCHANGED <<stage, message, frames, conf, unheeded>>
    BY <1>14 DEF vars, flags, bounds, history
  <2>2. \A u \in Task : backend[u] \in Final => backend'[u] \in Final
    BY <1>14 DEF vars
  <2>3. \A u \in Task : Forgotten(u)' => Forgotten(u)
    BY <2>1 DEF Forgotten
  <2>4. QED
    BY <2>1, <2>2, <2>3, NothingMoreLost
<1>15. QED
  BY <1>1, <1>2, <1>3, <1>4, <1>5, <1>6, <1>7, <1>8, <1>9, <1>10, <1>11, <1>12, <1>13,
     <1>14, Endings
     DEF Next, Work, Receive


-----------------------------------------------------------------------------
LEMMA InitIInv == Init => IInv
<1> SUFFICES ASSUME Init PROVE IInv
  OBVIOUS
<1>1. Types
  BY DeliveryFacts DEF Init, Types, Stages, Children
<1>2. Line
  <2>1. In("waiting") = {} /\ In("accepted") = {}
    BY DEF Init, In
  <2>2. waiters \in Seq(Delivery) /\ IsInjective(waiters) /\ Range(waiters) = {}
    BY DEF Init, IsInjective, Range
  <2>3. semaphore \in 0 .. Procs /\ limited = {} /\ waiters = <<>>
    BY DeliveryFacts DEF Init
  <2>4. QED
    BY <2>1, <2>2, <2>3 DEF Line
<1>3. Fresh
  <2>1. \A d \in Delivery : N(d) > count[Id(d)]
    BY DeliveryFacts DEF Init
  <2>2. QED
    BY <2>1 DEF Init, Fresh
<1>4. Broker /\ Unique
  BY DEF Init, Broker, Unique
<1>5. Debt
  BY DEF Init, Debt, Owes
<1>6. Kept
  BY DEF Init, Kept
<1>7. Registry
  BY DeliveryFacts DEF Init, Registry, Listed
<1>8. NothingLost
  BY DEF Init, NothingLost, Forgotten
<1>9. QED
  BY <1>1, <1>2, <1>3, <1>4, <1>5, <1>6, <1>7, <1>8 DEF IInv

LEMMA NextIInv == IInv /\ [Next]_vars => IInv'
<1> SUFFICES ASSUME IInv, [Next]_vars PROVE IInv'
  OBVIOUS
<1>1. Types /\ Line /\ Fresh /\ Broker /\ Debt /\ Kept /\ Unique /\ Registry /\ NothingLost
  BY DEF IInv
<1>2. Types' /\ Line' /\ Fresh' /\ Broker' /\ Debt'
  BY <1>1, TypesNext, LineNext, FreshNext, BrokerNext, DebtNext
<1>3. Kept' /\ Unique' /\ Registry' /\ NothingLost'
  BY <1>1, KeptNext, UniqueNext, RegistryNext, NothingLostNext
<1>4. QED
  BY <1>2, <1>3 DEF IInv

(* The inductive invariant: what is true of a delivery before the pool     *)
(* accepts it, of the answers on their way to the broker, of what the      *)
(* backend holds, of the entries of state.requests, that every delivery    *)
(* after the first was paid for by a mishap, and that nothing is lost but  *)
(* what asked in vain to be queued again.                                  *)
THEOREM InvariantTheorem == Spec => []IInv
BY InitIInv, NextIInv, PTL DEF Spec

LEMMA TypesGiveTypeOK == IInv => TypeOK
<1> SUFFICES ASSUME IInv PROVE TypeOK
  OBVIOUS
<1>1. Types /\ Line /\ Broker /\ Debt
  BY DEF IInv
<1>2. count \in [Task -> 0 .. MaxMishaps + 1]
  <2>1. \A t \in Task : count[t] \in Nat /\ count[t] <= mishaps + 1
    BY <1>1 DEF Types, Debt
  <2>2. mishaps \in 0 .. MaxMishaps
    BY <1>1 DEF Types
  <2>3. \A t \in Task : count[t] \in 0 .. MaxMishaps + 1
    BY <2>1, <2>2, DeliveryFacts
  <2>4. QED
    BY <1>1, <2>3 DEF Types
<1>3. frames \subseteq [delivery : live, how : {"ack", "reject", "requeue"}]
  BY <1>1 DEF Types, Broker
<1>4. Len(waiters) = Cardinality(In("waiting"))
  <2>1. Cardinality(Range(waiters)) = Len(waiters)
    BY <1>1, RangeCardinality DEF Line
  <2>2. QED
    BY <1>1, <2>1 DEF Line
<1>5. {waiters[i] : i \in DOMAIN waiters} = In("waiting")
  BY <1>1 DEF Line, Range
<1>6. QED
  BY <1>1, <1>2, <1>3, <1>4, <1>5 DEF TypeOK, Types, Line

(* The variables keep their types: a task is delivered at most once more   *)
(* than there were mishaps, only what this connection delivered is settled *)
(* on it, who waits for a place in the pool waits once, in the line, and   *)
(* nobody waits while a place is free (worker/request.py,                  *)
(* concurrency/asynpool.py, LaxBoundedSemaphore).                          *)
THEOREM TypeCorrect == Spec => []TypeOK
BY InvariantTheorem, TypesGiveTypeOK, PTL

(* No task is lost, whatever dies, hangs, rejects, is revoked or is        *)
(* disconnected (worker/request.py): when the broker forgets its message   *)
(* the backend holds a final state, or the task acknowledges early and one *)
(* of its deliveries is accepted and not over, or asked to be queued again *)
(* after it was acknowledged, which the code ignores.                      *)
THEOREM NothingIsLost == Spec => []NothingLost
<1>1. IInv => NothingLost
  BY DEF IInv
<1>2. QED
  BY <1>1, InvariantTheorem, PTL

(* state.requests lists exactly what is reserved or active, for the tasks  *)
(* that no lost connection made run twice (worker/state.py, request.py).   *)
THEOREM RegistryTheorem == Spec => []RegistryExact
<1>1. IInv => RegistryExact
  <2> SUFFICES ASSUME IInv, NEW t \in Task \ survivors, NEW n \in 1 .. MaxMishaps + 1
               PROVE  requests[t] = n <=> <<t, n>> \in
                        (In("waiting") \cup In("sent") \cup In("accepted"))
                          \ (announced \cup cancelled)
    BY DEF RegistryExact
  <2>1. <<t, n>> \in Delivery /\ Id(<<t, n>>) = t /\ N(<<t, n>>) = n
    BY DeliveryFacts
  <2>2. requests[t] = n <=> Listed(<<t, n>>)
    BY <2>1 DEF IInv, Registry
  <2>3. QED
    BY <2>1, <2>2 DEF Listed, In
<1>2. QED
  BY <1>1, InvariantTheorem, PTL

-----------------------------------------------------------------------------
(* Who is settled by a step was not before and, acknowledging late, is     *)
(* done.                                                                   *)
SettledNow ==
  \A f \in frames' \ frames :
    /\ f.delivery \notin acknowledged
    /\ conf.late => stage'[f.delivery] = "over" \/ f.delivery \in announced'


LEMMA SettledStep ==
  ASSUME Types, Line, Fresh, Broker, Debt, [Next]_vars
  PROVE  SettledNow
<1>1. ASSUME NEW t \in Task, ReceiveRevoked(t)
      PROVE  SettledNow
  <2> DEFINE c == Coming(t)
  <2>1. c \in Delivery /\ stage[c] = "none"
    BY <1>1, DeliverFacts DEF ReceiveRevoked
  <2>2. /\ frames' = frames \cup {[delivery |-> c, how |-> "ack"]}
        /\ announced' = announced \cup {c}
    BY <1>1 DEF ReceiveRevoked
  <2> HIDE DEF c
  <2>3. c \notin acknowledged
    BY <2>1 DEF Fresh
  <2>4. QED
    BY <2>2, <2>3 DEF SettledNow
<1>2. ASSUME NEW t \in Task, ReceiveEta(t)
      PROVE  SettledNow
  <2>1. frames' \subseteq frames
    BY <1>2 DEF ReceiveEta, flags
  <2>2. QED
    BY <2>1 DEF SettledNow
<1>3. ASSUME NEW t \in Task, ReceiveNow(t)
      PROVE  SettledNow
  <2>1. frames' \subseteq frames
    BY <1>3 DEF ReceiveNow, flags
  <2>2. QED
    BY <2>1 DEF SettledNow
<1>4. ASSUME NEW d \in Delivery, EtaComes(d)
      PROVE  SettledNow
  <2>1. frames' \subseteq frames
    BY <1>4 DEF EtaComes, flags
  <2>2. QED
    BY <2>1 DEF SettledNow
<1>5. ASSUME NEW d \in Delivery, EtaComesRevoked(d)
      PROVE  SettledNow
  <2>1. Settle({d}, "ack") /\ announced' = announced \cup {d}
    BY <1>5 DEF EtaComesRevoked, Announce
  <2>2. QED
    BY <2>1, SettleFrames DEF SettledNow
<1>6. ASSUME NEW d \in Delivery, ChildStarts(d)
      PROVE  SettledNow
  <2>1. frames' \subseteq frames
    BY <1>6 DEF ChildStarts, flags
  <2>2. QED
    BY <2>1 DEF SettledNow
<1>7. ASSUME NEW d \in Delivery, ChildEnds(d)
      PROVE  SettledNow
  <2>1. frames' \subseteq frames
    BY <1>7 DEF ChildEnds, flags
  <2>2. QED
    BY <2>1 DEF SettledNow
<1>8. ASSUME NEW d \in Delivery, ChildFails(d)
      PROVE  SettledNow
  <2>1. frames' \subseteq frames
    BY <1>8 DEF ChildFails, flags, history
  <2>2. QED
    BY <2>1 DEF SettledNow
<1>9. ASSUME NEW d \in Delivery, Accepted(d)
      PROVE  SettledNow
  <2>1. CASE Announce({d})
    BY <2>1, SettleFrames DEF SettledNow, Announce
  <2>2. CASE ~ conf.late /\ Settle({d}, "ack")
    BY <2>2, SettleFrames DEF SettledNow
  <2>3. CASE frames' = frames
    BY <2>3 DEF SettledNow
  <2>4. QED
    BY <1>9, <2>1, <2>2, <2>3 DEF Accepted
<1>10. ASSUME NEW d \in Delivery, NEW how, NEW s, Ending(d, how, s)
      PROVE  SettledNow
  <2> DEFINE asked == IF how = "nothing" THEN {} ELSE {d}
  <2>1. frames' = Frames(Passed, "ack", asked, how)
    BY <1>10, Zenon DEF Ending, JobOver, Frames
  <2>2. Passed \cap asked = {} /\ asked \subseteq {d}
    BY <1>10, EndingFacts
  <2> HIDE DEF asked
  <2>3. \A f \in Frames(Passed, "ack", asked, how) :
           \/ f \in frames
           \/ /\ f.delivery \in live /\ f.delivery \notin acknowledged
              /\ \/ f.delivery \in Passed /\ f.how = "ack"
                 \/ f.delivery \in asked /\ f.how = how
    BY <2>2, FramesAdded
  <2>4. \A e \in Passed \cup {d} : stage'[e] = "over"
    BY <1>10, EndingFacts, ReleaseFacts DEF In
  <2>5. QED
    BY <2>1, <2>2, <2>3, <2>4 DEF SettledNow
<1>11. ASSUME NEW f \in frames, SendFrame(f)
      PROVE  SettledNow
  <2>1. frames' \subseteq frames
    BY <1>11 DEF SendFrame, flags
  <2>2. QED
    BY <2>1 DEF SettledNow
<1>12. ASSUME NEW t \in Task, NEW terminate \in BOOLEAN, Revoke(t, terminate)
      PROVE  SettledNow
  <2>1. CASE Announce({<<t, requests[t]>>})
    BY <2>1, SettleFrames DEF SettledNow, Announce
  <2>2. CASE frames' = frames
    BY <2>2 DEF SettledNow
  <2>3. QED
    BY <1>12, <2>1, <2>2 DEF Revoke, history
<1>13. CASE ConnectionLost
  <2>1. frames' \subseteq frames
    BY <1>13 DEF ConnectionLost, HubReset
  <2>2. QED
    BY <2>1 DEF SettledNow
<1>14. CASE UNCHANGED vars
  <2>1. frames' \subseteq frames
    BY <1>14 DEF vars, flags
  <2>2. QED
    BY <2>1 DEF SettledNow
<1>15. QED
  BY <1>1, <1>2, <1>3, <1>4, <1>5, <1>6, <1>7, <1>8, <1>9, <1>10, <1>11, <1>12, <1>13,
     <1>14, Endings
     DEF Next, Work, Receive


(* A delivery is settled with the broker at most once, though its outcome, *)
(* a time limit, a revocation and a cancellation all try, and under        *)
(* acks_late not before it is over or announced revoked (request.py).      *)
THEOREM SettledTheorem == Spec => SettledOnceWhenDone
<1>1. IInv /\ [Next]_vars =>
        [\A f \in frames' \ frames :
           /\ f.delivery \notin acknowledged
           /\ conf.late => stage'[f.delivery] = "over" \/ f.delivery \in announced']_vars
  BY SettledStep DEF IInv, SettledNow
<1>2. QED
  BY <1>1, InvariantTheorem, PTL DEF Spec, SettledOnceWhenDone

=============================================================================
