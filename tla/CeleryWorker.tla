---------------------------- MODULE CeleryWorker ----------------------------
(***************************************************************************)
(* The life of task messages in one Celery worker with a prefork pool:     *)
(* received, kept for their ETA or for a place in the pool, handed to a    *)
(* child process, accepted, finished in one of many ways, and settled with *)
(* the broker; with revocations, time limits, children that die or hang,   *)
(* and connections to the broker that break while children go on.          *)
(*                                                                         *)
(* The main process is one event loop, so a callback is one action; the    *)
(* children and the broker go on beside it.                                *)
(***************************************************************************)
EXTENDS Integers, Sequences, FiniteSets

CONSTANTS
  Tasks,       \* number of tasks, each with one message
  Procs,       \* processes of the pool
  Confs,       \* settings of the tasks that are explored
  MaxMishaps   \* bound: losses of the connection, hangs, crashes, rejections by
               \* tasks, time limits met and revoke commands, together

(* acks_late, acks_on_failure, acks_on_timeout and reject_on_worker_lost   *)
(* of the tasks, worker_cancel_long_running_tasks_on_connection_loss, and  *)
(* whether messages carry an ETA; and the mishaps tried with them.  Every  *)
(* task has a hard time limit.                                             *)
Conf == [late : BOOLEAN, ackFailed : BOOLEAN, ackTimeout : BOOLEAN, requeueLost : BOOLEAN,
         cancel : BOOLEAN, eta : BOOLEAN, mishaps : 0 .. MaxMishaps]

ASSUME ConfsAssumption == Confs \subseteq Conf
(* Ids, in the order of the queue. *)
Task == 1 .. Tasks

ASSUME BoundsAssumption ==
  Tasks \in Nat /\ Procs \in Nat \ {0} /\ MaxMishaps \in Nat

(* The n-th delivery of a task is a Request object of its own. *)
Delivery == Task \X (1 .. MaxMishaps + 1)
Id(d) == d[1]
Ids(D) == {Id(d) : d \in D}

VARIABLES
  conf,
  message,      \* at the broker: "queued", "out" (delivered, unsettled), "gone"
  count,        \* deliveries of each task so far
  live,         \* deliveries of the present connection
  frames,       \* acks and rejects waiting for the next turn of the loop
  stage,        \* where the main process has each request
  requests,     \* state.requests: the delivery listed under an id, 0 if none
  revoked,      \* state.revoked: ids
  acknowledged, announced, cancelled, terminating,  \* flags of the requests
  semaphore, waiters,  \* places in the pool, and who waits for one
  limited,      \* requests whose time limit is armed
  child,        \* what the pool's process makes of each delivery
  backend,      \* state of each task in the result backend
  survivors,    \* history: tasks running when a connection was lost
  unheeded,     \* history: tasks whose request to be queued again came after the ack
  mishaps

flags == <<acknowledged, announced, cancelled, terminating>>
pool == <<semaphore, waiters>>
history == <<survivors, unheeded>>
bounds == <<conf, history, mishaps>>
vars == <<message, count, live, frames, stage, requests, revoked, flags, pool, limited,
          child, backend, bounds>>

-----------------------------------------------------------------------------
Stages == {"none", "eta", "waiting", "sent", "accepted", "over"}
Outcomes == {"success", "failure", "requeue", "reject", "lost", "terminated"}
Children == {"none", "written", "running", "hung", "gone"} \cup Outcomes

In(s) == {d \in Delivery : stage[d] = s}
Executing == {d \in Delivery : child[d] \in {"running", "hung"}}

(* active_requests: accepted and not ready. *)
Active == In("accepted") \ (announced \cup cancelled)

Init ==
  /\ conf \in Confs
  /\ message = [t \in Task |-> "queued"]
  /\ count = [t \in Task |-> 0]
  /\ live = {} /\ frames = {}
  /\ stage = [d \in Delivery |-> "none"]
  /\ requests = [t \in Task |-> 0]
  /\ revoked = {}
  /\ acknowledged = {} /\ announced = {} /\ cancelled = {} /\ terminating = {}
  /\ semaphore = Procs /\ waiters = <<>>
  /\ limited = {}
  /\ child = [d \in Delivery |-> "none"]
  /\ backend = [t \in Task |-> "PENDING"]
  /\ survivors = {} /\ unheeded = {}
  /\ mishaps = 0

Mishap == mishaps < conf.mishaps /\ mishaps' = mishaps + 1
NoMishap == UNCHANGED mishaps

(* The backend ignores any state after SUCCESS. *)
Stored(t, s) == IF backend[t] = "SUCCESS" THEN backend[t] ELSE s

Store(T, s) == backend' = [t \in Task |-> IF t \in T THEN Stored(t, s) ELSE backend[t]]

(* Mutant: without the check of acknowledged. *)
BuggySettle(D, how) ==
  /\ frames' = frames \cup [delivery : D \cap live, how : {how}]
  /\ acknowledged' = acknowledged \cup D

(* acknowledge and reject: once for each request.  What is written to the  *)
(* channel of a lost connection is an error that is logged.                *)
Settle(D, how) ==
  /\ frames' = frames \cup [delivery : (D \ acknowledged) \cap live, how : {how}]
  /\ acknowledged' = acknowledged \cup D

(* Mutant: task_ready leaves the entry. *)
BuggyUnlisted(T) == requests

(* state.requests without the entries of T. *)
Unlisted(T) == [t \in Task |-> IF t \in T THEN 0 ELSE requests[t]]

(* _announce_revoked: task_ready, mark_as_revoked, acknowledge. *)
Announce(D) ==
  /\ requests' = Unlisted(Ids(D))
  /\ Store(Ids(D), "REVOKED")
  /\ Settle(D, "ack")
  /\ announced' = announced \cup D

-----------------------------------------------------------------------------
(* Messages come in. *)

(* The coming delivery of t. *)
Coming(t) == <<t, count[t] + 1>>

Deliver(t) ==
  /\ message[t] = "queued"
  /\ \A s \in 1 .. t - 1 : count[s] > 0
  /\ message' = [message EXCEPT ![t] = "out"]
  /\ count' = [count EXCEPT ![t] = @ + 1]
  /\ live' = live \cup {Coming(t)}

ReceiveRevoked(t) ==
  /\ Deliver(t)
  /\ t \in revoked
  /\ requests' = Unlisted({t})
  /\ Store({t}, "REVOKED")
  /\ frames' = frames \cup {[delivery |-> Coming(t), how |-> "ack"]}
  /\ acknowledged' = acknowledged \cup {Coming(t)}
  /\ announced' = announced \cup {Coming(t)}
  /\ stage' = [stage EXCEPT ![Coming(t)] = "over"]
  /\ UNCHANGED <<revoked, cancelled, terminating, pool, limited, child, bounds>>

ReceiveEta(t) ==
  /\ Deliver(t)
  /\ t \notin revoked
  /\ conf.eta
  /\ stage' = [stage EXCEPT ![Coming(t)] = "eta"]
  /\ UNCHANGED <<frames, requests, revoked, flags, pool, limited, child, backend, bounds>>

(* Mutant: keeps one place free. *)
BuggyReserve(d) ==
  /\ requests' = [requests EXCEPT ![Id(d)] = d[2]]
  /\ IF semaphore > 1
     THEN /\ semaphore' = semaphore - 1
          /\ stage' = [stage EXCEPT ![d] = "sent"]
          /\ UNCHANGED waiters
     ELSE /\ waiters' = Append(waiters, d)
          /\ stage' = [stage EXCEPT ![d] = "waiting"]
          /\ UNCHANGED semaphore

(* task_reserved, then the semaphore: a place, or the end of the line. *)
Reserve(d) ==
  /\ requests' = [requests EXCEPT ![Id(d)] = d[2]]
  /\ IF semaphore > 0
     THEN /\ semaphore' = semaphore - 1
          /\ stage' = [stage EXCEPT ![d] = "sent"]
          /\ UNCHANGED waiters
     ELSE /\ waiters' = Append(waiters, d)
          /\ stage' = [stage EXCEPT ![d] = "waiting"]
          /\ UNCHANGED semaphore

ReceiveNow(t) ==
  /\ Deliver(t)
  /\ t \notin revoked
  /\ ~ conf.eta
  /\ Reserve(Coming(t))
  /\ UNCHANGED <<frames, revoked, flags, limited, child, backend, bounds>>

(* apply_eta_task *)
EtaComes(d) ==
  /\ stage[d] = "eta"
  /\ Id(d) \in revoked => semaphore = 0
  /\ Reserve(d)
  /\ UNCHANGED <<message, count, live, frames, revoked, flags, limited, child, backend, bounds>>

(* Mutant: the place is kept. *)
BuggyEtaComesRevoked(d) ==
  /\ stage[d] = "eta"
  /\ Id(d) \in revoked
  /\ semaphore > 0
  /\ Announce({d})
  /\ stage' = [stage EXCEPT ![d] = "over"]
  /\ semaphore' = semaphore - 1
  /\ UNCHANGED <<message, count, live, revoked, cancelled, terminating, waiters, limited,
                 child, bounds>>

(* It is sent to the pool and found revoked: its place is given back. *)
EtaComesRevoked(d) ==
  /\ stage[d] = "eta"
  /\ Id(d) \in revoked
  /\ semaphore > 0
  /\ Announce({d})
  /\ stage' = [stage EXCEPT ![d] = "over"]
  /\ UNCHANGED <<message, count, live, revoked, cancelled, terminating, pool, limited,
                 child, bounds>>

-----------------------------------------------------------------------------
(* The children. *)

(* A process reads a job; it may be one that the main process has given up *)
(* since, when the job had been written to the process's pipe.             *)
ChildStarts(d) ==
  /\ child[d] = "written" \/ (child[d] = "none" /\ stage[d] = "sent")
  /\ Cardinality(Executing) < Procs
  /\ child' = [child EXCEPT ![d] = "running"]
  /\ UNCHANGED <<message, count, live, frames, stage, requests, revoked, flags, pool,
                 limited, backend, bounds>>

(* The main process has no use for the outcome of a job it gave up. *)
Reported(d, outcome) == IF stage[d] = "over" THEN "gone" ELSE outcome

(* The child stores the state, then reports. *)
ChildEnds(d) ==
  /\ child[d] = "running"
  /\ \/ /\ child' = [child EXCEPT ![d] = Reported(d, "success")]
        /\ Store({Id(d)}, "SUCCESS")
     \/ /\ child' = [child EXCEPT ![d] = Reported(d, "failure")]
        /\ Store({Id(d)}, "FAILURE")
  /\ UNCHANGED <<message, count, live, frames, stage, requests, revoked, flags, pool,
                 limited, bounds>>

(* The task raises Reject, with requeue=True or False, and stores nothing; *)
(* it hangs; or its process dies.                                          *)
ChildFails(d) ==
  /\ child[d] = "running"
  /\ Mishap
  /\ \E how \in {"hung", "requeue", "reject", "lost"} :
       child' = [child EXCEPT ![d] = IF how = "hung" THEN how ELSE Reported(d, how)]
  /\ UNCHANGED <<message, count, live, frames, stage, requests, revoked, flags, pool,
                 limited, backend, conf, history>>

Killed(D) ==
  child' = [d \in Delivery |->
              IF d \in D /\ child[d] \in {"running", "hung"} THEN "terminated" ELSE child[d]]

-----------------------------------------------------------------------------
(* Callbacks of the pool in the main process. *)

(* on_accepted, with the termination that was asked for before. *)
Accepted(d) ==
  /\ stage[d] = "sent"
  /\ child[d] \notin {"none", "written"}
  /\ stage' = [stage EXCEPT ![d] = "accepted"]
  /\ limited' = limited \cup {d}
  /\ IF d \in terminating
     THEN Killed({d}) /\ Announce({d})
     ELSE /\ requests' = [requests EXCEPT ![Id(d)] = d[2]]
          /\ IF conf.late THEN UNCHANGED <<frames, acknowledged>> ELSE Settle({d}, "ack")
          /\ UNCHANGED <<announced, backend, child>>
  /\ UNCHANGED <<message, count, live, revoked, cancelled, terminating, pool, bounds>>

(* The waiters that LaxBoundedSemaphore.release comes upon before one that *)
(* is not revoked: each is announced and gives the place back at once.     *)
Passed == {waiters[i] : i \in {i \in DOMAIN waiters :
                                 \A j \in 1 .. i : Id(waiters[j]) \in revoked}}
Left == SubSeq(waiters, Cardinality(Passed) + 1, Len(waiters))

(* The job of d is over: task_ready, its message settled (how may be       *)
(* "nothing"), its state stored (s may be "nothing"), its place given to   *)
(* the next waiter.                                                        *)
JobOver(d, how, s) ==
  LET quits == Passed \cup {d}
      asked == IF how = "nothing" THEN {} ELSE {d}
  IN  /\ stage' = [e \in Delivery |->
                     IF e \in quits THEN "over"
                     ELSE IF Left # <<>> /\ e = Head(Left) THEN "sent" ELSE stage[e]]
      /\ IF Left = <<>>
         THEN /\ waiters' = <<>>
              /\ semaphore' = IF semaphore < Procs THEN semaphore + 1 ELSE Procs
         ELSE waiters' = Tail(Left) /\ UNCHANGED semaphore
      /\ requests' = Unlisted(Ids(quits))
      /\ frames' = frames
           \cup [delivery : (Passed \ acknowledged) \cap live, how : {"ack"}]
           \cup [delivery : (asked \ acknowledged) \cap live, how : {how}]
      /\ acknowledged' = acknowledged \cup Passed \cup asked
      /\ announced' = announced \cup Passed \cup (IF s = "REVOKED" THEN {d} ELSE {})
      /\ backend' = [t \in Task |->
                       IF t = Id(d) /\ s # "nothing" THEN Stored(t, s)
                       ELSE IF t \in Ids(Passed) THEN Stored(t, "REVOKED") ELSE backend[t]]
      /\ limited' = limited \ {d}
      /\ unheeded' = unheeded \cup (IF how = "requeue" /\ d \in acknowledged
                                    THEN {Id(d)} ELSE {})
      /\ child' = [child EXCEPT ![d] = "gone"]
      /\ UNCHANGED <<message, count, live, revoked, cancelled, terminating, conf,
                     survivors>>

Handles(d, outcome) == stage[d] = "accepted" /\ child[d] = outcome

OnSuccess(d) ==
  /\ Handles(d, "success")
  /\ JobOver(d, IF conf.late THEN "ack" ELSE "nothing", "nothing")
  /\ NoMishap

AckFailure == IF ~ conf.late THEN "nothing" ELSE IF conf.ackFailed THEN "ack" ELSE "reject"

OnTaskFailure(d) ==
  /\ Handles(d, "failure")
  /\ JobOver(d, AckFailure, "nothing")
  /\ NoMishap

(* Reject: a failure for good unless the message is to be queued again,    *)
(* which reject() ignores once it has been acknowledged.                   *)
OnReject(d) ==
  /\ \/ Handles(d, "requeue") /\ JobOver(d, "requeue", "nothing")
     \/ Handles(d, "reject") /\ JobOver(d, "reject", "FAILURE")
  /\ NoMishap

(* Terminated: revoked now unless it was revoked or cancelled before. *)
OnTerminated(d) ==
  /\ Handles(d, "terminated")
  /\ IF d \in cancelled \cup announced THEN JobOver(d, "nothing", "nothing")
                                       ELSE JobOver(d, "ack", "REVOKED")
  /\ NoMishap

(* Mutant: the state left to the child that died. *)
BuggyOnWorkerLost(d) ==
  /\ Handles(d, "lost")
  /\ JobOver(d, IF conf.late /\ conf.requeueLost THEN "requeue" ELSE AckFailure, "nothing")
  /\ NoMishap

(* WorkerLostError: marked as failed unless it is requeued. *)
OnWorkerLost(d) ==
  /\ Handles(d, "lost")
  /\ IF conf.late /\ conf.requeueLost THEN JobOver(d, "requeue", "nothing")
                                      ELSE JobOver(d, AckFailure, "FAILURE")
  /\ NoMishap

(* The hard limit: on_failure(TimeLimitExceeded) and on_timeout, which     *)
(* marks the task as failed whether it is requeued or not; the process is  *)
(* killed.  The timer may come before an outcome that is on its way.       *)
HardTimeout(d) ==
  /\ stage[d] = "accepted"
  /\ d \in limited
  /\ IF child[d] = "hung" THEN NoMishap ELSE Mishap
  /\ JobOver(d, IF ~ conf.late THEN "nothing" ELSE IF conf.ackTimeout THEN "ack" ELSE "requeue",
             "FAILURE")

-----------------------------------------------------------------------------
(* The broker. *)

(* The loop's next turn writes an ack or a reject. *)
SendFrame(f) ==
  /\ frames' = frames \ {f}
  /\ message' = [message EXCEPT ![Id(f.delivery)] =
                   IF f.how = "requeue" THEN "queued" ELSE "gone"]
  /\ UNCHANGED <<count, live, stage, requests, revoked, flags, pool, limited, child,
                 backend, bounds>>

(* The revoke command, with or without terminate. *)
Revoke(t, terminate) ==
  /\ Mishap
  /\ revoked' = revoked \cup {t}
  /\ LET d == <<t, requests[t]>>
     IN  IF ~ terminate \/ requests[t] = 0
         THEN /\ Store({t}, "REVOKED")
              /\ UNCHANGED <<frames, requests, flags, child>>
         ELSE IF stage[d] = "accepted"
         THEN Killed({d}) /\ Announce({d}) /\ UNCHANGED <<cancelled, terminating>>
         ELSE /\ Store({t}, "REVOKED")
              /\ terminating' = terminating \cup {d}
              /\ UNCHANGED <<frames, requests, acknowledged, announced, cancelled, child>>
  /\ UNCHANGED <<message, count, live, stage, pool, limited, conf, history>>

(* Running late-acknowledged requests are cancelled if so configured. *)
Doomed == IF conf.cancel /\ conf.late THEN Active \ acknowledged ELSE {}

(* on_close gives up what is not accepted yet, and who waits for a place. *)
GivenUp == In("eta") \cup In("waiting") \cup In("sent")

(* The loop resets the hub: frames and the timers of running jobs go. *)
HubReset == frames' = {} /\ limited' = {}

(* The connection breaks and is made anew.  Some of what is given up may   *)
(* be in the pipe of a process already; the broker queues again what it    *)
(* had not seen settled.                                                   *)
ConnectionLost ==
  /\ Mishap
  /\ live # {}
  /\ cancelled' = cancelled \cup Doomed
  /\ Store(Ids(Doomed), "RETRY")
  /\ requests' = Unlisted(Ids(Doomed) \cup Ids(In("waiting") \cup In("sent")))
  /\ stage' = [d \in Delivery |-> IF d \in GivenUp THEN "over" ELSE stage[d]]
  /\ \E written \in SUBSET {d \in In("sent") : child[d] = "none"} :
       child' = [d \in Delivery |->
         IF d \in written THEN "written"
         ELSE IF d \in Doomed /\ child[d] \in {"running", "hung"} THEN "terminated"
         ELSE IF d \in GivenUp /\ child[d] \in Outcomes THEN "gone"
         ELSE child[d]]
  /\ message' = [t \in Task |-> IF message[t] = "out" THEN "queued" ELSE message[t]]
  /\ HubReset
  /\ live' = {}
  /\ semaphore' = Procs /\ waiters' = <<>>
  /\ survivors' = survivors \cup Ids(In("accepted"))
  /\ UNCHANGED <<count, revoked, acknowledged, announced, terminating, conf, unheeded>>

-----------------------------------------------------------------------------
Receive(t) == ReceiveRevoked(t) \/ ReceiveEta(t) \/ ReceiveNow(t)

Outcome(d) ==
  OnSuccess(d) \/ OnTaskFailure(d) \/ OnReject(d) \/ OnTerminated(d) \/ OnWorkerLost(d)

(* What goes on by itself, time limits of hung children included. *)
Work ==
  \/ \E t \in Task : Receive(t)
  \/ \E f \in frames : SendFrame(f)
  \/ \E d \in Delivery :
       \/ EtaComes(d) \/ EtaComesRevoked(d)
       \/ ChildStarts(d) \/ ChildEnds(d)
       \/ Accepted(d) \/ Outcome(d)
       \/ child[d] = "hung" /\ HardTimeout(d)

Next ==
  \/ Work
  \/ \E d \in Delivery : ChildFails(d) \/ HardTimeout(d)
  \/ \E t \in Task, terminate \in BOOLEAN : Revoke(t, terminate)
  \/ ConnectionLost

Spec == Init /\ [][Next]_vars

(* The event loop, the pool and the broker go on. *)
FairSpec == Spec /\ WF_vars(Work)
-----------------------------------------------------------------------------
(* The shape of the state.  Who waits for a place waits once, and nobody   *)
(* waits while a place is free (LaxBoundedSemaphore).                      *)
TypeOK ==
  /\ conf \in Confs
  /\ message \in [Task -> {"queued", "out", "gone"}]
  /\ count \in [Task -> 0 .. MaxMishaps + 1]
  /\ live \subseteq Delivery
  /\ frames \subseteq [delivery : live, how : {"ack", "reject", "requeue"}]
  /\ stage \in [Delivery -> Stages]
  /\ requests \in [Task -> 0 .. MaxMishaps + 1]
  /\ revoked \cup survivors \cup unheeded \subseteq Task
  /\ acknowledged \cup announced \cup cancelled \cup terminating \subseteq Delivery
  /\ semaphore \in 0 .. Procs
  /\ Len(waiters) = Cardinality(In("waiting"))
  /\ {waiters[i] : i \in DOMAIN waiters} = In("waiting")
  /\ semaphore > 0 => waiters = <<>>
  /\ limited \subseteq In("accepted")
  /\ child \in [Delivery -> Children]
  /\ backend \in [Task -> {"PENDING", "SUCCESS", "FAILURE", "REVOKED", "RETRY"}]
  /\ mishaps \in 0 .. MaxMishaps

Final == {"SUCCESS", "FAILURE", "REVOKED"}

(* The broker forgets the message of t, or is about to. *)
Forgotten(t) ==
  message[t] = "gone" \/ \E f \in frames : Id(f.delivery) = t /\ f.how # "requeue"

(* The task asked with Reject(requeue=True) to be run again, but its       *)
(* message had been acknowledged when it started: the request is ignored   *)
(* and no state is stored, so it may stay PENDING for ever.                *)
Abandoned(t) == ~ conf.late /\ t \in unheeded

(* No task is lost, whatever dies, hangs, rejects, is revoked or is        *)
(* disconnected.  "(acks_late) acknowledge after result stored"            *)
(* (request.py): under late acknowledgement a message is given up only     *)
(* when the backend holds a final state.  Under early acknowledgement that *)
(* fails in two cases only: a delivery that was accepted is not over, or   *)
(* the task is Abandoned.                                                  *)
NothingLost ==
  \A t \in Task : Forgotten(t) =>
    \/ backend[t] \in Final
    \/ ~ conf.late /\ \E d \in In("accepted") : Id(d) = t
    \/ Abandoned(t)

(* A delivery is settled with the broker at most once, though the outcome, *)
(* a time limit, a revocation and a cancellation all try; and under late   *)
(* acknowledgement not before it is over or its revocation is announced.   *)
SettledOnceWhenDone ==
  [][\A f \in frames' \ frames :
       /\ f.delivery \notin acknowledged
       /\ conf.late => stage'[f.delivery] = "over" \/ f.delivery \in announced']_vars

(* state.requests lists exactly the requests that are reserved or active,  *)
(* for tasks that no connection loss made run twice: there the id's two    *)
(* deliveries share an entry, and the first to end removes it.             *)
RegistryExact ==
  \A t \in Task \ survivors, n \in 1 .. MaxMishaps + 1 :
    requests[t] = n <=>
      <<t, n>> \in (In("waiting") \cup In("sent") \cup In("accepted")) \ (announced \cup cancelled)

(* A child that hangs with no time limit armed: one lost with the          *)
(* connection, whose reset cleared the timers of running jobs with the     *)
(* others (loops.py), or a job given up.                                   *)
Stuck == \E d \in Delivery : child[d] = "hung" /\ d \notin limited

(* Every task comes to a final state unless it is Abandoned, its message   *)
(* settled, no request left listed, no place in the pool kept: unless a    *)
(* child hangs without a limit.                                            *)
Drained ==
  /\ \A t \in Task : /\ message[t] = "gone" /\ requests[t] = 0
                     /\ backend[t] \in Final \/ Abandoned(t)
  /\ semaphore = Procs

Drains == <>[](Stuck \/ Drained)

=============================================================================
