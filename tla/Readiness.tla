------------------------------- MODULE Readiness -------------------------------
(***************************************************************************)
(* wait_external_readiness of benchmark/healthcheck.py, by which the       *)
(* runner waits for an API after `up`: the loop with its absolute          *)
(* deadline, read_response of benchmark/contract_test.py with the timer    *)
(* thread that aborts a slow response, and DockerEnvironment.check around  *)
(* every answer.  The container may exit and be restarted at any time.     *)
(*                                                                         *)
(* Time is discrete and passes only while a call blocks: a call ends at    *)
(* its own deadline at the latest.                                         *)
(***************************************************************************)
EXTENDS Integers

CONSTANTS
  Timeout,         \* timeout_seconds, counted from the first clock reading
  RequestTimeout,  \* request_timeout
  Interval,        \* the pause between attempts
  CheckTimeout,    \* the deadline of `docker inspect`
  MaxRestarts      \* bound: restarts of the container behind the runner's back

ASSUME ReadinessAssumption ==
  /\ Timeout \in Nat \ {0}
  /\ RequestTimeout \in Nat \ {0}
  /\ Interval \in Nat \ {0}
  /\ CheckTimeout \in Nat
  /\ MaxRestarts \in Nat

VARIABLES
  time,      \* the monotonic clock
  pc,        \* where the runner is
  now,       \* the clock reading at the top of the loop
  until,     \* when the call that blocks ends at the latest
  expired,   \* the timer thread has aborted the response
  body,      \* how much of the answer has arrived
  said,      \* what the answer says
  peer,      \* the instance of the container that was connected to
  app,       \* what the container does
  instance   \* its start; start() has identified instance 0

runner == <<time, pc, now, until, expired, body, said, peer>>
container == <<app, instance>>
vars == <<runner, container>>

Listening == {"wrong", "healthy"}
Blocking == {"before", "connect", "response", "after", "sleep"}
Ended == {"ready", "deadline", "state", "unexpected"}

Least(m, n) == IF m < n THEN m ELSE n

TypeOK ==
  /\ time \in Nat /\ now \in Nat /\ until \in Nat
  /\ pc \in Blocking => time <= until
  /\ pc \in {"top", "judge"} \cup Blocking \cup Ended
  /\ expired \in BOOLEAN
  /\ body \in {"none", "part", "whole"}
  /\ said \in {"none"} \cup Listening
  /\ app \in {"starting", "exited"} \cup Listening
  /\ instance \in 0 .. MaxRestarts /\ peer \in 0 .. MaxRestarts

Init ==
  /\ time = 0 /\ now = 0 /\ until = 0
  /\ pc = "top"
  /\ expired = FALSE
  /\ body = "none" /\ said = "none" /\ peer = 0
  /\ app \in {"starting"} \cup Listening
  /\ instance = 0

-----------------------------------------------------------------------------
(* The loop.                                                                *)

\* The deadline is looked at before the container is.
Top ==
  /\ pc = "top"
  /\ now' = time
  /\ IF time < Timeout
       THEN pc' = "before" /\ until' = time + CheckTimeout
       ELSE pc' = "deadline" /\ UNCHANGED until
  /\ UNCHANGED <<time, expired, body, said, peer, container>>

\* validate_state: running, and the identity and start that were recorded.
RunningContainer == app # "exited"
SameContainer == RunningContainer /\ instance = 0

\* What the request may take: remaining is computed from the reading at the
\* top of the loop, not from the clock after the check.
WholeRequest == RequestTimeout
ClockAgain == Least(RequestTimeout, Timeout - time)
RequestLimit == Least(RequestTimeout, Timeout - now)

CheckBefore ==
  /\ pc = "before"
  /\ SameContainer
  /\ pc' = "connect"
  /\ until' = time + RequestLimit
  /\ UNCHANGED <<time, now, expired, body, said, peer, container>>

\* The container is not the one that was started, or inspect timed out.
CheckFails ==
  /\ pc \in {"before", "after"}
  /\ ~SameContainer \/ time = until
  /\ pc' = "state"
  /\ UNCHANGED <<time, now, until, expired, body, said, peer, container>>

CheckAfter ==
  /\ pc = "after"
  /\ SameContainer
  /\ pc' = "ready"
  /\ UNCHANGED <<time, now, until, expired, body, said, peer, container>>

NoPause == 0
Pause == Least(Interval, Timeout - time)

\* ContractFailure "transport: ...": the clock is read again.
TransportFailure ==
  IF time < Timeout
    THEN pc' = "sleep" /\ until' = time + Pause
    ELSE pc' = "deadline" /\ UNCHANGED until

Wake ==
  /\ pc = "sleep"
  /\ time = until
  /\ pc' = IF time < Timeout THEN "top" ELSE "deadline"
  /\ UNCHANGED <<time, now, until, expired, body, said, peer, container>>

-----------------------------------------------------------------------------
(* read_response.                                                           *)

PeerGone == app = "exited" \/ instance # peer

\* The timer is started once the connection is up, with the same timeout.
Connect ==
  /\ pc = "connect"
  /\ app \in Listening
  /\ pc' = "response"
  /\ until' = time + RequestLimit
  /\ expired' = FALSE
  /\ body' = "none" /\ said' = "none" /\ peer' = instance
  /\ UNCHANGED <<time, now, container>>

ConnectFails ==
  /\ pc = "connect"
  /\ app \notin Listening \/ time = until
  /\ TransportFailure
  /\ UNCHANGED <<time, now, expired, body, said, peer, container>>

\* The timer thread; it is joined before read_response returns.
Abort ==
  /\ pc \in {"response", "judge"}
  /\ time >= until /\ ~expired
  /\ expired' = TRUE
  /\ UNCHANGED <<time, pc, now, until, body, said, peer, container>>

\* The reset of a lost connection or of an aborted one, and an answer that is
\* not HTTP/1.1, which counts as transport too.
ReadFails ==
  /\ pc = "response"
  /\ PeerGone \/ expired \/ said = "wrong"
  /\ TransportFailure
  /\ UNCHANGED <<time, now, expired, body, said, peer, container>>

\* read(n) returns what has arrived, also at a premature end of the stream.
ReadReturns ==
  /\ pc = "response"
  /\ body = "whole" \/ (body = "part" /\ (PeerGone \/ expired))
  /\ pc' = "judge"
  /\ UNCHANGED <<time, now, until, expired, body, said, peer, container>>

\* `if expired.is_set()`: what an abort has cut off is not an answer.
NeverAborted == FALSE
Aborted == expired

\* assert_response; a truncated body is not JSON.
Judge ==
  /\ pc = "judge"
  /\ IF Aborted THEN TransportFailure
     ELSE IF body = "whole" /\ said = "healthy"
       THEN pc' = "after" /\ until' = time + CheckTimeout
       ELSE pc' = "unexpected" /\ UNCHANGED until
  /\ UNCHANGED <<time, now, expired, body, said, peer, container>>

Tick ==
  /\ pc \in Blocking
  /\ time < until
  /\ time' = time + 1
  /\ UNCHANGED <<pc, now, until, expired, body, said, peer, container>>

-----------------------------------------------------------------------------
(* The container.                                                           *)

\* The server starts to listen, or gets from wrong answers to the right one.
Serve ==
  /\ app \in {"starting", "wrong"}
  /\ app' \in Listening \ {app}
  /\ UNCHANGED <<runner, instance>>

Exit ==
  /\ app # "exited"
  /\ app' = "exited"
  /\ UNCHANGED <<runner, instance>>

Restart ==
  /\ app = "exited" /\ instance < MaxRestarts
  /\ app' = "starting"
  /\ instance' = instance + 1
  /\ UNCHANGED runner

\* The server begins its answer or sends the rest of it.
Send ==
  /\ pc = "response" /\ ~PeerGone /\ ~expired
  /\ \/ body = "none" /\ app \in Listening /\ said' = app
     \/ body = "part" /\ UNCHANGED said
  /\ body' \in {"part", "whole"} \ {body}
  /\ UNCHANGED <<time, pc, now, until, expired, peer, container>>

Step ==
  \/ Top \/ CheckBefore \/ CheckFails \/ CheckAfter \/ Wake
  \/ Connect \/ ConnectFails \/ Abort \/ ReadFails \/ ReadReturns \/ Judge
  \/ Tick

Next == Step \/ Serve \/ Exit \/ Restart \/ Send

Spec == Init /\ [][Next]_vars
FairSpec == Spec /\ WF_vars(Step)

-----------------------------------------------------------------------------

\* An API counts as ready only on a complete, exact answer that the container
\* identified by start() has given: not one of its successor after an exit
\* and a restart between the two checks.
ReadyIsServed ==
  pc = "ready" => (body = "whole" /\ said = "healthy" /\ peer = 0)

\* A backend is failed for its answer only if it answered wrongly or went
\* away: a slow answer that the timer thread cuts off is a transport failure.
BlamedRightly ==
  pc = "unexpected" => (said = "wrong" \/ PeerGone)

\* The wait ends, ready or not, at most one request and two checks after the
\* deadline: the request is limited by a reading older than the check, and
\* a success is accepted without another look at the clock.
EndsByBound == time <= Timeout + RequestTimeout + 2 * CheckTimeout

\* The wait ends, whatever the container does.
WaitEnds == <>(pc \in Ended)
===============================================================================
