---------------------------- MODULE ReadinessProofs ----------------------------
(***************************************************************************)
(* Theorems about Readiness, for every deadline, interval and number of    *)
(* restarts.                                                               *)
(***************************************************************************)
EXTENDS Readiness, TLAPS

\* How late each call may end, counted from the reading at the top of the
\* loop; the request of an attempt takes its limit twice at most, once to
\* connect and once to answer.
CallEnds ==
  /\ pc \in {"before", "connect", "response", "judge", "after"} => now < Timeout
  /\ pc = "before" => until <= now + CheckTimeout
  /\ pc = "connect" => until <= now + CheckTimeout + RequestLimit
  /\ pc \in {"response", "judge"} =>
       /\ time <= until
       /\ until <= now + CheckTimeout + 2 * RequestLimit
  /\ pc = "after" => until <= now + 2 * CheckTimeout + 2 * RequestLimit
  /\ pc = "sleep" => until <= Timeout
  /\ pc = "top" => time <= Timeout

\* Where the answer in hand comes from.
AnswerInv ==
  /\ peer <= instance
  /\ body # "none" => said \in Listening
  /\ pc = "judge" => (body = "whole" \/ (body = "part" /\ (PeerGone \/ expired)))
  /\ pc = "after" => (body = "whole" /\ said = "healthy")

ReadinessInv ==
  /\ TypeOK
  /\ CallEnds
  /\ EndsByBound
  /\ AnswerInv
  /\ BlamedRightly
  /\ ReadyIsServed

\* What a request may take: no more than its timeout nor what was left of the
\* deadline when the loop last looked.
LEMMA LimitBounds ==
  ASSUME now \in Nat, now < Timeout
  PROVE  /\ RequestLimit \in Nat
         /\ RequestLimit <= RequestTimeout
         /\ now + RequestLimit <= Timeout
  BY ReadinessAssumption DEF RequestLimit, Least

\* No call may last beyond the bound.
LEMMA CallsEndByBound ==
  ASSUME TypeOK, CallEnds, pc \in Blocking
  PROVE  until <= Timeout + RequestTimeout + 2 * CheckTimeout
  <1>1. CASE pc = "sleep"
    BY <1>1, ReadinessAssumption DEF TypeOK, CallEnds
  <1>2. CASE pc \in {"before", "connect", "response", "after"}
    <2>1. now \in Nat /\ now < Timeout
      BY <1>2 DEF TypeOK, CallEnds
    <2>2. until <= now + 2 * CheckTimeout + 2 * RequestLimit
      BY <1>2, <2>1, LimitBounds, ReadinessAssumption DEF CallEnds, TypeOK
    <2> QED
      BY <2>1, <2>2, LimitBounds, ReadinessAssumption DEF TypeOK
  <1> QED
    BY <1>1, <1>2 DEF Blocking

\* A transport failure leads to a pause within the deadline, or to the end.
LEMMA RetryBounds ==
  ASSUME TypeOK, TransportFailure
  PROVE  /\ pc' \in {"sleep", "deadline"}
         /\ until' \in Nat
         /\ pc' = "sleep" => (time <= until' /\ until' <= Timeout)
  BY ReadinessAssumption DEF TypeOK, TransportFailure, Pause, Least

\* Of the runner's steps the clock's alone passes time, and only within a call.
LEMMA StepKeepsTime ==
  ASSUME ReadinessInv, Step
  PROVE  TypeOK' /\ CallEnds' /\ EndsByBound'
  <1> USE DEF ReadinessInv
  <1>0. TypeOK /\ CallEnds /\ EndsByBound
    OBVIOUS
  <1>1. CASE Top
    BY <1>0, <1>1, ReadinessAssumption
    DEF Top, TypeOK, CallEnds, EndsByBound, container, Blocking, Ended
  <1>2. CASE CheckBefore
    <2>1. now \in Nat /\ now < Timeout
      BY <1>0, <1>2 DEF CheckBefore, TypeOK, CallEnds
    <2>2. RequestLimit' = RequestLimit
      BY <1>2 DEF CheckBefore, RequestLimit
    <2> QED
      BY <1>0, <1>2, <2>1, <2>2, LimitBounds, ReadinessAssumption
      DEF CheckBefore, TypeOK, CallEnds, EndsByBound, container, Blocking, Ended
  <1>3. CASE CheckFails
    BY <1>0, <1>3 DEF CheckFails, TypeOK, CallEnds, EndsByBound, container, Blocking, Ended
  <1>4. CASE CheckAfter
    BY <1>0, <1>4 DEF CheckAfter, TypeOK, CallEnds, EndsByBound, container, Blocking, Ended
  <1>5. CASE Wake
    BY <1>0, <1>5 DEF Wake, TypeOK, CallEnds, EndsByBound, container, Blocking, Ended
  <1>6. CASE Connect
    <2>1. now \in Nat /\ now < Timeout /\ time <= until
      BY <1>0, <1>6 DEF Connect, TypeOK, CallEnds, Blocking
    <2>2. RequestLimit' = RequestLimit
      BY <1>6 DEF Connect, RequestLimit
    <2>3. until' \in Nat /\ time' <= until'
      BY <1>0, <1>6, <2>1, LimitBounds DEF Connect, TypeOK
    <2>4. until' <= now' + CheckTimeout + 2 * RequestLimit'
      BY <1>0, <1>6, <2>1, <2>2, LimitBounds, ReadinessAssumption
      DEF Connect, TypeOK, CallEnds
    <2>5. TypeOK' /\ EndsByBound'
      BY <1>0, <1>6, <2>3 DEF Connect, TypeOK, EndsByBound, container, Blocking, Ended
    <2> QED
      BY <1>6, <2>1, <2>3, <2>4, <2>5 DEF Connect, CallEnds
  <1>7. ASSUME TransportFailure, UNCHANGED <<time, now, expired, body, said, peer, container>>
        PROVE  TypeOK' /\ CallEnds' /\ EndsByBound'
    BY <1>0, <1>7, RetryBounds
    DEF TypeOK, CallEnds, EndsByBound, container, Blocking, Ended
  <1>8. CASE ConnectFails
    BY <1>7, <1>8 DEF ConnectFails
  <1>9. CASE Abort
    <2>1. RequestLimit' = RequestLimit
      BY <1>9 DEF Abort, RequestLimit
    <2> QED
      BY <1>0, <1>9, <2>1 DEF Abort, TypeOK, CallEnds, EndsByBound, container, Blocking, Ended
  <1>10. CASE ReadFails
    BY <1>7, <1>10 DEF ReadFails
  <1>11. CASE ReadReturns
    <2>1. RequestLimit' = RequestLimit
      BY <1>11 DEF ReadReturns, RequestLimit
    <2> QED
      BY <1>0, <1>11, <2>1
      DEF ReadReturns, TypeOK, CallEnds, EndsByBound, container, Blocking, Ended
  <1>12. CASE Judge
    <2>1. CASE Aborted
      BY <1>7, <1>12, <2>1 DEF Judge
    <2>2. CASE ~Aborted
      <3>1. now \in Nat /\ now < Timeout /\ time <= until
        BY <1>0, <1>12 DEF Judge, TypeOK, CallEnds
      <3>2. RequestLimit' = RequestLimit
        BY <1>12 DEF Judge, RequestLimit
      <3> QED
        BY <1>0, <1>12, <2>2, <3>1, <3>2, LimitBounds, ReadinessAssumption
        DEF Judge, TypeOK, CallEnds, EndsByBound, container, Blocking, Ended
    <2> QED
      BY <2>1, <2>2
  <1>13. CASE Tick
    <2>1. RequestLimit' = RequestLimit
      BY <1>13 DEF Tick, RequestLimit
    <2>2. TypeOK'
      BY <1>0, <1>13 DEF Tick, TypeOK, container, Blocking, Ended
    <2>3. CallEnds'
      BY <1>0, <1>13, <2>1 DEF Tick, TypeOK, CallEnds, Blocking
    <2>4. EndsByBound'
      BY <1>0, <1>13, CallsEndByBound, ReadinessAssumption DEF Tick, TypeOK, EndsByBound
    <2> QED
      BY <2>2, <2>3, <2>4
  <1> QED
    BY <1>1, <1>2, <1>3, <1>4, <1>5, <1>6, <1>8, <1>9, <1>10, <1>11, <1>12, <1>13
    DEF Step
\* A connection to an instance that has exited or been replaced stays lost,
\* and what was lost is not recovered by anything the runner does.
LEMMA StepKeepsAnswer ==
  ASSUME ReadinessInv, Step
  PROVE  AnswerInv' /\ BlamedRightly' /\ ReadyIsServed'
  <1> DEFINE Kept == AnswerInv' /\ BlamedRightly' /\ ReadyIsServed'
  <1> USE DEF ReadinessInv
  <1>0. /\ TypeOK /\ AnswerInv /\ BlamedRightly /\ ReadyIsServed
        /\ instance \in Nat /\ peer \in Nat
    BY ReadinessAssumption DEF TypeOK
  <1>1. ASSUME UNCHANGED <<expired, body, said, peer, container>>,
               pc' \notin {"judge", "after", "unexpected", "ready"}
        PROVE  Kept
    BY <1>0, <1>1 DEF AnswerInv, BlamedRightly, ReadyIsServed, PeerGone, container
  <1>2. CASE Top
    BY <1>1, <1>2 DEF Top
  <1>3. CASE CheckBefore
    BY <1>1, <1>3 DEF CheckBefore
  <1>4. CASE CheckFails
    BY <1>1, <1>4 DEF CheckFails
  <1>5. CASE CheckAfter
    BY <1>0, <1>5
    DEF CheckAfter, SameContainer, AnswerInv, BlamedRightly, ReadyIsServed, PeerGone, container
  <1>6. CASE Wake
    BY <1>1, <1>6 DEF Wake
  <1>7. CASE Connect
    BY <1>0, <1>7 DEF Connect, AnswerInv, BlamedRightly, ReadyIsServed, container
  <1>8. CASE ConnectFails
    BY <1>1, <1>8 DEF ConnectFails, TransportFailure
  <1>9. CASE Abort
    BY <1>0, <1>9 DEF Abort, AnswerInv, BlamedRightly, ReadyIsServed, PeerGone, container
  <1>10. CASE ReadFails
    BY <1>1, <1>10 DEF ReadFails, TransportFailure
  <1>11. CASE ReadReturns
    BY <1>0, <1>11 DEF ReadReturns, AnswerInv, BlamedRightly, ReadyIsServed, PeerGone, container
  <1>12. CASE Judge
    <2>1. CASE Aborted
      BY <1>1, <1>12, <2>1 DEF Judge, TransportFailure
    <2>2. CASE ~Aborted
      BY <1>0, <1>12, <2>2
      DEF Judge, Aborted, AnswerInv, BlamedRightly, ReadyIsServed, PeerGone, container, Listening
    <2> QED
      BY <2>1, <2>2
  <1>13. CASE Tick
    BY <1>0, <1>13
    DEF Tick, AnswerInv, BlamedRightly, ReadyIsServed, PeerGone, container
  <1> QED
    BY <1>2, <1>3, <1>4, <1>5, <1>6, <1>7, <1>8, <1>9, <1>10, <1>11, <1>12, <1>13
    DEF Step

\* The container does not disturb the runner's clock, nor revive a connection.
LEMMA ContainerKeeps ==
  ASSUME ReadinessInv, Serve \/ Exit \/ Restart \/ Send
  PROVE  ReadinessInv'
  <1> USE DEF ReadinessInv
  <1>0. /\ TypeOK /\ CallEnds /\ EndsByBound /\ AnswerInv /\ BlamedRightly /\ ReadyIsServed
        /\ instance \in Nat /\ peer \in Nat
    BY ReadinessAssumption DEF TypeOK
  <1>1. UNCHANGED <<time, pc, now, until, expired, peer>> /\ RequestLimit' = RequestLimit
    BY DEF Serve, Exit, Restart, Send, runner, RequestLimit
  <1>2. TypeOK'
    BY <1>0, <1>1, ReadinessAssumption
    DEF Serve, Exit, Restart, Send, TypeOK, runner, container, Listening
  <1>3. CallEnds' /\ EndsByBound'
    BY <1>0, <1>1 DEF CallEnds, EndsByBound
  <1>4. instance' >= instance /\ (PeerGone => PeerGone')
    BY <1>0, <1>1 DEF Serve, Exit, Restart, Send, AnswerInv, PeerGone, container, Listening
  <1>5. CASE Serve \/ Exit \/ Restart
    <2>1. UNCHANGED runner
      BY <1>5 DEF Serve, Exit, Restart
    <2>2. instance' \in Nat
      BY <1>2, ReadinessAssumption DEF TypeOK
    <2> QED
      BY <1>0, <1>2, <1>3, <1>4, <2>1, <2>2 DEF runner, AnswerInv, BlamedRightly, ReadyIsServed
  <1>6. CASE Send
    BY <1>0, <1>1, <1>2, <1>3, <1>4, <1>6
    DEF Send, container, AnswerInv, BlamedRightly, ReadyIsServed, Listening
  <1> QED
    BY <1>5, <1>6

LEMMA ReadinessStart == Init => ReadinessInv
  <1> SUFFICES ASSUME Init PROVE ReadinessInv
    OBVIOUS
  <1>1. TypeOK
    <2>1. 0 \in 0 .. MaxRestarts
      BY ReadinessAssumption
    <2>2. pc \notin Blocking /\ pc \in {"top", "judge"} \cup Blocking \cup Ended
      BY DEF Init, Blocking
    <2> QED
      BY <2>1, <2>2 DEF Init, TypeOK
  <1>2. CallEnds /\ EndsByBound
    BY ReadinessAssumption DEF Init, CallEnds, EndsByBound
  <1>3. AnswerInv /\ BlamedRightly /\ ReadyIsServed
    BY DEF Init, AnswerInv, BlamedRightly, ReadyIsServed
  <1> QED
    BY <1>1, <1>2, <1>3 DEF ReadinessInv

\* Every wait keeps its calls within their bounds and knows whose answer it has.
THEOREM ReadinessCorrect == Spec => []ReadinessInv
  <1>1. ReadinessInv /\ [Next]_vars => ReadinessInv'
    <2> SUFFICES ASSUME ReadinessInv, [Next]_vars PROVE ReadinessInv'
      OBVIOUS
    <2>1. CASE Step
      BY <2>1, StepKeepsTime, StepKeepsAnswer DEF ReadinessInv
    <2>2. CASE Serve \/ Exit \/ Restart \/ Send
      BY <2>2, ContainerKeeps
    <2>3. CASE UNCHANGED vars
      BY <2>3 DEF vars, runner, container, ReadinessInv, TypeOK, CallEnds, EndsByBound,
                  AnswerInv, BlamedRightly, ReadyIsServed, PeerGone, RequestLimit
    <2> QED
      BY <2>1, <2>2, <2>3 DEF Next
  <1> QED
    BY <1>1, ReadinessStart, PTL DEF Spec

\* The runner's and the container's state stay what read_response and
\* wait_external_readiness can make of them.
THEOREM TypesHold == Spec => []TypeOK
  <1>1. ReadinessInv => TypeOK
    BY DEF ReadinessInv
  <1> QED
    BY <1>1, ReadinessCorrect, PTL

\* A ready API has answered exactly, from the container start() identified.
THEOREM ReadyMeansServed == Spec => []ReadyIsServed
  <1>1. ReadinessInv => ReadyIsServed
    BY DEF ReadinessInv
  <1> QED
    BY <1>1, ReadinessCorrect, PTL

\* No answer that was merely slow is held against the backend.
THEOREM SlowIsNotWrong == Spec => []BlamedRightly
  <1>1. ReadinessInv => BlamedRightly
    BY DEF ReadinessInv
  <1> QED
    BY <1>1, ReadinessCorrect, PTL

\* The wait is over one request and two checks after the deadline at the latest.
THEOREM WaitIsBounded == Spec => []EndsByBound
  <1>1. ReadinessInv => EndsByBound
    BY DEF ReadinessInv
  <1> QED
    BY <1>1, ReadinessCorrect, PTL
-----------------------------------------------------------------------------
(* How many steps a wait can take.                                          *)

\* What the runner can do without the clock, from one place of the loop on; a
\* pause that is over comes first, one that is not over comes last.
PlacesLeft ==
  CASE pc = "sleep" /\ time >= until -> 10
    [] pc = "top" -> 9
    [] pc = "before" -> 8
    [] pc = "connect" -> 7
    [] pc = "response" /\ ~expired -> 6
    [] pc = "response" /\ expired -> 5
    [] pc = "judge" /\ ~expired -> 4
    [] pc = "judge" /\ expired -> 3
    [] pc = "after" -> 2
    [] pc = "sleep" /\ time < until -> 1
    [] pc \in Ended -> 0

TimeLeft == Timeout + RequestTimeout + 2 * CheckTimeout - time

\* No more steps than these are left to the runner.
StepsLeft == 11 * TimeLeft + PlacesLeft

LEMMA PlacesAreFew ==
  ASSUME TypeOK
  PROVE  PlacesLeft \in 0 .. 10
  BY DEF TypeOK, PlacesLeft, Blocking, Ended

\* An attempt that failed is followed by a pause that has still to pass.
LEMMA RetryPauses ==
  ASSUME TypeOK, TransportFailure, time' = time
  PROVE  PlacesLeft' \in {0, 1}
  <1>1. CASE pc' = "deadline"
    BY <1>1 DEF PlacesLeft, Ended
  <1>2. CASE pc' = "sleep"
    <2>1. time < Timeout /\ until' = time + Pause
      BY <1>2 DEF TransportFailure
    <2>2. Pause \in Nat /\ Pause > 0
      BY <2>1, ReadinessAssumption DEF Pause, Least, TypeOK
    <2>3. time' < until'
      BY <2>1, <2>2 DEF TypeOK
    <2> QED
      BY <1>2, <2>2, <2>1, <2>3 DEF PlacesLeft, TypeOK
  <1> QED
    BY <1>1, <1>2 DEF TransportFailure

LEMMA Fewer ==
  ASSUME NEW t \in Int, NEW u \in Int, NEW p \in 0 .. 10, NEW q \in 0 .. 10,
         u < t \/ (u = t /\ q < p)
  PROVE  11 * u + q < 11 * t + p
  OBVIOUS

LEMMA StepCounts ==
  ASSUME ReadinessInv, Step
  PROVE  StepsLeft' < StepsLeft
  <1>0. /\ TypeOK /\ TypeOK' /\ CallEnds
        /\ PlacesLeft \in 0 .. 10 /\ PlacesLeft' \in 0 .. 10
    <2>1. TypeOK /\ TypeOK' /\ CallEnds
      BY StepKeepsTime DEF ReadinessInv
    <2>2. PlacesLeft' \in 0 .. 10
      BY <2>1 DEF TypeOK, PlacesLeft, Blocking, Ended
    <2> QED
      BY <2>1, <2>2, PlacesAreFew
  <1>1. ASSUME time' = time, PlacesLeft' < PlacesLeft
        PROVE  StepsLeft' < StepsLeft
    <2>1. TimeLeft' = TimeLeft /\ TimeLeft \in Int
      BY <1>0, <1>1, ReadinessAssumption DEF TimeLeft, TypeOK
    <2>2. 11 * TimeLeft' + PlacesLeft' < 11 * TimeLeft + PlacesLeft
      BY <1>0, <1>1, <2>1, Fewer
    <2> QED
      BY <2>2 DEF StepsLeft
  <1>2. CASE Tick
    <2>1. TimeLeft' = TimeLeft - 1 /\ TimeLeft \in Int
      BY <1>0, <1>2, ReadinessAssumption DEF Tick, TimeLeft, TypeOK
    <2>2. TimeLeft' \in Int /\ TimeLeft' < TimeLeft
      BY <2>1
    <2>3. 11 * TimeLeft' + PlacesLeft' < 11 * TimeLeft + PlacesLeft
      BY <1>0, <2>1, <2>2, Fewer
    <2> QED
      BY <2>3 DEF StepsLeft
  <1>3. CASE Top
    BY <1>0, <1>1, <1>3 DEF Top, PlacesLeft, Ended
  <1>4. CASE CheckBefore
    BY <1>0, <1>1, <1>4 DEF CheckBefore, PlacesLeft, Ended
  <1>5. CASE CheckFails
    BY <1>0, <1>1, <1>5 DEF CheckFails, PlacesLeft, Ended
  <1>6. CASE CheckAfter
    BY <1>0, <1>1, <1>6 DEF CheckAfter, PlacesLeft, Ended
  <1>7. CASE Wake
    BY <1>0, <1>1, <1>7 DEF Wake, PlacesLeft, Ended, TypeOK
  <1>8. CASE Connect
    BY <1>0, <1>1, <1>8 DEF Connect, PlacesLeft, Ended
  <1>9. CASE ConnectFails
    <2>1. PlacesLeft = 7
      BY <1>9 DEF ConnectFails, PlacesLeft, Ended
    <2> QED
      BY <1>0, <1>1, <1>9, <2>1, RetryPauses DEF ConnectFails
  <1>10. CASE Abort
    BY <1>0, <1>1, <1>10 DEF Abort, PlacesLeft, Ended
  <1>11. CASE ReadFails
    <2>1. PlacesLeft \in {5, 6}
      BY <1>0, <1>11 DEF ReadFails, PlacesLeft, Ended, TypeOK
    <2> QED
      BY <1>0, <1>1, <1>11, <2>1, RetryPauses DEF ReadFails
  <1>12. CASE ReadReturns
    BY <1>0, <1>1, <1>12 DEF ReadReturns, PlacesLeft, Ended, TypeOK
  <1>13. CASE Judge
    <2>1. PlacesLeft \in {3, 4}
      BY <1>0, <1>13 DEF Judge, PlacesLeft, Ended, TypeOK
    <2>2. CASE Aborted
      BY <1>0, <1>1, <1>13, <2>1, <2>2, RetryPauses DEF Judge
    <2>3. CASE ~Aborted
      <3>1. PlacesLeft' \in {0, 2}
        BY <1>13, <2>3 DEF Judge, PlacesLeft, Ended
      <3> QED
        BY <1>0, <1>1, <1>13, <2>1, <3>1 DEF Judge
    <2> QED
      BY <2>2, <2>3
  <1> QED
    BY <1>2, <1>3, <1>4, <1>5, <1>6, <1>7, <1>8, <1>9, <1>10, <1>11, <1>12, <1>13
    DEF Step

\* wait_external_readiness does not spin: every step of it, of its pauses and of
\* the clock brings the end nearer and nothing the container does puts it off, so
\* it takes no more steps than StepsLeft says at its start.  A check or request
\* that takes no time is still followed by a pause, and a pause is never empty.
THEOREM WaitRunsOut ==
  Spec => /\ [](StepsLeft \in Nat)
          /\ [][StepsLeft' <= StepsLeft /\ (Step => StepsLeft' < StepsLeft)]_vars
  <1>1. ReadinessInv => StepsLeft \in Nat
    <2> SUFFICES ASSUME ReadinessInv PROVE StepsLeft \in Nat
      OBVIOUS
    <2>1. TimeLeft \in Nat
      BY ReadinessAssumption DEF ReadinessInv, TypeOK, EndsByBound, TimeLeft
    <2>2. PlacesLeft \in 0 .. 10
      BY PlacesAreFew DEF ReadinessInv
    <2> QED
      BY <2>1, <2>2 DEF StepsLeft
  <1>2. ReadinessInv /\ [Next]_vars =>
          [StepsLeft' <= StepsLeft /\ (Step => StepsLeft' < StepsLeft)]_vars
    <2> SUFFICES ASSUME ReadinessInv, Next
                 PROVE  StepsLeft' <= StepsLeft /\ (Step => StepsLeft' < StepsLeft)
      OBVIOUS
    <2>1. StepsLeft \in Nat
      BY <1>1
    <2>2. CASE Step
      <3>1. StepsLeft' < StepsLeft
        BY <2>2, StepCounts
      <3>2. StepsLeft' \in Int
        <4>1. TypeOK' /\ time' \in Int
          BY <2>2, StepKeepsTime DEF TypeOK
        <4>2. PlacesLeft' \in Int
          BY <4>1 DEF TypeOK, PlacesLeft, Blocking, Ended
        <4>3. TimeLeft' \in Int
          BY <4>1, ReadinessAssumption DEF TimeLeft
        <4> QED
          BY <4>2, <4>3 DEF StepsLeft
      <3> QED
        BY <2>1, <3>1, <3>2
    <2>3. CASE Serve \/ Exit \/ Restart \/ Send
      <3>1. UNCHANGED <<time, pc, until, expired>>
        BY <2>3 DEF Serve, Exit, Restart, Send, runner
      <3>2. StepsLeft' = StepsLeft
        BY <3>1 DEF StepsLeft, TimeLeft, PlacesLeft
      <3>3. CASE Step
        BY <2>2, <3>3
      <3> QED
        BY <2>1, <3>2, <3>3
    <2> QED
      BY <2>2, <2>3 DEF Next
  <1> QED
    BY <1>1, <1>2, ReadinessCorrect, PTL DEF Spec
===============================================================================
