--------------------------- MODULE SequentialCohort ---------------------------
(***************************************************************************)
(* What a benchmark run promises, with no process, signal or command in    *)
(* it: the cohort is measured one member at a time, a member is complete   *)
(* only once nothing it created in Docker is left, and the result is       *)
(* published once, after the last member, or never.                        *)
(***************************************************************************)
EXTENDS Naturals

CONSTANT MemberCount

VARIABLES
  held,       \* members that own Docker resources of the run
  completed,  \* members measured and torn down, a prefix of the cohort
  result      \* "pending", "published" or "abandoned"

Init == held = {} /\ completed = 0 /\ result = "pending"

\* The member after the completed ones creates its first resource.  Something
\* it started may still do so after the run was abandoned.
Acquire ==
  /\ result # "published" /\ completed < MemberCount
  /\ held = {} /\ held' = {completed + 1}
  /\ UNCHANGED <<completed, result>>

\* The last resource of the run is removed.
Release ==
  /\ held' = {}
  /\ UNCHANGED <<completed, result>>

Complete ==
  /\ result = "pending" /\ held = {} /\ completed < MemberCount
  /\ completed' = completed + 1
  /\ UNCHANGED <<held, result>>

Publish ==
  /\ result = "pending" /\ held = {} /\ completed = MemberCount
  /\ result' = "published"
  /\ UNCHANGED <<held, completed>>

Abandon ==
  /\ result = "pending"
  /\ result' = "abandoned"
  /\ UNCHANGED <<held, completed>>

Next == Acquire \/ Release \/ Complete \/ Publish \/ Abandon

Spec == Init /\ [][Next]_<<held, completed, result>>
===============================================================================
