-------------------------- MODULE BenchmarkRunProofs --------------------------
(***************************************************************************)
(* Theorems about BenchmarkRun, for every cohort, every number of          *)
(* endpoints and measured runs, every number of container failures and     *)
(* signals.                                                                *)
(***************************************************************************)
EXTENDS BenchmarkRun, TLAPS

\* Stages from the entry of the finally to the next iteration or the exit.
CleanupStages ==
  {"finally", "guard"} \cup TeardownStages \cup {"restore", "restoring", "settle"}

\* Stages in which the previous member is settled and no member is running.
BetweenMembers == {"loop", "write", "replace", "unlink", "print"}

\* Stages of the body once the whole fixture of the member is up.
FixtureStages ==
  {"identify", "readiness", "processes", "contract", "accept", "measure",
   "load", "collect", "final"}

Fixture == {<<k, member>> : k \in Kinds}

\* No signal was raised in an unprotected window and no SIGKILL came.
Sheltered == ~lapsed /\ outcome # "killed"

\* Where the process is tells which exceptions, handlers and outcomes there are.
ControlInv ==
  /\ stage # "exit" <=> outcome = "running"
  /\ failure # "none" => stage \in CleanupStages \cup {"exit"}
  /\ lapsed => stage = "exit" \/ failure # "none"
  /\ stage \in TeardownStages \cup {"restore"} => ignored = Signals
  /\ stage \in BetweenMembers => teardown # "failed"
  /\ stage \in TryStages \cup {"finally", "guard"} \cup TeardownStages =>
       teardown = "none"
  /\ stage \in {"restore", "restoring", "settle"} => teardown # "none"
  /\ stage \in TryStages \cup CleanupStages => member \in Members
  /\ stage \in BetweenMembers \ {"loop"} => member = MemberCount + 1
  /\ outcome = "ok" => ~lapsed /\ teardown # "failed"
  /\ ~lapsed /\ outcome \in {"ok", "failed"} /\ teardown = "none" => resources = {}

\* At most the command of the current stage is alive, supervised or not.
CommandInv ==
  /\ watched => stage \in CommandStages /\ proc[stage] # "none"
  /\ Sheltered => \A s \in CommandStages : s # stage => proc[s] = "none"
  /\ member \notin Members => \A s \in CommandStages : proc[s] = "none"

\* Resources belong to the current member, are complete while it is measured
\* and are gone once cleanup has verified it.
ResourceInv ==
  /\ \A r \in resources : r[2] = member
  /\ stage \in FixtureStages => resources = Fixture
  /\ stage = "up_api" /\ proc["up_api"] = "ok" => resources = Fixture
  /\ stage \in BetweenMembers => resources = {}
  /\ Sheltered /\ stage = "verify_networks" => NoContainers
  /\ Sheltered /\ teardown = "ok" => resources = {}

LifecycleInv == ControlInv /\ CommandInv /\ ResourceInv

-------------------------------------------------------------------------------
(* Type correctness.                                                       *)

\* Raising keeps the type of everything it changes.
LEMMA RaiseType ==
  ASSUME TypeOK, NEW cause \in {"failed", "interrupted"}, Raise(cause)
  PROVE  /\ stage' \in Stages
         /\ proc' \in [CommandStages -> {"none", "running", "ok", "error"}]
         /\ watched' \in BOOLEAN
         /\ failure' \in {"none", "failed", "interrupted"}
         /\ teardown' \in {"none", "ok", "failed"}
  BY DEF TypeOK, Raise, KillWatched, Stages, TryStages, TeardownStages,
         CommandStages

\* Every step keeps the types.
LEMMA TypeStep == TypeOK /\ LifecycleInv /\ [Next]_vars => TypeOK'
  <1> USE BenchmarkAssumption
          DEF loopVars, commandVars, dockerVars, evidenceVars, errorVars,
              signalVars, resultVars, Goto, Members, Epochs
  <1> SUFFICES ASSUME TypeOK, LifecycleInv, [Next]_vars
               PROVE  TypeOK'
    OBVIOUS
  <1>1. CASE StartMember
    BY <1>1 DEF TypeOK, StartMember, Stages, TryStages
  <1>2. CASE LoopDone
    BY <1>2 DEF TypeOK, LoopDone, Stages
  <1>3. CASE Spawn
    BY <1>3 DEF TypeOK, Spawn, CommandStages
  <1>4. CASE Supervise
    BY <1>4 DEF TypeOK, Supervise, Unsupervised
  <1>5. CASE Tick \/ Timeout
    BY <1>5, RaiseType DEF TypeOK, Tick, Timeout
  <1>6. CASE Reap
    <2>1. CASE proc[stage] = "ok"
      <3>1. stage \in CommandStages
        BY <1>6 DEF Reap, LifecycleInv, CommandInv
      <3>2. AfterCommand[stage] \in Stages
        BY <3>1 DEF AfterCommand, CommandStages, Stages, TryStages, TeardownStages
      <3> QED
        BY <1>6, <2>1, <3>1, <3>2 DEF TypeOK, Reap
    <2>2. CASE proc[stage] # "ok"
      BY <1>6, <2>2, RaiseType DEF TypeOK, Reap
    <2> QED
      BY <2>1, <2>2
  <1>7. CASE Identify
    BY <1>7 DEF TypeOK, Identify, Stages, TryStages
  <1>8. CASE Ready
    BY <1>8 DEF TypeOK, Ready, Stages, TryStages
  <1>9. CASE Processes
    BY <1>9 DEF TypeOK, Processes, Stages, TryStages
  <1>10. CASE Contract
    <2>1. [endpoint |-> 0, index |-> 0, seen |-> seen] \in Evidence
      BY DEF TypeOK, Evidence
    <2> QED
      BY <1>10, <2>1 DEF TypeOK, Contract, Stages, TryStages
  <1>11. CASE Accept
    BY <1>11 DEF TypeOK, Accept, Stages, TryStages
  <1>12. CASE Measure
    BY <1>12 DEF TypeOK, Measure, Stages, TryStages
  <1>13. CASE Collect
    <2>1. [endpoint |-> endpoint, index |-> index, seen |-> seen] \in Evidence
      BY DEF TypeOK, Evidence
    <2>2. evidence' \subseteq Evidence
      BY <1>13, <2>1 DEF TypeOK, Collect
    <2>3. /\ stage' \in Stages
          /\ endpoint' \in 1 .. EndpointCount /\ index' \in 0 .. MeasuredRuns
      BY <1>13 DEF TypeOK, Collect, Advance, Stages, TryStages
    <2> QED
      BY <1>13, <2>2, <2>3 DEF TypeOK, Collect
  <1>14. CASE Final
    <2>1. member \in Members /\ identity \in Epochs
      BY <1>14 DEF TypeOK, Final, LifecycleInv, ControlInv, TryStages, Unchanged
    <2>2. [implementation |-> member, identity |-> identity,
           evidence |-> evidence] \in Backend
      BY <2>1 DEF TypeOK, Backend
    <2> QED
      BY <1>14, <2>2 DEF TypeOK, Final, Stages
  <1>15. CASE Fail \/ MustFail
    BY <1>15, RaiseType DEF TypeOK, Fail, MustFail
  <1>16. CASE GuardInterrupt
    BY <1>16 DEF TypeOK, GuardInterrupt, Stages, Signals
  <1>17. CASE GuardTerminate
    BY <1>17 DEF TypeOK, GuardTerminate, Stages, TeardownStages
  <1>18. CASE VerifyContainers
    BY <1>18, RaiseType DEF TypeOK, VerifyContainers, Stages, TeardownStages
  <1>19. CASE VerifyNetworks
    BY <1>19, RaiseType DEF TypeOK, VerifyNetworks, Stages
  <1>20. CASE RestoreInterrupt
    BY <1>20 DEF TypeOK, RestoreInterrupt, Stages, Signals
  <1>21. CASE RestoreTerminate
    BY <1>21 DEF TypeOK, RestoreTerminate, Stages
  <1>22. CASE Settle
    BY <1>22
       DEF TypeOK, Settle, ExitFailed, NothingRaised, Stages, LifecycleInv,
           ControlInv, CleanupStages
  <1>23. CASE Write
    BY <1>23 DEF TypeOK, Write, Stages
  <1>24. CASE Replace
    BY <1>24 DEF TypeOK, Replace, Renamed, Stages
  <1>25. CASE Unlink \/ ExitOk
    BY <1>25 DEF TypeOK, Unlink, ExitOk, Stages
  <1>26. CASE SaveFails
    BY <1>26 DEF TypeOK, SaveFails, ExitFailed, Stages
  <1>27. ASSUME NEW sig \in Signals, Interrupt(sig)
         PROVE  TypeOK'
    <2>1. CASE stage \in TryStages
      BY <1>27, <2>1, RaiseType DEF TypeOK, Interrupt, Unsupervised
    <2>2. CASE stage \notin TryStages
      BY <1>27, <2>2 DEF TypeOK, Interrupt, ExitFailed, Unsupervised, Stages
    <2> QED
      BY <2>1, <2>2
  <1>28. CASE Kill
    BY <1>28 DEF TypeOK, Kill, Stages
  <1>29. CASE Disturb
    BY <1>29 DEF TypeOK, Disturb
  <1>30. ASSUME NEW s \in CommandStages, Create(s)
         PROVE  TypeOK'
    BY <1>30
       DEF TypeOK, Create, Needed, Resource, Kinds, LifecycleInv, CommandInv
  <1>31. ASSUME NEW s \in CommandStages, CommandEnds(s)
         PROVE  TypeOK'
    BY <1>31 DEF TypeOK, CommandEnds
  <1>32. CASE Remove
    BY <1>32 DEF TypeOK, Remove
  <1>33. CASE UNCHANGED vars
    BY <1>33 DEF TypeOK, vars
  <1> QED
    BY <1>1, <1>2, <1>3, <1>4, <1>5, <1>6, <1>7, <1>8, <1>9, <1>10, <1>11,
       <1>12, <1>13, <1>14, <1>15, <1>16, <1>17, <1>18, <1>19, <1>20, <1>21,
       <1>22, <1>23, <1>24, <1>25, <1>26, <1>27, <1>28, <1>29, <1>30, <1>31,
       <1>32, <1>33
       DEF Next, Step, World

-------------------------------------------------------------------------------
(* The lifecycle invariant.                                                *)

\* Every step keeps the control invariant.
LEMMA ControlStep == TypeOK /\ LifecycleInv /\ [Next]_vars => ControlInv'
  <1> USE BenchmarkAssumption
          DEF loopVars, commandVars, dockerVars, evidenceVars, errorVars,
              signalVars, resultVars, Goto, Members,
              ControlInv, CleanupStages, BetweenMembers, TryStages,
              TeardownStages, CommandStages
  <1> SUFFICES ASSUME TypeOK, LifecycleInv, [Next]_vars
               PROVE  ControlInv'
    OBVIOUS
  <1> USE DEF LifecycleInv
  <1>1. CASE StartMember
    BY <1>1 DEF StartMember
  <1>2. CASE LoopDone
    BY <1>2 DEF LoopDone, TypeOK
  <1>3. CASE Spawn
    BY <1>3 DEF Spawn
  <1>4. CASE Supervise
    BY <1>4 DEF Supervise
  <1>5. CASE Tick
    BY <1>5 DEF Tick, Raise, KillWatched
  <1>6. CASE Timeout
    BY <1>6 DEF Timeout, Raise, KillWatched, CommandInv
  <1>7. CASE Reap
    BY <1>7 DEF Reap, Raise, KillWatched, CommandInv, AfterCommand
  <1>8. CASE Identify
    BY <1>8 DEF Identify
  <1>9. CASE Ready
    BY <1>9 DEF Ready
  <1>10. CASE Processes
    BY <1>10 DEF Processes
  <1>11. CASE Contract
    BY <1>11 DEF Contract
  <1>12. CASE Accept
    BY <1>12 DEF Accept
  <1>13. CASE Measure
    BY <1>13 DEF Measure
  <1>14. CASE Collect
    BY <1>14 DEF Collect, Advance
  <1>15. CASE Final
    BY <1>15 DEF Final
  <1>16. CASE Fail
    BY <1>16 DEF Fail, Raise, KillWatched
  <1>17. CASE MustFail
    BY <1>17 DEF MustFail, Fail, Raise, KillWatched
  <1>18. CASE GuardInterrupt
    BY <1>18 DEF GuardInterrupt
  <1>19. CASE GuardTerminate
    BY <1>19 DEF GuardTerminate
  <1>20. CASE VerifyContainers
    BY <1>20 DEF VerifyContainers, Raise, KillWatched
  <1>21. CASE VerifyNetworks
    BY <1>21 DEF VerifyNetworks, Raise, KillWatched
  <1>22. CASE RestoreInterrupt
    BY <1>22 DEF RestoreInterrupt
  <1>23. CASE RestoreTerminate
    BY <1>23 DEF RestoreTerminate
  <1>24. CASE Settle
    BY <1>24 DEF Settle, ExitFailed, NothingRaised, TypeOK, ResourceInv, Sheltered
  <1>25. CASE Write
    BY <1>25 DEF Write
  <1>26. CASE Replace
    BY <1>26 DEF Replace
  <1>27. CASE Unlink
    BY <1>27 DEF Unlink
  <1>28. CASE ExitOk
    BY <1>28 DEF ExitOk, ResourceInv
  <1>29. CASE SaveFails
    BY <1>29 DEF SaveFails, ExitFailed, ResourceInv
  <1>30. CASE Kill
    BY <1>30 DEF Kill
  <1>31. CASE Disturb
    BY <1>31 DEF Disturb
  <1>32. CASE Remove
    BY <1>32 DEF Remove
  <1>33. ASSUME NEW sig \in Signals, Interrupt(sig)
         PROVE  ControlInv'
    BY <1>33
       DEF Interrupt, Raise, KillWatched, ExitFailed, Unsupervised, ResourceInv,
           TypeOK, Stages
  <1>34. ASSUME NEW s \in CommandStages, Create(s)
         PROVE  ControlInv'
    BY <1>34 DEF Create, CommandInv, Sheltered
  <1>35. ASSUME NEW s \in CommandStages, CommandEnds(s)
         PROVE  ControlInv'
    BY <1>35 DEF CommandEnds
  <1>36. CASE UNCHANGED vars
    BY <1>36 DEF vars
  <1> QED
    BY <1>1, <1>2, <1>3, <1>4, <1>5, <1>6, <1>7, <1>8, <1>9, <1>10, <1>11,
       <1>12, <1>13, <1>14, <1>15, <1>16, <1>17, <1>18, <1>19, <1>20, <1>21,
       <1>22, <1>23, <1>24, <1>25, <1>26, <1>27, <1>28, <1>29, <1>30, <1>31,
       <1>32, <1>33, <1>34, <1>35, <1>36
       DEF Next, Step, World

\* Every step keeps the command invariant.
LEMMA CommandStep == TypeOK /\ LifecycleInv /\ [Next]_vars => CommandInv'
  <1> USE BenchmarkAssumption
          DEF loopVars, commandVars, dockerVars, evidenceVars, errorVars,
              signalVars, resultVars, Goto, Members, Sheltered,
              CommandInv, TryStages, TeardownStages, CommandStages
  <1> SUFFICES ASSUME TypeOK, LifecycleInv, [Next]_vars
               PROVE  CommandInv'
    OBVIOUS
  <1> USE DEF LifecycleInv, TypeOK
  <1>1. CASE StartMember
    BY <1>1 DEF StartMember, ControlInv
  <1>2. CASE LoopDone
    BY <1>2 DEF LoopDone
  <1>3. CASE Spawn
    BY <1>3 DEF Spawn, ControlInv, CleanupStages
  <1>4. CASE Supervise
    BY <1>4 DEF Supervise, Unsupervised
  <1>5. CASE Tick
    BY <1>5 DEF Tick, Raise, KillWatched
  <1>6. CASE Timeout
    BY <1>6 DEF Timeout, Raise, KillWatched
  <1>7. CASE Reap
    BY <1>7 DEF Reap, Raise, KillWatched
  <1>8. CASE Identify
    BY <1>8 DEF Identify
  <1>9. CASE Ready
    BY <1>9 DEF Ready
  <1>10. CASE Processes
    BY <1>10 DEF Processes
  <1>11. CASE Contract
    BY <1>11 DEF Contract
  <1>12. CASE Accept
    BY <1>12 DEF Accept
  <1>13. CASE Measure
    BY <1>13 DEF Measure
  <1>14. CASE Collect
    BY <1>14 DEF Collect, Advance
  <1>15. CASE Final
    BY <1>15 DEF Final
  <1>16. CASE Fail
    BY <1>16 DEF Fail, Raise, KillWatched, Unsupervised
  <1>17. CASE MustFail
    BY <1>17 DEF MustFail, Fail, Raise, KillWatched, Unsupervised
  <1>18. CASE GuardInterrupt
    BY <1>18 DEF GuardInterrupt
  <1>19. CASE GuardTerminate
    BY <1>19 DEF GuardTerminate
  <1>20. CASE VerifyContainers
    BY <1>20 DEF VerifyContainers, Raise, KillWatched
  <1>21. CASE VerifyNetworks
    BY <1>21 DEF VerifyNetworks, Raise, KillWatched
  <1>22. CASE RestoreInterrupt
    BY <1>22 DEF RestoreInterrupt
  <1>23. CASE RestoreTerminate
    BY <1>23 DEF RestoreTerminate
  <1>24. CASE Settle
    BY <1>24 DEF Settle, ExitFailed, NothingRaised, ControlInv
  <1>25. CASE Write
    BY <1>25 DEF Write
  <1>26. CASE Replace
    BY <1>26 DEF Replace
  <1>27. CASE Unlink
    BY <1>27 DEF Unlink
  <1>28. CASE ExitOk
    BY <1>28 DEF ExitOk, ControlInv
  <1>29. CASE SaveFails
    BY <1>29 DEF SaveFails, ExitFailed, ControlInv
  <1>30. CASE Kill
    BY <1>30 DEF Kill
  <1>31. CASE Disturb
    BY <1>31 DEF Disturb
  <1>32. CASE Remove
    BY <1>32 DEF Remove
  <1>33. ASSUME NEW sig \in Signals, Interrupt(sig)
         PROVE  CommandInv'
    <2>1. CASE stage \in TryStages
      BY <1>33, <2>1
         DEF Interrupt, Raise, KillWatched, Unsupervised, ControlInv
    <2>2. CASE stage \notin TryStages
      <3>1. stage \notin CommandStages
        BY <1>33, <2>2 DEF Interrupt, ControlInv
      <3> QED
        BY <1>33, <2>2, <3>1 DEF Interrupt, ExitFailed, Unsupervised, ControlInv
    <2> QED
      BY <2>1, <2>2
  <1>34. ASSUME NEW s \in CommandStages, Create(s)
         PROVE  CommandInv'
    BY <1>34 DEF Create
  <1>35. ASSUME NEW s \in CommandStages, CommandEnds(s)
         PROVE  CommandInv'
    BY <1>35 DEF CommandEnds
  <1>36. CASE UNCHANGED vars
    BY <1>36 DEF vars
  <1> QED
    BY <1>1, <1>2, <1>3, <1>4, <1>5, <1>6, <1>7, <1>8, <1>9, <1>10, <1>11,
       <1>12, <1>13, <1>14, <1>15, <1>16, <1>17, <1>18, <1>19, <1>20, <1>21,
       <1>22, <1>23, <1>24, <1>25, <1>26, <1>27, <1>28, <1>29, <1>30, <1>31,
       <1>32, <1>33, <1>34, <1>35, <1>36
       DEF Next, Step, World

\* Every step keeps the resource invariant.
LEMMA ResourceStep == TypeOK /\ LifecycleInv /\ [Next]_vars => ResourceInv'
  <1> USE BenchmarkAssumption
          DEF loopVars, commandVars, dockerVars, evidenceVars, errorVars,
              signalVars, resultVars, Goto, Members, Sheltered, Fixture,
              NoContainers, ResourceInv, TryStages, TeardownStages,
              CommandStages, FixtureStages, BetweenMembers
  <1> SUFFICES ASSUME TypeOK, LifecycleInv, [Next]_vars
               PROVE  ResourceInv'
    OBVIOUS
  <1> USE DEF LifecycleInv
  <1>1. CASE StartMember
    BY <1>1 DEF StartMember
  <1>2. CASE LoopDone
    BY <1>2 DEF LoopDone, ControlInv
  <1>3. CASE Spawn
    BY <1>3 DEF Spawn
  <1>4. CASE Supervise
    BY <1>4 DEF Supervise
  <1>5. CASE Tick
    BY <1>5 DEF Tick, Raise, KillWatched
  <1>6. CASE Timeout
    BY <1>6 DEF Timeout, Raise, KillWatched
  <1>7. CASE Reap
    <2>1. stage \in CommandStages
      BY <1>7 DEF Reap, CommandInv
    <2>2. CASE proc[stage] = "ok"
      <3>1. /\ stage' = AfterCommand[stage]
            /\ UNCHANGED <<resources, member, teardown, lapsed, outcome>>
            /\ proc' = [proc EXCEPT ![stage] = "none"]
        BY <1>7, <2>2 DEF Reap
      <3>2. stage' \in FixtureStages => stage \in {"up_api", "load"}
        BY <2>1, <3>1 DEF AfterCommand
      <3>3. stage' \notin BetweenMembers /\ stage' # "verify_networks"
        BY <2>1, <3>1 DEF AfterCommand
      <3>4. stage' = "up_api" => proc'["up_api"] # "ok"
        <4>1. stage' = "up_api" => stage = "up_postgres"
          BY <2>1, <3>1 DEF AfterCommand
        <4>2. stage = "up_postgres" => proc["up_api"] = "none"
          BY DEF ControlInv, CommandInv, CleanupStages
        <4> QED
          BY <3>1, <4>1, <4>2 DEF TypeOK
      <3> QED
        BY <2>2, <3>1, <3>2, <3>3, <3>4
    <2>3. CASE proc[stage] # "ok"
      BY <1>7, <2>3 DEF Reap, Raise, KillWatched
    <2> QED
      BY <2>2, <2>3
  <1>8. CASE Identify
    BY <1>8 DEF Identify
  <1>9. CASE Ready
    BY <1>9 DEF Ready
  <1>10. CASE Processes
    BY <1>10 DEF Processes
  <1>11. CASE Contract
    BY <1>11 DEF Contract
  <1>12. CASE Accept
    BY <1>12 DEF Accept
  <1>13. CASE Measure
    BY <1>13 DEF Measure
  <1>14. CASE Collect
    BY <1>14 DEF Collect, Advance
  <1>15. CASE Final
    BY <1>15 DEF Final
  <1>16. CASE Fail
    BY <1>16 DEF Fail, Raise, KillWatched
  <1>17. CASE MustFail
    BY <1>17 DEF MustFail, Fail, Raise, KillWatched
  <1>18. CASE GuardInterrupt
    BY <1>18 DEF GuardInterrupt
  <1>19. CASE GuardTerminate
    BY <1>19 DEF GuardTerminate
  <1>20. CASE VerifyContainers
    BY <1>20 DEF VerifyContainers, Raise, KillWatched
  <1>21. CASE VerifyNetworks
    BY <1>21 DEF VerifyNetworks, Raise, KillWatched, NoNetworks
  <1>22. CASE RestoreInterrupt
    BY <1>22 DEF RestoreInterrupt
  <1>23. CASE RestoreTerminate
    BY <1>23 DEF RestoreTerminate
  <1>24. CASE Settle
    BY <1>24 DEF Settle, ExitFailed, NothingRaised, ControlInv
  <1>25. CASE Write
    BY <1>25 DEF Write
  <1>26. CASE Replace
    BY <1>26 DEF Replace
  <1>27. CASE Unlink
    BY <1>27 DEF Unlink
  <1>28. CASE ExitOk
    BY <1>28 DEF ExitOk
  <1>29. CASE SaveFails
    BY <1>29 DEF SaveFails, ExitFailed
  <1>30. CASE Kill
    BY <1>30 DEF Kill
  <1>31. CASE Disturb
    BY <1>31 DEF Disturb
  <1>32. CASE Remove
    <2>1. Sheltered /\ stage # "exit" => stage = "down"
      BY <1>32 DEF Remove, CommandInv
    <2>2. ~Sheltered => stage \in CleanupStages \cup {"exit"}
      BY DEF ControlInv
    <2>3. stage = "exit" => ~Sheltered
      BY <1>32 DEF Remove, CommandInv
    <2>4. resources' \subseteq resources
      BY <1>32 DEF Remove
    <2> QED
      BY <1>32, <2>1, <2>2, <2>3, <2>4 DEF Remove, CleanupStages
  <1>33. ASSUME NEW sig \in Signals, Interrupt(sig)
         PROVE  ResourceInv'
    BY <1>33 DEF Interrupt, Raise, KillWatched, ExitFailed, ControlInv
  <1>34. ASSUME NEW s \in CommandStages, Create(s)
         PROVE  ResourceInv'
    <2>1. Sheltered => stage = s
      BY <1>34 DEF Create, CommandInv
    <2>2. ~Sheltered => stage \in CleanupStages \cup {"exit"}
      BY DEF ControlInv
    <2>3. \A r \in resources' : r[2] = member
      BY <1>34 DEF Create
    <2> QED
      BY <1>34, <2>1, <2>2, <2>3 DEF Create, CleanupStages, ControlInv
  <1>35. ASSUME NEW s \in CommandStages, CommandEnds(s)
         PROVE  ResourceInv'
    <2>1. ASSUME stage = "up_api", proc'["up_api"] = "ok", proc["up_api"] # "ok"
          PROVE  resources = Fixture
      <3>1. \A k \in Kinds : \E m \in Members : <<k, m>> \in resources
        BY <1>35, <2>1 DEF CommandEnds, Needed, TypeOK
      <3>2. \A k \in Kinds : <<k, member>> \in resources
        BY <3>1
      <3>3. \A r \in resources : r \in Fixture
        BY DEF TypeOK, Resource
      <3> QED
        BY <3>2, <3>3
    <2> QED
      BY <1>35, <2>1 DEF CommandEnds
  <1>36. CASE UNCHANGED vars
    BY <1>36 DEF vars
  <1> QED
    BY <1>1, <1>2, <1>3, <1>4, <1>5, <1>6, <1>7, <1>8, <1>9, <1>10, <1>11,
       <1>12, <1>13, <1>14, <1>15, <1>16, <1>17, <1>18, <1>19, <1>20, <1>21,
       <1>22, <1>23, <1>24, <1>25, <1>26, <1>27, <1>28, <1>29, <1>30, <1>31,
       <1>32, <1>33, <1>34, <1>35, <1>36
       DEF Next, Step, World

-------------------------------------------------------------------------------
(* Safety.                                                                 *)

\* The initial states satisfy both.
LEMMA InitSafe == Init => TypeOK /\ LifecycleInv
  <1> SUFFICES ASSUME Init PROVE TypeOK /\ LifecycleInv
    OBVIOUS
  <1> USE BenchmarkAssumption
  <1>1. TypeOK
    <2>1. /\ member \in 1 .. (MemberCount + 1)
          /\ endpoint \in 1 .. EndpointCount /\ index \in 0 .. MeasuredRuns
          /\ epoch \in Epochs /\ signals \in 0 .. MaxSignals
      BY DEF Init, Epochs
    <2>2. stage \in Stages /\ identity \in Epochs \cup {NoIdentity}
      BY DEF Init, Stages
    <2> QED
      BY <2>1, <2>2 DEF Init, TypeOK, Previous
  <1>2. ControlInv
    BY DEF Init, ControlInv, CleanupStages, BetweenMembers, TryStages,
           TeardownStages
  <1>3. CommandInv
    BY DEF Init, CommandInv, Members
  <1>4. ResourceInv
    BY DEF Init, ResourceInv, FixtureStages, BetweenMembers
  <1> QED
    BY <1>1, <1>2, <1>3, <1>4 DEF LifecycleInv

\* Every variable always has its type, and the lifecycle invariant holds.
THEOREM LifecycleCorrect == Spec => [](TypeOK /\ LifecycleInv)
  <1>1. Init => TypeOK /\ LifecycleInv
    BY InitSafe
  <1>2. TypeOK /\ LifecycleInv /\ [Next]_vars => TypeOK' /\ LifecycleInv'
    BY TypeStep, ControlStep, CommandStep, ResourceStep DEF LifecycleInv
  <1> QED
    BY <1>1, <1>2, PTL DEF Spec

\* Every variable always has its type.
THEOREM TypeCorrect == Spec => []TypeOK
  BY LifecycleCorrect, PTL

\* While the contract or a load runs, the Docker resources of the project are
\* exactly the fixture of the member being measured.
THEOREM MeasurementIsolated == Spec => []IsolatedMeasurement
  <1>1. LifecycleInv => IsolatedMeasurement
    BY DEF LifecycleInv, ResourceInv, IsolatedMeasurement, FixtureStages, Fixture
  <1> QED
    BY <1>1, LifecycleCorrect, PTL

\* A process that ended by itself and left Docker resources exits 1, and either
\* its cleanup failed or a signal was raised in an unprotected window.
THEOREM ExitReclaims == Spec => []ReclaimedOnExit
  <1>1. TypeOK /\ LifecycleInv => ReclaimedOnExit
    BY DEF TypeOK, LifecycleInv, ControlInv, ResourceInv, Sheltered,
           ReclaimedOnExit
  <1> QED
    BY <1>1, LifecycleCorrect, PTL

\* What docs/BENCHMARK.md promises without exception and the code keeps unless a
\* signal is raised between a Popen and its try or between the finally and the
\* second SIG_IGN: no command of the body runs while the project is removed.
THEOREM TeardownIsAlone == Spec => [](~lapsed => NoCommandDuringTeardown)
  <1>1. TypeOK /\ LifecycleInv => (~lapsed => NoCommandDuringTeardown)
    <2> SUFFICES ASSUME TypeOK, LifecycleInv, ~lapsed, stage \in TeardownStages,
                        NEW s \in CommandStages \ {"down"}
                 PROVE  proc[s] # "running"
      BY DEF NoCommandDuringTeardown
    <2>1. Sheltered /\ stage # s
      BY DEF LifecycleInv, ControlInv, Sheltered, TeardownStages, CommandStages
    <2> QED
      BY <2>1 DEF LifecycleInv, CommandInv
  <1> QED
    BY <1>1, LifecycleCorrect, PTL

\* Likewise a failed or interrupted run that left Docker resources has said so:
\* its cleanup failed.
THEOREM CleanupOwnsUp == Spec => [](~lapsed => InterruptionReclaims)
  <1>1. TypeOK /\ LifecycleInv => (~lapsed => InterruptionReclaims)
    BY DEF TypeOK, LifecycleInv, ControlInv, ResourceInv, Sheltered,
           InterruptionReclaims
  <1> QED
    BY <1>1, LifecycleCorrect, PTL

\* No command outlives the call of process.execute that started it, nor the run:
\* only SIGKILL, or a signal in an unprotected window, leaves a process group
\* behind, whatever raises where (the kill in execute's except).
CommandsEndWithTheirStage ==
  ~lapsed /\ outcome # "killed" =>
    \A s \in CommandStages : proc[s] # "none" => stage = s

\* So it is in every reachable state.
THEOREM NoCommandIsOrphaned == Spec => []CommandsEndWithTheirStage
  <1>1. LifecycleInv => CommandsEndWithTheirStage
    BY DEF LifecycleInv, CommandInv, Sheltered, CommandsEndWithTheirStage
  <1> QED
    BY <1>1, LifecycleCorrect, PTL

\* latest.json changes only in a local run with nothing left in Docker and no
\* command alive.
THEOREM PublicationClean == Spec => PublishedOnlyWhenClean
  <1>1. TypeOK /\ LifecycleInv /\ [Next]_vars =>
          [latest' # latest =>
             /\ ~smoke
             /\ resources = {}
             /\ \A s \in CommandStages : proc[s] = "none"]_vars
    <2> SUFFICES ASSUME TypeOK, LifecycleInv, [Next]_vars, latest' # latest
                 PROVE  /\ ~smoke
                        /\ resources = {}
                        /\ \A s \in CommandStages : proc[s] = "none"
      OBVIOUS
    <2>1. Replace
      BY DEF Next, Step, World, vars, loopVars, commandVars, dockerVars,
             evidenceVars, errorVars, signalVars, resultVars, StartMember,
             LoopDone, Spawn, Supervise, Tick, Timeout, Reap, Identify, Ready,
             Processes, Contract, Accept, Measure, Collect, Final, MustFail,
             Fail, GuardInterrupt, GuardTerminate, VerifyContainers,
             VerifyNetworks, RestoreInterrupt, RestoreTerminate, Settle,
             ExitFailed, Write, Unlink, ExitOk, SaveFails, Kill, Disturb,
             Interrupt, Create, CommandEnds, Remove
    <2>2. stage = "replace" /\ ~smoke
      BY <2>1 DEF Replace, Renamed, Goto
    <2>3. resources = {}
      BY <2>2 DEF LifecycleInv, ResourceInv, BetweenMembers
    <2>4. \A s \in CommandStages : proc[s] = "none"
      <3>1. member \notin Members
        BY <2>2, BenchmarkAssumption
           DEF LifecycleInv, ControlInv, BetweenMembers, Members
      <3> QED
        BY <3>1 DEF LifecycleInv, CommandInv
    <2> QED
      BY <2>2, <2>3, <2>4
  <1> QED
    BY <1>1, LifecycleCorrect, PTL DEF Spec, PublishedOnlyWhenClean
-------------------------------------------------------------------------------
(* How far the run is from its end.                                        *)

\* Stages still to come for this member, and after the last one; those of the
\* measuring loop count as one.
StagesLeft ==
  CASE stage = "loop" -> 20
    [] stage = "build" -> 19
    [] stage = "up_postgres" -> 18
    [] stage = "up_api" -> 17
    [] stage = "identify" -> 16
    [] stage = "readiness" -> 15
    [] stage = "processes" -> 14
    [] stage = "contract" -> 13
    [] stage = "accept" -> 12
    [] stage \in {"measure", "load", "collect"} -> 11
    [] stage = "final" -> 10
    [] stage = "finally" -> 9
    [] stage = "guard" -> 8
    [] stage = "down" -> 7
    [] stage = "verify_containers" -> 6
    [] stage = "verify_networks" -> 5
    [] stage \in {"restore", "write"} -> 4
    [] stage \in {"restoring", "replace"} -> 3
    [] stage \in {"settle", "unlink"} -> 2
    [] stage = "print" -> 1
    [] stage = "exit" -> 0

\* What is left of one measured run, or of one command.
TurnsLeft ==
  CASE stage = "measure" -> 5
    [] stage \in CommandStages /\ proc[stage] = "none" -> 4
    [] Unsupervised -> 3
    [] stage \in CommandStages /\ watched /\ proc[stage] # "none" ->
         (IF stage = "load" /\ sampled THEN 1 ELSE 2)
    [] OTHER -> 0

\* The end comes nearer: in members, or else in stages, endpoints, runs or turns.
Nearer ==
  \/ member < member'
  \/ /\ UNCHANGED member
     /\ \/ StagesLeft' < StagesLeft
        \/ /\ UNCHANGED StagesLeft
           /\ \/ endpoint < endpoint'
              \/ UNCHANGED endpoint /\ index < index'
              \/ UNCHANGED <<endpoint, index>> /\ TurnsLeft' < TurnsLeft

AsFar == UNCHANGED <<member, StagesLeft, endpoint, index, TurnsLeft>>

LEMMA StepIsNearer ==
  ASSUME TypeOK, LifecycleInv, Step, ~UNCHANGED vars
  PROVE  Nearer
  <1> USE DEF loopVars, commandVars, dockerVars, evidenceVars, errorVars,
              signalVars, resultVars, Goto, Nearer, StagesLeft
  <1>1. CASE StartMember
    BY <1>1 DEF StartMember
  <1>2. CASE LoopDone
    BY <1>2 DEF LoopDone
  <1>3. CASE Spawn
    <2>1. ~watched /\ stage \in CommandStages /\ proc[stage] = "none"
      BY <1>3 DEF Spawn, LifecycleInv, CommandInv
    <2>2. TurnsLeft = 4
      BY <2>1 DEF TurnsLeft, CommandStages, Unsupervised
    <2>3. /\ proc'[stage] = "running" /\ ~watched' /\ stage' = stage
          /\ UNCHANGED <<member, endpoint, index>>
      BY <1>3, <2>1 DEF Spawn, TypeOK
    <2>4. TurnsLeft' = 3
      BY <2>1, <2>3 DEF TurnsLeft, CommandStages, Unsupervised
    <2> QED
      BY <2>2, <2>3, <2>4
  <1>4. CASE Supervise
    <2>1. TurnsLeft = 3
      BY <1>4 DEF Supervise, Unsupervised, TurnsLeft, CommandStages
    <2>2. TurnsLeft' \in {1, 2}
      BY <1>4 DEF Supervise, Unsupervised, TurnsLeft, CommandStages
    <2> QED
      BY <1>4, <2>1, <2>2 DEF Supervise
  <1>5. CASE Tick
    <2>1. CASE epoch = identity
      <3>1. sampled' /\ UNCHANGED <<stage, proc, watched, member, endpoint, index>>
        BY <1>5, <2>1 DEF Tick
      <3>2. ~sampled
        BY <1>5, <2>1, <3>1 DEF Tick, TypeOK, vars
      <3>3. TurnsLeft = 2 /\ TurnsLeft' = 1
        BY <1>5, <3>1, <3>2 DEF Tick, TurnsLeft, CommandStages, Unsupervised
      <3> QED
        BY <3>1, <3>3
    <2>2. CASE epoch # identity
      <3>1. stage = "load" /\ stage' = "finally" /\ UNCHANGED member
        BY <1>5, <2>2 DEF Tick, Raise, TeardownStages
      <3>2. StagesLeft = 11 /\ StagesLeft' = 9
        BY <3>1
      <3> QED
        BY <3>1, <3>2
    <2> QED
      BY <2>1, <2>2
  <1>6. CASE Timeout
    BY <1>6 DEF Timeout, Raise, LifecycleInv, CommandInv, TryStages, TeardownStages
  <1>7. CASE Reap
    BY <1>7 DEF Reap, Raise, LifecycleInv, CommandInv, AfterCommand, CommandStages,
           TryStages, TeardownStages, TurnsLeft, Unsupervised
  <1>8. CASE Identify \/ Ready \/ Processes \/ Contract \/ Accept
    BY <1>8 DEF Identify, Ready, Processes, Contract, Accept
  <1>9. CASE Measure
    <2>1. TurnsLeft = 5
      BY <1>9 DEF Measure, TurnsLeft, CommandStages, Unsupervised
    <2>2. TurnsLeft' \in {1, 2, 3, 4, 0}
      BY <1>9 DEF Measure, TurnsLeft, CommandStages, Unsupervised
    <2> QED
      BY <1>9, <2>1, <2>2 DEF Measure
  <1>10. CASE Collect
    BY <1>10 DEF Collect, Advance, TypeOK
  <1>11. CASE Final
    BY <1>11 DEF Final
  <1>12. CASE MustFail
    BY <1>12 DEF MustFail, Fail, Raise, TeardownStages
  <1>13. CASE GuardInterrupt \/ GuardTerminate \/ RestoreInterrupt \/ RestoreTerminate
    BY <1>13 DEF GuardInterrupt, GuardTerminate, RestoreInterrupt, RestoreTerminate
  <1>14. CASE VerifyContainers \/ VerifyNetworks
    BY <1>14 DEF VerifyContainers, VerifyNetworks, Raise, TryStages
  <1>15. CASE Settle
    BY <1>15 DEF Settle, ExitFailed, TypeOK
  <1>16. CASE Write \/ Replace \/ Unlink \/ ExitOk
    BY <1>16 DEF Write, Replace, Unlink, ExitOk
  <1> QED
    BY <1>1, <1>2, <1>3, <1>4, <1>5, <1>6, <1>7, <1>8, <1>9, <1>10, <1>11,
       <1>12, <1>13, <1>14, <1>15, <1>16 DEF Step

\* Whatever happens to it, the run is never further from its end.
LEMMA WorldIsNoSetback ==
  ASSUME TypeOK, LifecycleInv, World
  PROVE  Nearer \/ AsFar
  <1> USE DEF loopVars, commandVars, dockerVars, evidenceVars, errorVars,
              signalVars, resultVars, Nearer, AsFar
  <1>1. CASE Fail
    BY <1>1 DEF Fail, Raise, TryStages, TeardownStages, StagesLeft
  <1>2. CASE SaveFails \/ Kill
    BY <1>2 DEF SaveFails, ExitFailed, Kill, TypeOK, Stages, TryStages, TeardownStages,
           StagesLeft
  <1>3. ASSUME NEW sig \in Signals, Interrupt(sig)
        PROVE  Nearer \/ AsFar
    BY <1>3 DEF Interrupt, Raise, ExitFailed, TypeOK, Stages, TryStages, TeardownStages,
           StagesLeft
  <1>4. CASE Disturb \/ Remove
    <2>1. UNCHANGED <<stage, proc, watched, sampled, member, endpoint, index>>
      BY <1>4 DEF Disturb, Remove
    <2> QED
      BY <2>1 DEF StagesLeft, TurnsLeft, Unsupervised
  <1>5. ASSUME NEW s \in CommandStages, Create(s)
        PROVE  Nearer \/ AsFar
    <2>1. UNCHANGED <<stage, proc, watched, sampled, member, endpoint, index>>
      BY <1>5 DEF Create
    <2> QED
      BY <2>1 DEF StagesLeft, TurnsLeft, Unsupervised
  <1>6. ASSUME NEW s \in CommandStages, CommandEnds(s)
        PROVE  Nearer \/ AsFar
    <2>1. UNCHANGED <<stage, watched, sampled, member, endpoint, index>>
      BY <1>6 DEF CommandEnds
    <2>2. \A c \in CommandStages : proc'[c] = "none" <=> proc[c] = "none"
      BY <1>6 DEF CommandEnds, TypeOK
    <2> QED
      BY <2>1, <2>2 DEF StagesLeft, TurnsLeft, Unsupervised
  <1> QED
    BY <1>1, <1>2, <1>3, <1>4, <1>5, <1>6 DEF World

\* The run is well-founded: every step of the process (save a poll of a load
\* that changes nothing, which its deadline limits) brings the end nearer, in
\* an order without infinite descent, and no command, container, error or signal
\* puts it off: there is no way back to a stage, a run or a member
\* (run_benchmark's loops, execute's deadline).
THEOREM RunGetsNearer ==
  Spec => /\ [](StagesLeft \in 0 .. 20 /\ TurnsLeft \in 0 .. 5)
          /\ [][(Nearer \/ AsFar) /\ (Step => Nearer)]_vars
  <1>1. TypeOK => StagesLeft \in 0 .. 20 /\ TurnsLeft \in 0 .. 5
    BY DEF TypeOK, Stages, TryStages, TeardownStages, StagesLeft, TurnsLeft
  <1>2. TypeOK /\ LifecycleInv /\ [Next]_vars =>
          [(Nearer \/ AsFar) /\ (Step => Nearer)]_vars
    BY StepIsNearer, WorldIsNoSetback DEF Next
  <1> QED
    BY <1>1, <1>2, LifecycleCorrect, PTL DEF Spec
===============================================================================
