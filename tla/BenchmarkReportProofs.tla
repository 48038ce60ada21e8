------------------------- MODULE BenchmarkReportProofs -------------------------
(***************************************************************************)
(* What a published report contains, for every value of the constants of   *)
(* BenchmarkRun: every run of every member, each served by one undisturbed *)
(* container.  Rests on the lifecycle invariant of BenchmarkRunProofs.     *)
(***************************************************************************)
EXTENDS BenchmarkRunProofs

\* The instances in S were up after the identity was taken.
SinceIdentity(S) == S # {} /\ \A x \in S : identity <= x /\ x <= epoch

\* A measured run that comes before the current position.
Done(n, i) ==
  n < endpoint \/ (n = endpoint /\ (i < index \/ stage = "final"))

BeforeContract ==
  {"build", "up_postgres", "up_api", "identify", "readiness", "processes",
   "contract"}
Measuring == {"measure", "load", "collect", "final"}

\* What the current backend has recorded at each stage.
EvidenceInv ==
  /\ stage \in FixtureStages \ {"identify"} =>
       identity \in Epochs /\ identity <= epoch
  /\ stage \in {"contract", "collect"} => SinceIdentity(seen)
  /\ stage = "load" /\ proc["load"] # "none" => SinceIdentity(seen)
  /\ stage \in BeforeContract => evidence = {}
  /\ stage \in BeforeContract \cup {"accept"} => endpoint = 1 /\ index = 0
  /\ stage = "accept" =>
       /\ \E e \in evidence : e.endpoint = 0
       /\ \A e \in evidence : SinceIdentity(e.seen)
  /\ stage \in Measuring =>
       /\ \E e \in evidence : e.endpoint = 0
       /\ \A e \in evidence : e.seen = {identity}
       /\ \A n \in 1 .. EndpointCount, i \in 1 .. MeasuredRuns :
            Done(n, i) => \E e \in evidence : e.endpoint = n /\ e.index = i
  /\ stage = "final" => endpoint = EndpointCount

\* The report holds one complete backend for each member already measured.
ReportInv ==
  /\ \A b \in report :
       /\ Complete(b)
       /\ \/ b.implementation < member
          \/ b.implementation = member /\ stage \in CleanupStages \cup {"exit"}
  /\ \A b, c \in report : b.implementation = c.implementation => b = c
  /\ \A m \in Members : m < member => \E b \in report : b.implementation = m
  /\ failure = "none" /\ stage \in CleanupStages =>
       \E b \in report : b.implementation = member

\* latest.json holds the previous document or a whole report.
SavedInv ==
  /\ PublishedReportIsComplete
  /\ smoke => latest = Previous
  /\ latest # Previous =>
       stage \in {"unlink", "print", "exit"} /\ member \notin Members
  /\ ~smoke /\ (stage \in {"unlink", "print"} \/ outcome = "ok") =>
       latest # Previous

\* Instances up since the identity was taken, when it has not changed since.
LEMMA OnlyIdentity ==
  ASSUME NEW S \in SUBSET Epochs, epoch \in Epochs, SinceIdentity(S),
         epoch = identity
  PROVE  S = {identity}
  <1>1. \A x \in S : x = identity
    BY BenchmarkAssumption DEF SinceIdentity, Epochs
  <1> QED
    BY <1>1 DEF SinceIdentity

\* Every step keeps what the current backend has recorded.
LEMMA EvidenceStep ==
  TypeOK /\ LifecycleInv /\ EvidenceInv /\ [Next]_vars => EvidenceInv'
  <1> USE BenchmarkAssumption
          DEF loopVars, commandVars, dockerVars, evidenceVars, errorVars,
              signalVars, resultVars, Goto, Epochs, FixtureStages,
              BeforeContract, Measuring, Done, SinceIdentity, EvidenceInv
  <1> SUFFICES ASSUME TypeOK, LifecycleInv, EvidenceInv, [Next]_vars
               PROVE  EvidenceInv'
    OBVIOUS
  <1> USE DEF LifecycleInv, TypeOK
  <1>1. CASE StartMember
    BY <1>1 DEF StartMember
  <1>2. CASE LoopDone
    BY <1>2 DEF LoopDone
  <1>3. CASE Spawn
    BY <1>3 DEF Spawn, CommandStages
  <1>4. CASE Supervise
    BY <1>4 DEF Supervise, Unsupervised
  <1>5. CASE Tick
    <2>1. CASE epoch = identity
      BY <1>5, <2>1 DEF Tick
    <2>2. CASE epoch # identity
      <3>1. stage' = "finally"
        BY <1>5, <2>2 DEF Tick, Raise, TeardownStages
      <3> QED
        BY <3>1
    <2> QED
      BY <2>1, <2>2
  <1>6. CASE Timeout
    BY <1>6 DEF Timeout, Raise, KillWatched, TryStages, TeardownStages
  <1>7. CASE Reap
    BY <1>7 DEF Reap, Raise, KillWatched, CommandInv, AfterCommand, CommandStages
  <1>8. CASE Identify
    BY <1>8 DEF Identify
  <1>9. CASE Ready
    BY <1>9 DEF Ready, Unchanged
  <1>10. CASE Processes
    BY <1>10 DEF Processes
  <1>11. CASE Contract
    <2>1. evidence' = {[endpoint |-> 0, index |-> 0, seen |-> seen]}
      BY <1>11 DEF Contract
    <2>2. SinceIdentity(seen) /\ identity \in Epochs /\ identity <= epoch
      BY <1>11 DEF Contract
    <2>3. /\ stage' = "accept" /\ endpoint' = 1 /\ index' = 0
          /\ UNCHANGED <<identity, epoch>>
      BY <1>11 DEF Contract
    <2> QED
      BY <2>1, <2>2, <2>3
  <1>12. CASE Accept
    <2>1. \A e \in evidence : e.seen = {identity}
      BY <1>12, OnlyIdentity DEF Accept, Unchanged, Evidence
    <2>2. \A n \in 1 .. EndpointCount, i \in 1 .. MeasuredRuns : ~Done(n, i)'
      BY <1>12 DEF Accept
    <2> QED
      BY <1>12, <2>1, <2>2 DEF Accept
  <1>13. CASE Measure
    <2>1. proc["load"] = "none"
      BY <1>13
         DEF Measure, ControlInv, CommandInv, Sheltered, CommandStages,
             CleanupStages, TeardownStages
    <2> QED
      BY <1>13, <2>1 DEF Measure
  <1>14. CASE Collect
    <2> DEFINE run == [endpoint |-> endpoint, index |-> index, seen |-> seen]
    <2>1. seen = {identity}
      BY <1>14, OnlyIdentity DEF Collect, Unchanged
    <2>2. /\ evidence' = IF index = 0 THEN evidence ELSE evidence \cup {run}
          /\ UNCHANGED <<identity, epoch>>
          /\ stage' \in {"measure", "final"}
      BY <1>14 DEF Collect, Advance
    <2>3. \E e \in evidence' : e.endpoint = 0
      BY <1>14, <2>2 DEF Collect
    <2>4. \A e \in evidence' : e.seen = {identity}
      BY <1>14, <2>1, <2>2 DEF Collect
    <2>5. ASSUME NEW n \in 1 .. EndpointCount, NEW i \in 1 .. MeasuredRuns,
                 Done(n, i)'
          PROVE  \E e \in evidence' : e.endpoint = n /\ e.index = i
      <3>1. CASE n = endpoint /\ i = index
        <4>1. run \in evidence' /\ run.endpoint = n /\ run.index = i
          BY <2>2, <3>1
        <4> QED
          BY <4>1
      <3>2. CASE ~(n = endpoint /\ i = index)
        <4>1. Done(n, i)
          BY <1>14, <2>5, <3>2 DEF Collect, Advance
        <4> QED
          BY <1>14, <2>2, <4>1 DEF Collect
      <3> QED
        BY <3>1, <3>2
    <2>6. stage' = "final" => endpoint' = EndpointCount
      BY <1>14 DEF Collect, Advance
    <2>7. identity \in Epochs /\ identity <= epoch
      BY <1>14 DEF Collect
    <2> QED
      BY <2>2, <2>3, <2>4, <2>5, <2>6, <2>7
  <1>15. CASE Final
    BY <1>15 DEF Final
  <1>16. CASE Fail
    BY <1>16 DEF Fail, Raise, KillWatched
  <1>17. CASE MustFail
    BY <1>17 DEF MustFail, Fail, Raise, KillWatched
  <1>18. CASE GuardInterrupt
    BY <1>18 DEF GuardInterrupt
  <1>19. CASE GuardTerminate
    BY <1>19 DEF GuardTerminate
  <1>20. CASE VerifyContainers
    BY <1>20 DEF VerifyContainers, Raise, KillWatched
  <1>21. CASE VerifyNetworks
    BY <1>21 DEF VerifyNetworks, Raise, KillWatched
  <1>22. CASE RestoreInterrupt
    BY <1>22 DEF RestoreInterrupt
  <1>23. CASE RestoreTerminate
    BY <1>23 DEF RestoreTerminate
  <1>24. CASE Settle
    BY <1>24 DEF Settle, ExitFailed
  <1>25. CASE Write
    BY <1>25 DEF Write
  <1>26. CASE Replace
    BY <1>26 DEF Replace
  <1>27. CASE Unlink
    BY <1>27 DEF Unlink
  <1>28. CASE ExitOk
    BY <1>28 DEF ExitOk
  <1>29. CASE SaveFails
    BY <1>29 DEF SaveFails, ExitFailed
  <1>30. CASE Kill
    BY <1>30 DEF Kill
  <1>31. CASE Disturb
    <2>1. epoch' = epoch + 1 /\ UNCHANGED <<stage, proc, identity, evidence, endpoint, index>>
      BY <1>31 DEF Disturb
    <2>2. ASSUME NEW S \in SUBSET Epochs, SinceIdentity(S), identity \in Epochs
          PROVE  \A x \in S \cup {epoch'} : identity' <= x /\ x <= epoch'
      <3>0. epoch \in Nat /\ \A x \in Epochs : x \in Nat
        BY DEF Epochs
      <3>1. \A x \in S : x \in Nat /\ identity <= x /\ x <= epoch
        BY <2>2, <3>0
      <3>2. epoch \in Nat /\ identity \in Nat /\ identity <= epoch
        <4>1. PICK y \in S : TRUE
          BY <2>2
        <4> QED
          BY <2>2, <3>0, <3>1, <4>1
      <3>3. identity' = identity /\ epoch' = epoch + 1
        BY <2>1
      <3> HIDE DEF SinceIdentity, TypeOK, EvidenceInv
      <3> QED
        BY <3>1, <3>2, <3>3
    <2>3. seen' = seen \/ seen' = seen \cup {epoch'}
      BY <1>31 DEF Disturb
    <2>4. ASSUME identity \in Epochs, SinceIdentity(seen)
          PROVE  SinceIdentity(seen)'
      BY <2>2, <2>3, <2>4
    <2>5. \A e \in evidence : e.seen \in SUBSET Epochs
      BY DEF Evidence
    <2> QED
      BY <2>1, <2>2, <2>4, <2>5
  <1>32. CASE Remove
    BY <1>32 DEF Remove
  <1>33. ASSUME NEW sig \in Signals, Interrupt(sig)
         PROVE  EvidenceInv'
    BY <1>33 DEF Interrupt, Raise, KillWatched, ExitFailed
  <1>34. ASSUME NEW s \in CommandStages, Create(s)
         PROVE  EvidenceInv'
    BY <1>34 DEF Create
  <1>35. ASSUME NEW s \in CommandStages, CommandEnds(s)
         PROVE  EvidenceInv'
    <2>1. proc'["load"] # "none" => proc["load"] # "none"
      BY <1>35 DEF CommandEnds, CommandStages
    <2> QED
      BY <1>35, <2>1 DEF CommandEnds
  <1>36. CASE UNCHANGED vars
    BY <1>36 DEF vars
  <1> QED
    BY <1>1, <1>2, <1>3, <1>4, <1>5, <1>6, <1>7, <1>8, <1>9, <1>10, <1>11,
       <1>12, <1>13, <1>14, <1>15, <1>16, <1>17, <1>18, <1>19, <1>20, <1>21,
       <1>22, <1>23, <1>24, <1>25, <1>26, <1>27, <1>28, <1>29, <1>30, <1>31,
       <1>32, <1>33, <1>34, <1>35, <1>36
       DEF Next, Step, World

\* Every step keeps the report whole.
LEMMA ReportStep ==
  TypeOK /\ LifecycleInv /\ EvidenceInv /\ ReportInv /\ [Next]_vars => ReportInv'
  <1> USE BenchmarkAssumption
          DEF loopVars, commandVars, dockerVars, evidenceVars, errorVars,
              signalVars, resultVars, Goto, Members, CleanupStages,
              TeardownStages, ReportInv
  <1> SUFFICES ASSUME TypeOK, LifecycleInv, EvidenceInv, ReportInv, [Next]_vars
               PROVE  ReportInv'
    OBVIOUS
  <1> USE DEF LifecycleInv, TypeOK
  <1>1. CASE StartMember
    BY <1>1 DEF StartMember
  <1>2. CASE LoopDone
    BY <1>2 DEF LoopDone
  <1>3. CASE Spawn
    BY <1>3 DEF Spawn
  <1>4. CASE Supervise
    BY <1>4 DEF Supervise
  <1>5. CASE Tick
    BY <1>5 DEF Tick, Raise, KillWatched
  <1>6. CASE Timeout
    BY <1>6 DEF Timeout, Raise, KillWatched, TryStages
  <1>7. CASE Reap
    BY <1>7 DEF Reap, Raise, KillWatched, CommandInv, AfterCommand, CommandStages
  <1>8. CASE Identify
    BY <1>8 DEF Identify
  <1>9. CASE Ready
    BY <1>9 DEF Ready
  <1>10. CASE Processes
    BY <1>10 DEF Processes
  <1>11. CASE Contract
    BY <1>11 DEF Contract
  <1>12. CASE Accept
    BY <1>12 DEF Accept
  <1>13. CASE Measure
    BY <1>13 DEF Measure
  <1>14. CASE Collect
    BY <1>14 DEF Collect, Advance
  <1>15. CASE Final
    <2> DEFINE backend == [implementation |-> member, identity |-> identity,
                           evidence |-> evidence]
    <2>1. /\ report' = report \cup {backend}
          /\ stage = "final" /\ stage' = "finally" /\ UNCHANGED <<member, failure>>
      BY <1>15 DEF Final
    <2>2. Complete(backend)
      BY <2>1 DEF Complete, EvidenceInv, Measuring, Done
    <2>3. \A b \in report : b.implementation < member /\ b.implementation \in Members
      BY <2>1 DEF Backend
    <2>4. backend.implementation = member
      OBVIOUS
    <2> HIDE DEF backend
    <2>5. \A b \in report' : \/ b \in report
                             \/ b = backend
      BY <2>1
    <2>6. member \in Members
      BY <2>1 DEF ControlInv, TryStages
    <2> QED
      BY <2>1, <2>2, <2>3, <2>4, <2>5, <2>6
  <1>16. CASE Fail
    BY <1>16 DEF Fail, Raise, KillWatched, TryStages
  <1>17. CASE MustFail
    BY <1>17 DEF MustFail, Fail, Raise, KillWatched, TryStages
  <1>18. CASE GuardInterrupt
    BY <1>18 DEF GuardInterrupt
  <1>19. CASE GuardTerminate
    BY <1>19 DEF GuardTerminate
  <1>20. CASE VerifyContainers
    BY <1>20 DEF VerifyContainers, Raise, KillWatched
  <1>21. CASE VerifyNetworks
    BY <1>21 DEF VerifyNetworks, Raise, KillWatched
  <1>22. CASE RestoreInterrupt
    BY <1>22 DEF RestoreInterrupt
  <1>23. CASE RestoreTerminate
    BY <1>23 DEF RestoreTerminate
  <1>24. CASE Settle
    <2>1. CASE NothingRaised
      <3>1. /\ stage = "settle" /\ stage' = "loop" /\ member' = member + 1
            /\ UNCHANGED <<report, failure>> /\ failure = "none"
        BY <1>24, <2>1 DEF Settle, NothingRaised
      <3>2. \A b \in report : b.implementation \in Members
        BY DEF Backend
      <3>3. \A b \in report : b.implementation < member'
        BY <3>1, <3>2
      <3>4. \A m \in Members : m < member' => \E b \in report : b.implementation = m
        BY <3>1
      <3> QED
        BY <3>1, <3>3, <3>4
    <2>2. CASE ~NothingRaised
      BY <1>24, <2>2 DEF Settle, ExitFailed
    <2> QED
      BY <2>1, <2>2
  <1>25. CASE Write
    BY <1>25 DEF Write
  <1>26. CASE Replace
    BY <1>26 DEF Replace
  <1>27. CASE Unlink
    BY <1>27 DEF Unlink
  <1>28. CASE ExitOk
    BY <1>28 DEF ExitOk
  <1>29. CASE SaveFails
    BY <1>29 DEF SaveFails, ExitFailed
  <1>30. CASE Kill
    BY <1>30 DEF Kill
  <1>31. CASE Disturb
    BY <1>31 DEF Disturb
  <1>32. CASE Remove
    BY <1>32 DEF Remove
  <1>33. ASSUME NEW sig \in Signals, Interrupt(sig)
         PROVE  ReportInv'
    BY <1>33 DEF Interrupt, Raise, KillWatched, ExitFailed, TryStages
  <1>34. ASSUME NEW s \in CommandStages, Create(s)
         PROVE  ReportInv'
    BY <1>34 DEF Create
  <1>35. ASSUME NEW s \in CommandStages, CommandEnds(s)
         PROVE  ReportInv'
    BY <1>35 DEF CommandEnds
  <1>36. CASE UNCHANGED vars
    BY <1>36 DEF vars
  <1> QED
    BY <1>1, <1>2, <1>3, <1>4, <1>5, <1>6, <1>7, <1>8, <1>9, <1>10, <1>11,
       <1>12, <1>13, <1>14, <1>15, <1>16, <1>17, <1>18, <1>19, <1>20, <1>21,
       <1>22, <1>23, <1>24, <1>25, <1>26, <1>27, <1>28, <1>29, <1>30, <1>31,
       <1>32, <1>33, <1>34, <1>35, <1>36
       DEF Next, Step, World

\* Every step keeps latest.json whole.
LEMMA SavedStep ==
  TypeOK /\ LifecycleInv /\ ReportInv /\ SavedInv /\ [Next]_vars => SavedInv'
  <1> USE BenchmarkAssumption
          DEF loopVars, commandVars, dockerVars, evidenceVars, errorVars,
              signalVars, resultVars, Goto, Members, SavedInv,
              PublishedReportIsComplete
  <1> SUFFICES ASSUME TypeOK, LifecycleInv, ReportInv, SavedInv, [Next]_vars
               PROVE  SavedInv'
    OBVIOUS
  <1> USE DEF LifecycleInv, TypeOK
  <1>1. CASE StartMember
    BY <1>1 DEF StartMember
  <1>2. CASE LoopDone
    BY <1>2 DEF LoopDone
  <1>3. CASE Spawn
    BY <1>3 DEF Spawn
  <1>4. CASE Supervise
    BY <1>4 DEF Supervise
  <1>5. CASE Tick
    BY <1>5 DEF Tick, Raise, KillWatched
  <1>6. CASE Timeout
    BY <1>6 DEF Timeout, Raise, KillWatched, TryStages, TeardownStages
  <1>7. CASE Reap
    BY <1>7 DEF Reap, Raise, KillWatched, CommandInv, AfterCommand, CommandStages
  <1>8. CASE Identify
    BY <1>8 DEF Identify
  <1>9. CASE Ready
    BY <1>9 DEF Ready
  <1>10. CASE Processes
    BY <1>10 DEF Processes
  <1>11. CASE Contract
    BY <1>11 DEF Contract
  <1>12. CASE Accept
    BY <1>12 DEF Accept
  <1>13. CASE Measure
    BY <1>13 DEF Measure
  <1>14. CASE Collect
    BY <1>14 DEF Collect, Advance
  <1>15. CASE Final
    BY <1>15 DEF Final
  <1>16. CASE Fail
    BY <1>16 DEF Fail, Raise, KillWatched, TryStages, TeardownStages
  <1>17. CASE MustFail
    BY <1>17 DEF MustFail, Fail, Raise, KillWatched
  <1>18. CASE GuardInterrupt
    BY <1>18 DEF GuardInterrupt
  <1>19. CASE GuardTerminate
    BY <1>19 DEF GuardTerminate
  <1>20. CASE VerifyContainers
    BY <1>20 DEF VerifyContainers, Raise, KillWatched
  <1>21. CASE VerifyNetworks
    BY <1>21 DEF VerifyNetworks, Raise, KillWatched
  <1>22. CASE RestoreInterrupt
    BY <1>22 DEF RestoreInterrupt
  <1>23. CASE RestoreTerminate
    BY <1>23 DEF RestoreTerminate
  <1>24. CASE Settle
    BY <1>24 DEF Settle, ExitFailed
  <1>25. CASE Write
    BY <1>25 DEF Write
  <1>26. CASE Replace
    BY <1>26 DEF Replace, Renamed, ReportInv, ControlInv, BetweenMembers, Previous
  <1>27. CASE Unlink
    BY <1>27 DEF Unlink
  <1>28. CASE ExitOk
    BY <1>28 DEF ExitOk
  <1>29. CASE SaveFails
    BY <1>29 DEF SaveFails, ExitFailed
  <1>30. CASE Kill
    BY <1>30 DEF Kill
  <1>31. CASE Disturb
    BY <1>31 DEF Disturb
  <1>32. CASE Remove
    BY <1>32 DEF Remove
  <1>33. ASSUME NEW sig \in Signals, Interrupt(sig)
         PROVE  SavedInv'
    BY <1>33 DEF Interrupt, Raise, KillWatched, ExitFailed, TryStages,
             TeardownStages
  <1>34. ASSUME NEW s \in CommandStages, Create(s)
         PROVE  SavedInv'
    BY <1>34 DEF Create
  <1>35. ASSUME NEW s \in CommandStages, CommandEnds(s)
         PROVE  SavedInv'
    BY <1>35 DEF CommandEnds
  <1>36. CASE UNCHANGED vars
    BY <1>36 DEF vars
  <1> QED
    BY <1>1, <1>2, <1>3, <1>4, <1>5, <1>6, <1>7, <1>8, <1>9, <1>10, <1>11,
       <1>12, <1>13, <1>14, <1>15, <1>16, <1>17, <1>18, <1>19, <1>20, <1>21,
       <1>22, <1>23, <1>24, <1>25, <1>26, <1>27, <1>28, <1>29, <1>30, <1>31,
       <1>32, <1>33, <1>34, <1>35, <1>36
       DEF Next, Step, World

\* The initial states satisfy all three.
LEMMA InitReport == Init => EvidenceInv /\ ReportInv /\ SavedInv
  <1> SUFFICES ASSUME Init PROVE EvidenceInv /\ ReportInv /\ SavedInv
    OBVIOUS
  <1>1. EvidenceInv
    BY DEF Init, EvidenceInv, FixtureStages, BeforeContract, Measuring
  <1>2. ReportInv
    BY BenchmarkAssumption DEF Init, ReportInv, Members, CleanupStages,
       TeardownStages
  <1>3. SavedInv
    BY DEF Init, SavedInv, PublishedReportIsComplete, Previous
  <1> QED
    BY <1>1, <1>2, <1>3

\* The invariant behind the theorems below.
LEMMA ReportCorrect == Spec => [](EvidenceInv /\ ReportInv /\ SavedInv)
  <1>1. Init => EvidenceInv /\ ReportInv /\ SavedInv
    BY InitReport
  <1>2. TypeOK /\ LifecycleInv /\ EvidenceInv /\ ReportInv /\ SavedInv
        /\ [Next]_vars => EvidenceInv' /\ ReportInv' /\ SavedInv'
    BY EvidenceStep, ReportStep, SavedStep
  <1> QED
    BY <1>1, <1>2, LifecycleCorrect, PTL DEF Spec

\* latest.json is the previous document or has one complete backend for each
\* member, whatever failed, was interrupted or was killed.
THEOREM ReportComplete == Spec => []PublishedReportIsComplete
  <1>1. SavedInv => PublishedReportIsComplete
    BY DEF SavedInv
  <1> QED
    BY <1>1, ReportCorrect, PTL

\* A local run that exits 0 has replaced latest.json; a smoke run never does.
THEOREM SuccessSaved == Spec => []SuccessMeansSaved
  <1>1. SavedInv => SuccessMeansSaved
    BY DEF SavedInv, SuccessMeansSaved
  <1> QED
    BY <1>1, ReportCorrect, PTL

\* The document that is in place is the whole report of a run of which nothing
\* has failed: the last backend is settled and its project is gone.
SavedReport ==
  latest # Previous =>
    /\ latest = report
    /\ failure = "none" /\ teardown # "failed"
    /\ resources = {}

\* A run that exits 1 with a new latest.json, which docs/BENCHMARK.md rules out,
\* has measured, validated and cleaned up everything: only what follows
\* os.replace (the unlink, the last line of output, a signal) can have failed.
THEOREM FailureAfterSavingIsLate == Spec => []SavedReport
  <1> DEFINE Inv == TypeOK /\ LifecycleInv /\ EvidenceInv /\ ReportInv /\ SavedInv
  <1>1. Init => SavedReport
    BY DEF Init, SavedReport
  <1>2. Inv /\ SavedReport /\ [Next]_vars => SavedReport'
    <2> SUFFICES ASSUME Inv, SavedReport, [Next]_vars, latest' # Previous
                 PROVE  SavedReport'
      BY DEF SavedReport
    <2>1. CASE latest = Previous
      <3>1. Replace
        BY <2>1 DEF Next, Step, World, vars, loopVars, commandVars, dockerVars,
               evidenceVars, errorVars, signalVars, resultVars, StartMember,
               LoopDone, Spawn, Supervise, Tick, Timeout, Reap, Identify, Ready,
               Processes, Contract, Accept, Measure, Collect, Final, MustFail,
               Fail, GuardInterrupt, GuardTerminate, VerifyContainers,
               VerifyNetworks, RestoreInterrupt, RestoreTerminate, Settle,
               ExitFailed, Write, Unlink, ExitOk, SaveFails, Kill, Disturb,
               Interrupt, Create, CommandEnds, Remove
      <3>2. stage = "replace" /\ latest' = report
        BY <2>1, <3>1 DEF Replace, Renamed, Goto
      <3>3. failure = "none" /\ teardown # "failed" /\ resources = {}
        BY <3>2 DEF LifecycleInv, ControlInv, ResourceInv, BetweenMembers,
               CleanupStages, TeardownStages
      <3> QED
        BY <3>1, <3>2, <3>3 DEF Replace, evidenceVars, errorVars, dockerVars,
               SavedReport
    <2>2. CASE latest # Previous
      <3>1. /\ stage \in {"unlink", "print", "exit"} /\ resources = {}
            /\ \A s \in CommandStages : proc[s] = "none"
        BY <2>2 DEF SavedInv, SavedReport, LifecycleInv, CommandInv
      <3>2. UNCHANGED <<report, failure, teardown, resources, latest>>
        BY <3>1 DEF Next, Step, World, vars, loopVars, commandVars, dockerVars,
               evidenceVars, errorVars, signalVars, resultVars, StartMember,
               LoopDone, Spawn, Supervise, Unsupervised, Tick, Timeout, Reap,
               Identify, Ready, Processes, Contract, Accept, Measure, Collect,
               Final, MustFail, Fail, Raise, TryStages, TeardownStages,
               CommandStages, GuardInterrupt, GuardTerminate, VerifyContainers,
               VerifyNetworks, RestoreInterrupt, RestoreTerminate, Settle,
               ExitFailed, Write, Replace, Unlink, ExitOk, SaveFails, Kill,
               Disturb, Interrupt, Create, CommandEnds, Remove, Goto
      <3> QED
        BY <2>2, <3>2 DEF SavedReport
    <2> QED
      BY <2>1, <2>2
  <1> QED
    BY <1>1, <1>2, LifecycleCorrect, ReportCorrect, PTL DEF Spec

-----------------------------------------------------------------------------
(* BenchmarkRun implements SequentialCohort for every value of its         *)
(* constants: the state functions below are the refinement mapping of      *)
(* Cohort, and every step of the run is a step of the cohort or none.      *)

Held == {r[2] : r \in resources}
Completed == member - 1
Result == IF latest # Previous THEN "published"
          ELSE IF outcome = "running" THEN "pending" ELSE "abandoned"

AllInv == TypeOK /\ LifecycleInv /\ EvidenceInv /\ ReportInv /\ SavedInv

\* Whatever is held belongs to the current member.
LEMMA HeldByMember ==
  ASSUME AllInv
  PROVE  /\ resources = {} => Held = {}
         /\ resources # {} => Held = {member} /\ member \in Members
  <1>1. \A r \in resources : r[2] = member /\ r[2] \in Members
    BY DEF AllInv, TypeOK, LifecycleInv, ResourceInv, Resource
  <1> QED
    BY <1>1 DEF Held

\* Once the report is published nothing is held and no command is alive.
LEMMA PublishedIsQuiet ==
  ASSUME AllInv, latest # Previous
  PROVE  resources = {} /\ \A s \in CommandStages : proc[s] = "none"
  <1>1. member \notin Members
    BY DEF AllInv, SavedInv
  <1>2. \A r \in resources : FALSE
    BY <1>1, HeldByMember
  <1> QED
    BY <1>1, <1>2 DEF AllInv, LifecycleInv, CommandInv

\* A step that leaves what is held, how far the run is and the document alone
\* can only end it.
LEMMA OnlyEnds ==
  ASSUME AllInv, UNCHANGED <<resources, member, latest>>,
         outcome' = outcome \/ outcome = "running"
  PROVE  [Cohort!Next]_<<Held, Completed, Result>>
  <1>1. Held' = Held /\ Completed' = Completed
    BY DEF Held, Completed
  <1>2. CASE outcome' = outcome \/ latest # Previous
    <2>1. Result' = Result
      BY <1>2 DEF Result, Previous
    <2> QED
      BY <1>1, <2>1
  <1>3. CASE latest = Previous /\ outcome = "running" /\ outcome' # outcome
    <2>1. Result = "pending" /\ Result' = "abandoned"
      BY <1>3 DEF Result, Previous
    <2> QED
      BY <1>1, <2>1 DEF Cohort!Next, Cohort!Abandon, Held, Completed, Result
  <1> QED
    BY <1>2, <1>3

\* The step simulation: one case for every action that the mapping can see.
LEMMA CohortStep ==
  ASSUME AllInv, [Next]_vars
  PROVE  [Cohort!Next]_<<Held, Completed, Result>>
  <1> USE DEF loopVars, commandVars, dockerVars, evidenceVars, errorVars,
              signalVars, resultVars, Goto
  <1>1. outcome = "running" <=> stage # "exit"
    BY DEF AllInv, LifecycleInv, ControlInv
  <1>2. CASE Settle
    <2>1. CASE NothingRaised
      <3>1. /\ UNCHANGED <<resources, latest, outcome>>
            /\ member' = member + 1 /\ stage = "settle"
        BY <1>2, <2>1 DEF Settle
      <3>2. Sheltered /\ teardown = "ok"
        BY <1>1, <2>1, <3>1 DEF NothingRaised, Sheltered, AllInv, LifecycleInv,
           ControlInv
      <3>3. resources = {} /\ latest = Previous /\ member \in Members
        BY <3>1, <3>2 DEF AllInv, LifecycleInv, ResourceInv, ControlInv,
           SavedInv, CleanupStages
      <3>4. Result = "pending" /\ Result' = "pending"
        BY <1>1, <3>1, <3>3 DEF Result
      <3>5. Held = {} /\ Held' = {}
        BY <3>1, <3>3 DEF Held
      <3>6. Completed < MemberCount /\ Completed' = Completed + 1
        BY <3>1, <3>3, BenchmarkAssumption DEF Completed, Members
      <3> QED
        BY <3>4, <3>5, <3>6
           DEF Cohort!Next, Cohort!Complete, Held, Completed, Result
    <2>2. CASE ~NothingRaised
      <3>1. UNCHANGED <<resources, member, latest>> /\ outcome = "running"
        BY <1>1, <1>2, <2>2 DEF Settle, ExitFailed
      <3> QED
        BY <3>1, OnlyEnds
    <2> QED
      BY <2>1, <2>2
  <1>3. CASE Replace
    <2>1. /\ UNCHANGED <<resources, member, outcome, smoke>>
          /\ latest' = Renamed /\ stage = "replace"
      BY <1>3 DEF Replace
    <2>2. outcome = "running" /\ latest = Previous
      BY <1>1, <2>1 DEF AllInv, SavedInv
    <2>3. CASE smoke
      BY <2>1, <2>2, <2>3, OnlyEnds DEF Renamed
    <2>4. CASE ~smoke
      <3>1. resources = {} /\ member = MemberCount + 1
        BY <2>1 DEF AllInv, LifecycleInv, ResourceInv, ControlInv, BetweenMembers
      <3>2. report # {}
        <4>1. 1 \in Members /\ 1 < member
          BY <3>1, BenchmarkAssumption DEF Members
        <4> QED
          BY <4>1 DEF AllInv, ReportInv
      <3>3. Result = "pending" /\ Result' = "published"
        BY <2>1, <2>2, <2>4, <3>2 DEF Result, Renamed, Previous
      <3>4. Held = {} /\ Held' = Held
        BY <2>1, <3>1 DEF Held
      <3>5. Completed = MemberCount /\ Completed' = Completed
        BY <2>1, <3>1, BenchmarkAssumption DEF Completed
      <3> QED
        BY <3>3, <3>4, <3>5
           DEF Cohort!Next, Cohort!Publish, Held, Completed, Result
    <2> QED
      BY <2>3, <2>4
  <1>4. CASE Remove
    <2>1. UNCHANGED <<member, latest, outcome>> /\ resources' \subseteq resources
      BY <1>4 DEF Remove
    <2>2. Completed' = Completed /\ Result' = Result
      BY <2>1 DEF Completed, Result, Previous
    <2>3. Held' = Held \/ Held' = {}
      <3>1. CASE resources' = {}
        BY <3>1 DEF Held
      <3>2. CASE resources' # {}
        <4>1. \A r \in resources : r[2] = member
          BY DEF AllInv, LifecycleInv, ResourceInv
        <4>2. Held' = {member} /\ Held = {member}
          BY <2>1, <3>2, <4>1 DEF Held
        <4> QED
          BY <4>2
      <3> QED
        BY <3>1, <3>2
    <2> QED
      BY <2>2, <2>3 DEF Cohort!Next, Cohort!Release, Held, Completed, Result
  <1>5. ASSUME NEW s \in CommandStages, Create(s)
        PROVE  [Cohort!Next]_<<Held, Completed, Result>>
    <2>1. /\ UNCHANGED <<member, latest, outcome>>
          /\ proc[s] # "none"
          /\ \E k \in Kinds : resources' = resources \cup {<<k, member>>}
      BY <1>5 DEF Create, Needed
    <2>2. latest = Previous
      BY <2>1, PublishedIsQuiet
    <2>3. member \in Members
      BY <2>1 DEF AllInv, LifecycleInv, CommandInv
    <2>4. Completed' = Completed /\ Result' = Result /\ Result # "published"
      BY <2>1, <2>2 DEF Completed, Result, Previous
    <2>5. Completed < MemberCount /\ Completed + 1 = member
      BY <2>3, BenchmarkAssumption DEF Completed, Members
    <2>6. Held' = {member}
      <3>1. \A r \in resources : r[2] = member
        BY DEF AllInv, LifecycleInv, ResourceInv
      <3>2. PICK k \in Kinds : resources' = resources \cup {<<k, member>>}
        BY <2>1
      <3>3. <<k, member>> \in resources' /\ <<k, member>>[2] = member
        BY <3>2
      <3>4. \A r \in resources' : r[2] = member
        BY <3>1, <3>2
      <3>5. Held' = {r[2] : r \in resources'}
        BY DEF Held
      <3> QED
        BY <3>3, <3>4, <3>5
    <2>7. CASE resources = {}
      <3>1. Held = {}
        BY <2>7, HeldByMember
      <3> QED
        BY <2>4, <2>5, <2>6, <3>1
           DEF Cohort!Next, Cohort!Acquire, Held, Completed, Result
    <2>8. CASE resources # {}
      <3>1. Held = {member}
        BY <2>8, HeldByMember
      <3> QED
        BY <2>4, <2>6, <3>1
    <2> QED
      BY <2>7, <2>8
  <1>6. CASE StartMember \/ LoopDone \/ Spawn \/ Supervise \/ Tick \/ Timeout \/ Reap
    <2>1. UNCHANGED <<resources, member, latest, outcome>>
      BY <1>6 DEF StartMember, LoopDone, Spawn, Supervise, Tick, Timeout, Reap
    <2> QED
      BY <2>1, OnlyEnds
  <1>7. CASE Identify \/ Ready \/ Processes \/ Contract \/ Accept \/ Measure
             \/ Collect \/ Final \/ MustFail \/ Fail
    <2>1. UNCHANGED <<resources, member, latest, outcome>>
      BY <1>7 DEF Identify, Ready, Processes, Contract, Accept, Measure, Collect,
         Final, MustFail, Fail
    <2> QED
      BY <2>1, OnlyEnds
  <1>8. CASE GuardInterrupt \/ GuardTerminate \/ VerifyContainers \/ VerifyNetworks
             \/ RestoreInterrupt \/ RestoreTerminate
    <2>1. UNCHANGED <<resources, member, latest, outcome>>
      BY <1>8 DEF GuardInterrupt, GuardTerminate, VerifyContainers,
         VerifyNetworks, RestoreInterrupt, RestoreTerminate
    <2> QED
      BY <2>1, OnlyEnds
  <1>9. CASE Write \/ Unlink \/ ExitOk \/ SaveFails \/ Kill
    <2>1. UNCHANGED <<resources, member, latest>>
          /\ (outcome' = outcome \/ outcome = "running")
      BY <1>1, <1>9 DEF Write, Unlink, ExitOk, SaveFails, ExitFailed, Kill
    <2> QED
      BY <2>1, OnlyEnds
  <1>10. CASE Disturb \/ UNCHANGED vars \/ \E s \in CommandStages : CommandEnds(s)
    <2>1. UNCHANGED <<resources, member, latest, outcome>>
      BY <1>10 DEF Disturb, CommandEnds, vars
    <2> QED
      BY <2>1, OnlyEnds
  <1>11. ASSUME NEW sig \in Signals, Interrupt(sig)
         PROVE  [Cohort!Next]_<<Held, Completed, Result>>
    <2>1. UNCHANGED <<resources, member, latest>>
          /\ (outcome' = outcome \/ outcome = "running")
      BY <1>1, <1>11 DEF Interrupt, ExitFailed
    <2> QED
      BY <2>1, OnlyEnds
  <1> QED
    BY <1>2, <1>3, <1>4, <1>5, <1>6, <1>7, <1>8, <1>9, <1>10, <1>11
       DEF Next, Step, World

\* Initially nothing is held, no member is complete and nothing is decided.
LEMMA CohortInit == Init => Cohort!Init
  BY BenchmarkAssumption DEF Init, Cohort!Init, Previous

\* One member at a time, each complete only once nothing of it is left, one
\* publication or none: the run implements its abstract specification.
THEOREM CohortImplemented == Spec => ImplementsCohort
  <1>1. AllInv /\ [Next]_vars => [Cohort!Next]_<<Held, Completed, Result>>
    BY CohortStep
  <1>2. Spec => []AllInv
    BY LifecycleCorrect, ReportCorrect, PTL DEF AllInv
  <1> QED
    BY <1>1, <1>2, CohortInit, PTL
       DEF Spec, ImplementsCohort, Cohort!Spec, Held, Completed, Result
================================================================================
