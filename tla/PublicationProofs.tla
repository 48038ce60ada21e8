--------------------------- MODULE PublicationProofs ---------------------------
(***************************************************************************)
(* Theorems about Publication, for every set of runs and code commits and  *)
(* every number of attempts.                                               *)
(***************************************************************************)
EXTENDS Publication, TLAPS

\* No commit is on main twice.
Distinct == \A i, j \in 1 .. Len(main) : main[i] = main[j] => i = j

\* How far a run is tells what its attempt has produced.
ProgressInv ==
  \A r \in Runs :
    /\ phase[r] = "idle" => \A n \in Attempts : ~OnMain(<<r, n>>)
    /\ phase[r] \in {"check", "push"} => attempt[r] \in artifacts[r]
    /\ phase[r] = "emit" => OnMain(<<r, attempt[r]>>)
    /\ phase[r] = "pages" => outputs[r] # 0

PublicationInv ==
  /\ PublicationTypeOK
  /\ Distinct
  /\ ResultsExtendTheirSource
  /\ ProgressInv
  /\ PublishedByItsMeasurement
  /\ OutputsAreOnMain

\* main after one more commit.
LEMMA Appended ==
  ASSUME NEW c \in Commit, main \in Seq(Commit), main' = Append(main, c)
  PROVE  /\ main' \in Seq(Commit) /\ main' # <<>>
         /\ Len(main') = Len(main) + 1 /\ Len(main) \in Nat
         /\ \A i \in 1 .. Len(main) : main'[i] = main[i]
         /\ main'[Len(main) + 1] = c
         /\ \A x : OnMain(x)' <=> OnMain(x) \/ x = c
  <1>1. /\ main' \in Seq(Commit) /\ main' # <<>>
        /\ Len(main') = Len(main) + 1 /\ Len(main) \in Nat
        /\ \A i \in 1 .. Len(main) : main'[i] = main[i]
        /\ main'[Len(main) + 1] = c
    OBVIOUS
  <1>2. ASSUME NEW x PROVE OnMain(x)' <=> OnMain(x) \/ x = c
    BY <1>1 DEF OnMain
  <1> QED
    BY <1>1, <1>2

\* The tip is on main.
LEMMA TipOnMain ==
  ASSUME main \in Seq(Commit), main # <<>>
  PROVE  Len(main) \in Nat /\ Len(main) >= 1 /\ Tip \in Commit /\ OnMain(Tip)
  BY DEF Tip, OnMain

\* A publication that may be pushed is not on main: its parent would be the tip.
LEMMA FreshPublication ==
  ASSUME PublicationTypeOK, Distinct, ResultsExtendTheirSource,
         NEW r \in Runs, NEW n \in Attempts, MainIsSource(r)
  PROVE  ~OnMain(<<r, n>>)
  <1>1. Len(main) \in Nat /\ Len(main) >= 1
    BY TipOnMain DEF PublicationTypeOK
  <1>2. SUFFICES ASSUME NEW i \in 1 .. Len(main), main[i] = <<r, n>> PROVE FALSE
    BY DEF OnMain
  <1>3. i > 1 /\ main[i - 1] = main[Len(main)]
    BY <1>2 DEF ResultsExtendTheirSource, MainIsSource, Tip
  <1>4. i - 1 \in 1 .. Len(main) /\ Len(main) \in 1 .. Len(main)
    BY <1>1, <1>3
  <1>5. i - 1 = Len(main)
    BY <1>3, <1>4 DEF Distinct
  <1> QED
    BY <1>1, <1>5

\* A commit that is not on main can be added.
LEMMA DistinctStep ==
  ASSUME PublicationTypeOK, Distinct, NEW c \in Commit, ~OnMain(c),
         main' = Append(main, c)
  PROVE  Distinct'
  <1>1. /\ Len(main') = Len(main) + 1 /\ Len(main) \in Nat
        /\ \A i \in 1 .. Len(main) : main'[i] = main[i]
        /\ main'[Len(main) + 1] = c
    BY Appended DEF PublicationTypeOK
  <1>2. \A i \in 1 .. Len(main) : main[i] # c
    BY DEF OnMain
  <1> SUFFICES ASSUME NEW i \in 1 .. Len(main'), NEW j \in 1 .. Len(main'),
                      main'[i] = main'[j]
               PROVE  i = j
    BY DEF Distinct
  <1>3. i \in 1 .. Len(main) \/ i = Len(main) + 1
    BY <1>1
  <1>4. j \in 1 .. Len(main) \/ j = Len(main) + 1
    BY <1>1
  <1> QED
    BY <1>1, <1>2, <1>3, <1>4 DEF Distinct

\* Adding a commit of code, or a publication to its source, keeps every
\* publication on its source.
LEMMA SourceStep ==
  ASSUME PublicationTypeOK, ResultsExtendTheirSource, NEW c \in Commit,
         main' = Append(main, c), source' = source,
         \A r \in Runs, n \in Attempts : c = <<r, n>> => Tip = source[r]
  PROVE  ResultsExtendTheirSource'
  <1>1. /\ Len(main') = Len(main) + 1 /\ Len(main) \in Nat /\ Len(main) >= 1
        /\ \A i \in 1 .. Len(main) : main'[i] = main[i]
        /\ main'[Len(main) + 1] = c
    BY Appended, TipOnMain DEF PublicationTypeOK
  <1> SUFFICES ASSUME NEW i \in 1 .. Len(main'), NEW r \in Runs,
                      NEW n \in Attempts, main'[i] = <<r, n>>
               PROVE  i > 1 /\ main'[i - 1] = source[r]
    BY DEF ResultsExtendTheirSource
  <1>2. CASE i \in 1 .. Len(main)
    <2>1. i > 1 /\ main[i - 1] = source[r]
      BY <1>1, <1>2 DEF ResultsExtendTheirSource
    <2>2. i - 1 \in 1 .. Len(main)
      BY <1>2, <2>1
    <2> QED
      BY <1>1, <2>1, <2>2
  <1>3. CASE i = Len(main) + 1
    <2>1. c = <<r, n>>
      BY <1>1, <1>3, main'[i] = <<r, n>>
    <2>3. i - 1 = Len(main) /\ Len(main) \in 1 .. Len(main)
      BY <1>1, <1>3, SMT
    <2>2. main'[i - 1] = Tip
      BY <1>1, <2>3 DEF Tip
    <2> QED
      BY <1>1, <1>3, <2>1, <2>2
  <1> QED
    BY <1>1, <1>2, <1>3

\* Every step of a run that leaves main alone keeps the invariant.
LEMMA QuietStep ==
  ASSUME PublicationInv, NEW r \in Runs, main' = main,
         \/ Dispatch(r) \/ RerunFailed(r) \/ RerunAll(r) \/ Start(r)
         \/ Measure(r) \/ Audit(r) \/ CheckRemote(r) \/ Emit(r) \/ HandOff(r)
         \/ Finish(r) \/ Fail(r)
  PROVE  PublicationInv'
  <1> USE DEF PublicationInv, PublicationTypeOK, Goes, Phases, Active, Settled
  <1>1. \A x : OnMain(x)' <=> OnMain(x)
    BY DEF OnMain
  <1>2. Distinct'
    BY DEF Distinct
  <1>3. CASE Dispatch(r)
    <2>1. Tip \in Commit
      BY TipOnMain
    <2>2. PublicationTypeOK'
      BY <1>3, <2>1 DEF Dispatch, Join
    <2>3. ResultsExtendTheirSource'
      <3> SUFFICES ASSUME NEW i \in 1 .. Len(main), NEW q \in Runs,
                          NEW n \in Attempts, main[i] = <<q, n>>
                   PROVE  i > 1 /\ main[i - 1] = source'[q]
        BY DEF ResultsExtendTheirSource
      <3>1. OnMain(<<q, n>>)
        BY DEF OnMain
      <3>2. q # r
        BY <1>3, <3>1 DEF Dispatch, ProgressInv
      <3> QED
        BY <1>3, <3>2 DEF Dispatch, ResultsExtendTheirSource
    <2>4. ProgressInv'
      BY <1>1, <1>3 DEF Dispatch, Join, ProgressInv
    <2>5. PublishedByItsMeasurement' /\ OutputsAreOnMain'
      BY <1>1, <1>3 DEF Dispatch, PublishedByItsMeasurement, OutputsAreOnMain
    <2> QED
      BY <1>2, <2>2, <2>3, <2>4, <2>5
  <1>4. CASE ~Dispatch(r)
    <2>1. source' = source
      BY <1>4 DEF RerunFailed, RerunAll, Start, Measure, Audit, CheckRemote,
         Emit, HandOff, Finish, Fail
    <2>2. ResultsExtendTheirSource'
      BY <2>1 DEF ResultsExtendTheirSource
    <2>3. CASE RerunFailed(r) \/ RerunAll(r)
      <3>1. attempt[r] + 1 \in Attempts
        BY <2>3, PublicationAssumption DEF RerunFailed, RerunAll, Attempts
      <3>2. /\ attempt' = [attempt EXCEPT ![r] = attempt[r] + 1]
            /\ artifacts' = artifacts /\ Join(r)
            /\ \/ measured' = measured /\ outputs' = outputs
               \/ /\ measured' = [measured EXCEPT ![r] = FALSE]
                  /\ outputs' = [outputs EXCEPT ![r] = 0]
        BY <2>3 DEF RerunFailed, RerunAll
      <3>3. /\ phase' \in [Runs -> Phases] /\ phase'[r] = "queued"
            /\ \A q \in Runs \ {r} : phase'[q] \in {phase[q], "cancelled"}
        BY <3>2 DEF Join
      <3>4. outputs' \in [Runs -> 0 .. MaxAttempts]
        BY <3>2, PublicationAssumption
      <3>5. PublicationTypeOK'
        BY <2>1, <3>1, <3>2, <3>3, <3>4
      <3>6. ProgressInv'
        <4> SUFFICES ASSUME NEW q \in Runs
                     PROVE  /\ phase'[q] = "idle" =>
                                 \A n \in Attempts : ~OnMain(<<q, n>>)'
                            /\ phase'[q] \in {"check", "push"} =>
                                 attempt'[q] \in artifacts'[q]
                            /\ phase'[q] = "emit" => OnMain(<<q, attempt[q]>>)'
                            /\ phase'[q] = "pages" => outputs'[q] # 0
          BY DEF ProgressInv
        <4>1. CASE q = r
          BY <3>3, <4>1
        <4>2. CASE q # r
          BY <1>1, <3>2, <3>3, <4>2 DEF ProgressInv
        <4> QED
          BY <4>1, <4>2
      <3>7. PublishedByItsMeasurement' /\ OutputsAreOnMain'
        BY <1>1, <3>2 DEF PublishedByItsMeasurement, OutputsAreOnMain
      <3> QED
        BY <1>2, <2>2, <3>5, <3>6, <3>7
    <2>4. CASE Start(r)
      <3>1. PublicationTypeOK' /\ ProgressInv'
        BY <1>1, <2>4 DEF Start, ProgressInv
      <3>2. PublishedByItsMeasurement' /\ OutputsAreOnMain'
        BY <1>1, <2>4 DEF Start, PublishedByItsMeasurement, OutputsAreOnMain
      <3> QED
        BY <1>2, <2>2, <3>1, <3>2
    <2>5. CASE Measure(r)
      <3>1. PublicationTypeOK' /\ ProgressInv'
        BY <1>1, <2>5 DEF Measure, ProgressInv
      <3>2. PublishedByItsMeasurement' /\ OutputsAreOnMain'
        BY <1>1, <2>5 DEF Measure, PublishedByItsMeasurement, OutputsAreOnMain
      <3> QED
        BY <1>2, <2>2, <3>1, <3>2
    <2>6. CASE Audit(r) \/ CheckRemote(r)
      <3>1. PublicationTypeOK' /\ ProgressInv'
        BY <1>1, <2>6 DEF Audit, CheckRemote, OwnArtifact, ProgressInv
      <3>2. PublishedByItsMeasurement' /\ OutputsAreOnMain'
        BY <1>1, <2>6 DEF Audit, CheckRemote, PublishedByItsMeasurement,
           OutputsAreOnMain
      <3> QED
        BY <1>2, <2>2, <3>1, <3>2
    <2>7. CASE Emit(r)
      <3>1. PublicationTypeOK'
        BY <2>7, PublicationAssumption DEF Emit, MayEmit, Attempts
      <3>2. attempt[r] # 0
        BY PublicationAssumption DEF Attempts
      <3>3. ProgressInv'
        BY <1>1, <2>7, <3>2 DEF Emit, MayEmit, ProgressInv
      <3>4. PublishedByItsMeasurement' /\ OutputsAreOnMain'
        BY <1>1, <2>7 DEF Emit, MayEmit, PublishedByItsMeasurement,
           OutputsAreOnMain, ProgressInv
      <3> QED
        BY <1>2, <2>2, <3>1, <3>3, <3>4
    <2>8. CASE HandOff(r) \/ Finish(r) \/ Fail(r)
      <3>1. PublicationTypeOK' /\ ProgressInv'
        BY <1>1, <2>8 DEF HandOff, Finish, Fail, MayFail, ProgressInv
      <3>2. PublishedByItsMeasurement' /\ OutputsAreOnMain'
        BY <1>1, <2>8 DEF HandOff, Finish, Fail, PublishedByItsMeasurement,
           OutputsAreOnMain
      <3> QED
        BY <1>2, <2>2, <3>1, <3>2
    <2> QED
      BY <1>4, <2>3, <2>4, <2>5, <2>6, <2>7, <2>8
  <1> QED
    BY <1>3, <1>4

\* A push of code keeps the invariant.
LEMMA PushCodeStep ==
  ASSUME PublicationInv, NEW c \in Code, PushCode(c)
  PROVE  PublicationInv'
  <1>1. c \in Commit /\ \A r \in Runs, n \in Attempts : c # <<r, n>>
    BY PublicationAssumption DEF Commit, Result
  <1>2. main' = Append(main, c) /\ ~OnMain(c) /\ UNCHANGED runVars
    BY DEF PushCode
  <1>3. \A x : OnMain(x)' <=> OnMain(x) \/ x = c
    BY <1>1, <1>2, Appended DEF PublicationInv, PublicationTypeOK
  <1>4. PublicationTypeOK'
    BY <1>1, <1>2, Appended DEF PublicationInv, PublicationTypeOK, runVars
  <1>5. Distinct'
    BY <1>1, <1>2, DistinctStep DEF PublicationInv
  <1>6. ResultsExtendTheirSource'
    BY <1>1, <1>2, SourceStep DEF PublicationInv, runVars
  <1>7. ProgressInv'
    BY <1>1, <1>2, <1>3 DEF PublicationInv, ProgressInv, PublicationTypeOK, runVars
  <1>8. PublishedByItsMeasurement'
    BY <1>1, <1>2, <1>3 DEF PublicationInv, PublishedByItsMeasurement, runVars
  <1>9. OutputsAreOnMain'
    BY <1>2, <1>3 DEF PublicationInv, OutputsAreOnMain, runVars
  <1> QED
    BY <1>4, <1>5, <1>6, <1>7, <1>8, <1>9 DEF PublicationInv

\* The push of a publication keeps the invariant.
LEMMA PushStep ==
  ASSUME PublicationInv, NEW r \in Runs, Push(r)
  PROVE  PublicationInv'
  <1> DEFINE c == <<r, attempt[r]>>
  <1>1. c \in Commit /\ attempt[r] \in Attempts
    BY DEF PublicationInv, PublicationTypeOK, Commit, Result
  <1>2. /\ main' = Append(main, c) /\ MainIsSource(r) /\ phase[r] = "push"
        /\ phase' = [phase EXCEPT ![r] = "emit"]
        /\ UNCHANGED <<source, attempt, measured, artifacts, outputs>>
    BY DEF Push, Published, Goes
  <1>3. ~OnMain(c)
    BY <1>1, <1>2, FreshPublication DEF PublicationInv
  <1>4. \A x : OnMain(x)' <=> OnMain(x) \/ x = c
    BY <1>1, <1>2, Appended DEF PublicationInv, PublicationTypeOK
  <1>5. PublicationTypeOK'
    <2>1. main' \in Seq(Commit) /\ main' # <<>>
      BY <1>1, <1>2, Appended DEF PublicationInv, PublicationTypeOK
    <2> QED
      BY <1>2, <2>1 DEF PublicationInv, PublicationTypeOK, Phases, Active
  <1>6. Distinct'
    BY <1>1, <1>2, <1>3, DistinctStep DEF PublicationInv
  <1>7. ResultsExtendTheirSource'
    <2>1. \A q \in Runs, n \in Attempts : c = <<q, n>> => Tip = source[q]
      BY <1>2 DEF MainIsSource
    <2> QED
      BY <1>1, <1>2, <2>1, SourceStep DEF PublicationInv
  <1>8. ProgressInv'
    BY <1>1, <1>2, <1>4 DEF PublicationInv, ProgressInv, PublicationTypeOK
  <1>9. PublishedByItsMeasurement'
    BY <1>1, <1>2, <1>4 DEF PublicationInv, ProgressInv, PublishedByItsMeasurement
  <1>10. OutputsAreOnMain'
    BY <1>2, <1>4 DEF PublicationInv, OutputsAreOnMain
  <1> QED
    BY <1>5, <1>6, <1>7, <1>8, <1>9, <1>10 DEF PublicationInv

\* Every step keeps the invariant.
LEMMA PublicationStepKeeps ==
  ASSUME PublicationInv, [PublicationNext]_publicationVars
  PROVE  PublicationInv'
  <1>1. CASE UNCHANGED publicationVars
    <2>1. /\ UNCHANGED <<main, phase, source>>
          /\ UNCHANGED <<attempt, measured, artifacts, outputs>>
      BY <1>1 DEF publicationVars, runVars
    <2>2. \A x : OnMain(x)' <=> OnMain(x)
      BY <2>1 DEF OnMain
    <2>3. PublicationTypeOK' /\ Distinct' /\ ResultsExtendTheirSource'
      BY <2>1 DEF PublicationInv, PublicationTypeOK, Distinct,
         ResultsExtendTheirSource
    <2>4. ProgressInv'
      BY <2>1, <2>2 DEF PublicationInv, ProgressInv
    <2>5. PublishedByItsMeasurement' /\ OutputsAreOnMain'
      BY <2>1, <2>2 DEF PublicationInv, PublishedByItsMeasurement, OutputsAreOnMain
    <2> QED
      BY <2>3, <2>4, <2>5 DEF PublicationInv
  <1>2. ASSUME NEW c \in Code, PushCode(c) PROVE PublicationInv'
    BY <1>2, PushCodeStep
  <1>3. ASSUME NEW r \in Runs, Push(r) PROVE PublicationInv'
    BY <1>3, PushStep
  <1>4. ASSUME NEW r \in Runs,
               \/ Dispatch(r) \/ RerunFailed(r) \/ RerunAll(r) \/ Start(r)
               \/ Measure(r) \/ Audit(r) \/ CheckRemote(r) \/ Emit(r)
               \/ HandOff(r) \/ Finish(r) \/ Fail(r)
        PROVE  PublicationInv'
    <2>1. main' = main
      BY <1>4 DEF Dispatch, RerunFailed, RerunAll, Start, Measure, Audit,
         CheckRemote, Emit, HandOff, Finish, Fail
    <2> QED
      BY <1>4, <2>1, QuietStep
  <1> QED
    BY <1>1, <1>2, <1>3, <1>4 DEF PublicationNext, RunStep

LEMMA PublicationStart == PublicationInit => PublicationInv
  <1> SUFFICES ASSUME PublicationInit PROVE PublicationInv
    OBVIOUS
  <1> USE PublicationAssumption DEF PublicationInit
  <1>1. Len(main) = 1 /\ main[1] = Root /\ Root \in Commit
    BY DEF Commit
  <1>2. \A r \in Runs, n \in Attempts : Root # <<r, n>>
    BY DEF Result
  <1>3. PublicationTypeOK
    BY <1>1 DEF PublicationTypeOK, Phases, Attempts
  <1>4. Distinct
    BY <1>1 DEF Distinct
  <1>5. \A r \in Runs, n \in Attempts : ~OnMain(<<r, n>>)
    BY <1>1, <1>2 DEF OnMain
  <1>6. ResultsExtendTheirSource
    BY <1>1, <1>2 DEF ResultsExtendTheirSource
  <1> QED
    BY <1>3, <1>4, <1>5, <1>6
       DEF PublicationInv, ProgressInv, PublishedByItsMeasurement, OutputsAreOnMain

\* Every publication on main sits on the commit it measured, was measured by
\* its own attempt, and is on main before Pages is told of it.
THEOREM PublicationCorrect == PublicationSpec => []PublicationInv
  <1>1. PublicationInv /\ [PublicationNext]_publicationVars => PublicationInv'
    BY PublicationStepKeeps
  <1> QED
    BY <1>1, PublicationStart, PTL DEF PublicationSpec

\* main stays a sequence of publications, and each run's attempts keep the phases
\* of the workflow.
THEOREM PublicationTypesHold == PublicationSpec => []PublicationTypeOK
  <1>1. PublicationInv => PublicationTypeOK
    BY DEF PublicationInv
  <1> QED
    BY <1>1, PublicationCorrect, PTL

\* A publication is the child of the commit its run measured.
THEOREM PublicationsFollowSource == PublicationSpec => []ResultsExtendTheirSource
  <1>1. PublicationInv => ResultsExtendTheirSource
    BY DEF PublicationInv
  <1> QED
    BY <1>1, PublicationCorrect, PTL

\* Two publications of one run would have the same parent.
LEMMA OnlyPublication == PublicationInv => OnePublicationPerRun
  <1> SUFFICES ASSUME PublicationInv, NEW i \in 1 .. Len(main),
                      NEW j \in 1 .. Len(main), NEW r \in Runs,
                      NEW m \in Attempts, NEW n \in Attempts,
                      main[i] = <<r, m>>, main[j] = <<r, n>>
               PROVE  i = j
    BY DEF OnePublicationPerRun
  <1>1. i > 1 /\ j > 1 /\ main[i - 1] = main[j - 1]
    BY DEF PublicationInv, ResultsExtendTheirSource
  <1>2. i - 1 \in 1 .. Len(main) /\ j - 1 \in 1 .. Len(main)
    BY <1>1
  <1>3. i - 1 = j - 1
    BY <1>1, <1>2 DEF PublicationInv, Distinct
  <1> QED
    BY <1>3

\* No run publishes twice, over all its attempts.
THEOREM PublishedOnce == PublicationSpec => []OnePublicationPerRun
  BY OnlyPublication, PublicationCorrect, PTL

\* What is published was measured by the attempt that published it.
THEOREM PublishedIsMeasured == PublicationSpec => []PublishedByItsMeasurement
  <1>1. PublicationInv => PublishedByItsMeasurement
    BY DEF PublicationInv
  <1> QED
    BY <1>1, PublicationCorrect, PTL

\* Pages is only handed what is on main.
THEOREM HandedOffIsOnMain == PublicationSpec => []OutputsAreOnMain
  <1>1. PublicationInv => OutputsAreOnMain
    BY DEF PublicationInv
  <1> QED
    BY <1>1, PublicationCorrect, PTL
===============================================================================
