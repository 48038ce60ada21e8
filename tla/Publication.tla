------------------------------ MODULE Publication ------------------------------
(***************************************************************************)
(* Official benchmark runs and the branch they publish to: the workflow    *)
(* benchmark.yml (measure, publish, pages) with its concurrency group and  *)
(* reruns, benchmark/official.py, and benchmark/publish.py up to the push  *)
(* that commits a publication and the outputs it hands to Pages.           *)
(*                                                                         *)
(* A commit is a code commit or <<r, n>>, the publication commit of        *)
(* attempt n of run r; the parent of <<r, n>> is source[r].  The remote    *)
(* moves main only forward; maintainers push code at any time.             *)
(***************************************************************************)
EXTENDS Naturals, Sequences

CONSTANTS
  Runs,         \* runs of the Official benchmark workflow
  Code,         \* code commits
  Root,         \* the code commit main starts from
  MaxAttempts   \* bound: attempts of one run

Attempts == 1 .. MaxAttempts
Result == Runs \X Attempts
Commit == Code \cup Result

ASSUME PublicationAssumption ==
  /\ Root \in Code
  /\ Code \cap Result = {}
  /\ MaxAttempts \in Nat \ {0}

\* What a run does next; "queued" waits for the concurrency group.
Active == {"measure", "audit", "check", "push", "emit", "pages", "deploying"}
Settled == {"done", "failed", "cancelled"}
Phases == {"idle", "queued"} \cup Active \cup Settled

VARIABLES
  main,       \* the branch, oldest commit first
  phase,      \* the phase of each run
  source,     \* github.sha of each run: main when it was dispatched
  attempt,    \* github.run_attempt
  measured,   \* the measure job of the run has succeeded
  artifacts,  \* attempts whose uploaded artifact holds selected.json
  outputs     \* the attempt whose publish job emitted its outputs, 0 if none

runVars == <<phase, source, attempt, measured, artifacts, outputs>>
publicationVars == <<main, runVars>>

Tip == main[Len(main)]
OnMain(c) == \E i \in 1 .. Len(main) : main[i] = c

PublicationInit ==
  /\ main = <<Root>>
  /\ phase = [r \in Runs |-> "idle"]
  /\ source = [r \in Runs |-> Root]
  /\ attempt = [r \in Runs |-> 1]
  /\ measured = [r \in Runs |-> FALSE]
  /\ artifacts = [r \in Runs |-> {}]
  /\ outputs = [r \in Runs |-> 0]

Goes(r, from, to) ==
  /\ phase[r] = from
  /\ phase' = [phase EXCEPT ![r] = to]

-------------------------------------------------------------------------------
(* The concurrency group official-benchmark: one run active, one queued.   *)

\* A run that joins the group while another is active cancels the one already
\* queued.  Once nothing is active the queued run is started before any other.
Join(r) ==
  /\ \/ \E q \in Runs : phase[q] \in Active
     \/ \A q \in Runs : phase[q] # "queued"
  /\ phase' = [q \in Runs |-> IF q = r THEN "queued"
                              ELSE IF phase[q] = "queued" THEN "cancelled"
                              ELSE phase[q]]

Dispatch(r) ==
  /\ phase[r] = "idle"
  /\ Join(r)
  /\ source' = [source EXCEPT ![r] = Tip]
  /\ UNCHANGED <<main, attempt, measured, artifacts, outputs>>

\* Re-run failed jobs: jobs that succeeded keep their results.
RerunFailed(r) ==
  /\ phase[r] \in {"failed", "cancelled"} /\ attempt[r] < MaxAttempts
  /\ Join(r)
  /\ attempt' = [attempt EXCEPT ![r] = @ + 1]
  /\ UNCHANGED <<main, source, measured, artifacts, outputs>>

\* Re-run all jobs: the commit stays the one of the dispatch.
RerunAll(r) ==
  /\ phase[r] \in Settled /\ attempt[r] < MaxAttempts
  /\ Join(r)
  /\ attempt' = [attempt EXCEPT ![r] = @ + 1]
  /\ measured' = [measured EXCEPT ![r] = FALSE]
  /\ outputs' = [outputs EXCEPT ![r] = 0]
  /\ UNCHANGED <<main, source, artifacts>>

Start(r) ==
  /\ \A q \in Runs : phase[q] \notin Active
  /\ Goes(r, "queued", IF outputs[r] # 0 THEN "pages"
                       ELSE IF measured[r] THEN "audit" ELSE "measure")
  /\ UNCHANGED <<main, source, attempt, measured, artifacts, outputs>>

-------------------------------------------------------------------------------
(* The jobs.                                                               *)

\* benchmark.official exits 0 and the artifact of this attempt is uploaded.
Measure(r) ==
  /\ Goes(r, "measure", "audit")
  /\ measured' = [measured EXCEPT ![r] = TRUE]
  /\ artifacts' = [artifacts EXCEPT ![r] = @ \cup {attempt[r]}]
  /\ UNCHANGED <<main, source, attempt, outputs>>

\* A seeded mistake: any attempt's artifact of the run is good enough.
SomeArtifact(r) == artifacts[r] # {}

\* The artifact downloaded is named after this attempt, and its report carries
\* the same run, attempt and source commit.
OwnArtifact(r) == attempt[r] \in artifacts[r]

Audit(r) ==
  /\ OwnArtifact(r)
  /\ Goes(r, "audit", "check")
  /\ UNCHANGED <<main, source, attempt, measured, artifacts, outputs>>

\* A seeded mistake: the commit is named after the attempt published last.
PublishedLast(r) == <<r, outputs[r]>>

\* The publication commit of this attempt.
Published(r) == <<r, attempt[r]>>

\* A seeded mistake: the publisher takes main as it finds it.
WhateverMainIs(r) == TRUE

\* main is still the measured source: what ls-remote must show before the
\* commit is made, and what the remote itself asks of an ordinary push.
MainIsSource(r) == Tip = source[r]

\* The source tree has no history file of this run and attempt either.
CheckRemote(r) ==
  /\ MainIsSource(r)
  /\ Goes(r, "check", "push")
  /\ ~OnMain(Published(r))
  /\ UNCHANGED <<main, source, attempt, measured, artifacts, outputs>>

\* git push, the only commit point.  A push that is accepted and reported as
\* failed is this step followed by Fail.
Push(r) ==
  /\ MainIsSource(r)
  /\ Goes(r, "push", "emit")
  /\ main' = Append(main, Published(r))
  /\ UNCHANGED <<source, attempt, measured, artifacts, outputs>>

\* A seeded mistake: a rejected push still emits the outputs.
EmitsAnyway(r) == phase[r] = "push" \/ phase[r] = "emit"

\* Outputs are written once the push has succeeded.
MayEmit(r) == phase[r] = "emit"

Emit(r) ==
  /\ MayEmit(r)
  /\ phase' = [phase EXCEPT ![r] = "pages"]
  /\ outputs' = [outputs EXCEPT ![r] = attempt[r]]
  /\ UNCHANGED <<main, source, attempt, measured, artifacts>>

\* The pages job calls pages-deploy.yml with the outputs.
HandOff(r) ==
  /\ Goes(r, "pages", "deploying")
  /\ UNCHANGED <<main, source, attempt, measured, artifacts, outputs>>

Finish(r) ==
  /\ \/ Goes(r, "deploying", "done")
     \/ Goes(r, "deploying", "failed")
  /\ UNCHANGED <<main, source, attempt, measured, artifacts, outputs>>

\* A seeded mistake: the publisher waits for main to be its source again.
WaitsForMain(r) == phase[r] \in Active \ {"deploying", "check"}

\* A step fails, a job reaches its timeout-minutes or is cancelled.
MayFail(r) == phase[r] \in Active \ {"deploying"}

Fail(r) ==
  /\ MayFail(r)
  /\ phase' = [phase EXCEPT ![r] = "failed"]
  /\ UNCHANGED <<main, source, attempt, measured, artifacts, outputs>>

-------------------------------------------------------------------------------
\* A maintainer merges code.
PushCode(c) ==
  /\ ~OnMain(c)
  /\ main' = Append(main, c)
  /\ UNCHANGED runVars

RunStep(r) ==
  \/ Start(r)
  \/ Measure(r) \/ Audit(r) \/ CheckRemote(r) \/ Push(r) \/ Emit(r) \/ Fail(r)

PublicationNext ==
  \/ \E c \in Code : PushCode(c)
  \/ \E r \in Runs : \/ Dispatch(r) \/ RerunFailed(r) \/ RerunAll(r)
                     \/ RunStep(r) \/ HandOff(r) \/ Finish(r)

PublicationSpec == PublicationInit /\ [][PublicationNext]_publicationVars

\* GitHub starts what is queued, and every job ends by itself or at its
\* timeout-minutes.
FairPublicationSpec ==
  /\ PublicationSpec
  /\ \A r \in Runs :
       /\ WF_publicationVars(RunStep(r))
       /\ WF_publicationVars(HandOff(r))
       /\ WF_publicationVars(Finish(r))

-------------------------------------------------------------------------------
(* Properties.                                                             *)

\* Every variable has its type.
PublicationTypeOK ==
  /\ main \in Seq(Commit) /\ main # <<>>
  /\ phase \in [Runs -> Phases]
  /\ source \in [Runs -> Commit]
  /\ attempt \in [Runs -> Attempts]
  /\ measured \in [Runs -> BOOLEAN]
  /\ artifacts \in [Runs -> SUBSET Attempts]
  /\ outputs \in [Runs -> 0 .. MaxAttempts]

\* Every publication on main sits directly on the commit it measured, whatever
\* was pushed, dispatched or rerun meanwhile.
ResultsExtendTheirSource ==
  \A i \in 1 .. Len(main), r \in Runs, n \in Attempts :
    main[i] = <<r, n>> => i > 1 /\ main[i - 1] = source[r]

\* A run publishes at most once over all its attempts, so no history file is
\* written twice.
OnePublicationPerRun ==
  \A i, j \in 1 .. Len(main), r \in Runs, m, n \in Attempts :
    main[i] = <<r, m>> /\ main[j] = <<r, n>> => i = j

\* What an attempt publishes was measured by that attempt: a rerun of the
\* publish job never publishes the numbers of another attempt as its own.
PublishedByItsMeasurement ==
  \A r \in Runs, n \in Attempts : OnMain(<<r, n>>) => n \in artifacts[r]

\* Pages is handed only publications that are on main.
OutputsAreOnMain ==
  \A r \in Runs : outputs[r] # 0 => OnMain(<<r, outputs[r]>>)

\* Every queued run is settled: it ends, or a later one takes its place.
EveryRunSettles ==
  \A r \in Runs : phase[r] = "queued" ~> phase[r] \in Settled
===============================================================================
