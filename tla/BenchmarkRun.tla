----------------------------- MODULE BenchmarkRun -----------------------------
(***************************************************************************)
(* One invocation of `python -m benchmark.run`: run_benchmark and main of  *)
(* benchmark/run.py, the DockerEnvironment it drives, the supervised       *)
(* commands of benchmark/process.py, the signal shield of                  *)
(* contract_runner.protect_cleanup and the rename of results.atomic_json.  *)
(*                                                                         *)
(* The process takes one step per operation of the source.  Around it move *)
(* the external commands it has started (which create and remove Docker    *)
(* resources while Python waits), the API container (which may exit or     *)
(* restart at any time), SIGINT, SIGTERM and SIGKILL.                      *)
(***************************************************************************)
EXTENDS Naturals

CONSTANTS
  MemberCount,      \* active cohort members, in registry order
  EndpointCount,    \* endpoints of the fixed profile
  MeasuredRuns,     \* measured runs of an endpoint: 3 in the code
  MaxDisturbances,  \* bound: exits and restarts of API containers
  MaxSignals        \* bound: SIGINT and SIGTERM deliveries

ASSUME BenchmarkAssumption ==
  /\ MemberCount \in Nat \ {0}
  /\ EndpointCount \in Nat \ {0}
  /\ MeasuredRuns \in Nat \ {0}
  /\ MaxDisturbances \in Nat
  /\ MaxSignals \in Nat

Members == 1 .. MemberCount
Epochs == 0 .. MaxDisturbances
Signals == {"SIGINT", "SIGTERM"}

\* What one backend owns in the Compose project: the project network and the
\* PostgreSQL container are shared names, the API container is the member's.
Kinds == {"network", "postgres", "api"}
Resource == Kinds \X Members

\* Stages that run one long external command through process.execute.
CommandStages == {"build", "up_postgres", "up_api", "load", "down"}

\* The body of the try in run_benchmark: any exception there leads to "finally".
TryStages ==
  {"build", "up_postgres", "up_api", "identify", "readiness", "processes",
   "contract", "accept", "measure", "load", "collect", "final"}

\* environment.cleanup() under protect_cleanup: both signals are ignored.
TeardownStages == {"down", "verify_containers", "verify_networks"}

Stages ==
  TryStages \cup TeardownStages \cup
  {"loop", "finally", "guard", "restore", "restoring", "settle",
   "write", "replace", "unlink", "print", "exit"}

NoIdentity == MaxDisturbances + 1

\* Evidence of one interval of traffic: its endpoint and run (0 and 0 for the
\* contract) and the instances of the API container up while it lasted.
Evidence ==
  [endpoint: 0 .. EndpointCount, index: 0 .. MeasuredRuns, seen: SUBSET Epochs]
Backend ==
  [implementation: Members, identity: Epochs, evidence: SUBSET Evidence]

VARIABLES
  stage,      \* where the process is in run_benchmark and main
  member,     \* the loop variable, MemberCount + 1 once the loop is over
  endpoint,   \* the endpoint being measured
  index,      \* 0 for the warm-up, else the measured run
  proc,       \* state of the process group of each command
  watched,    \* TRUE inside the try of process.execute
  resources,  \* Docker resources labelled with this run's project
  epoch,      \* instance of the API container: changes when it exits or restarts
  identity,   \* DockerEnvironment.identity
  seen,       \* instances that served the current interval of traffic
  sampled,    \* TRUE once the current load has a memory sample
  evidence,   \* what the current backend has recorded
  report,     \* report["implementations"]
  failure,    \* the local `failure`: "none", "failed" or "interrupted"
  teardown,   \* outcome of environment.cleanup() for the current member
  ignored,    \* signals whose handler is SIG_IGN
  signals,    \* number of signals delivered to the handler
  lapsed,     \* a signal was raised outside every protected region
  smoke,      \* the --smoke flag
  latest,     \* contents of results/latest.json
  outcome     \* "running", "ok" (exit 0), "failed" (exit 1), "killed"

loopVars     == <<member, endpoint, index>>
commandVars  == <<proc, watched>>
dockerVars   == <<resources, epoch>>
evidenceVars == <<identity, seen, sampled, evidence, report>>
errorVars    == <<failure, teardown>>
signalVars   == <<ignored, signals, lapsed>>
resultVars   == <<smoke, latest, outcome>>
vars == <<stage, loopVars, commandVars, dockerVars, evidenceVars, errorVars,
          signalVars, resultVars>>

Previous == {}   \* the document latest.json held before: no backend of this run

Init ==
  /\ stage = "loop" /\ member = 1 /\ endpoint = 1 /\ index = 0
  /\ proc = [s \in CommandStages |-> "none"] /\ watched = FALSE
  /\ resources = {} /\ epoch = 0
  /\ identity = NoIdentity /\ seen = {} /\ sampled = FALSE
  /\ evidence = {} /\ report = {}
  /\ failure = "none" /\ teardown = "none"
  /\ ignored = {} /\ signals = 0 /\ lapsed = FALSE
  /\ smoke \in BOOLEAN /\ latest = Previous /\ outcome = "running"

-------------------------------------------------------------------------------
(* Raising and leaving.                                                    *)

\* A seeded mistake: the exception propagates and the group lives on.
LeaveWatched ==
  /\ proc' = proc
  /\ watched' = FALSE

\* Leaving execute by an exception kills and reaps the group, but only once
\* its try has been entered.
KillWatched ==
  /\ proc' = IF watched THEN [proc EXCEPT ![stage] = "none"] ELSE proc
  /\ watched' = FALSE

\* An exception raised at the current stage, inside the try of run_benchmark
\* or inside environment.cleanup().
Raise(cause) ==
  /\ KillWatched
  /\ \/ /\ stage \in TryStages
        /\ stage' = "finally" /\ failure' = cause
        /\ UNCHANGED teardown
     \/ /\ stage \in TeardownStages
        /\ stage' = "restore" /\ teardown' = "failed"
        /\ UNCHANGED failure

\* main returns 1 and its finally reinstalls the handlers.
ExitFailed ==
  /\ stage' = "exit" /\ outcome' = "failed" /\ ignored' = {}
  /\ UNCHANGED <<smoke, latest>>

\* The process is between Popen returning and the try that would kill the group.
Unsupervised == stage \in CommandStages /\ proc[stage] # "none" /\ ~watched

-------------------------------------------------------------------------------
(* The member loop.                                                        *)

StartMember ==
  /\ stage = "loop" /\ member \in Members
  /\ stage' = "build"
  /\ endpoint' = 1 /\ index' = 0 /\ evidence' = {}
  /\ failure' = "none" /\ teardown' = "none"
  /\ UNCHANGED <<member, commandVars, dockerVars, identity, seen, sampled,
                 report, signalVars, resultVars>>

LoopDone ==
  /\ stage = "loop" /\ member \notin Members
  /\ stage' = "write"
  /\ UNCHANGED <<loopVars, commandVars, dockerVars, evidenceVars, errorVars,
                 signalVars, resultVars>>

-------------------------------------------------------------------------------
(* process.execute.                                                        *)

\* Popen: the child runs in its own session before execute's try is entered.
Spawn ==
  /\ stage \in CommandStages /\ proc[stage] = "none"
  /\ proc' = [proc EXCEPT ![stage] = "running"]
  /\ seen' = IF stage = "load" THEN {epoch} ELSE seen
  /\ sampled' = IF stage = "load" THEN FALSE ELSE sampled
  /\ UNCHANGED <<stage, loopVars, watched, dockerVars, identity, evidence,
                 report, errorVars, signalVars, resultVars>>

Supervise ==
  /\ Unsupervised
  /\ watched' = TRUE
  /\ UNCHANGED <<stage, loopVars, proc, dockerVars, evidenceVars, errorVars,
                 signalVars, resultVars>>

\* One round of the polling loop of the load generator: check the container,
\* then read its memory.  A changed container stops the load.
Tick ==
  /\ stage = "load" /\ watched /\ proc["load"] = "running"
  /\ \/ /\ epoch = identity
        /\ sampled' = TRUE
        /\ UNCHANGED <<stage, commandVars, errorVars>>
     \/ /\ epoch # identity
        /\ Raise("failed")
        /\ UNCHANGED sampled
  /\ UNCHANGED <<loopVars, dockerVars, identity, seen, evidence, report,
                 signalVars, resultVars>>

\* A seeded mistake: only a command with a tick looks at its deadline.
TimeoutOfLoadOnly ==
  /\ stage = "load" /\ watched /\ proc[stage] = "running"
  /\ Raise("failed")
  /\ UNCHANGED <<loopVars, dockerVars, evidenceVars, signalVars, resultVars>>

\* The deadline of the command passes while the child is still running.
Timeout ==
  /\ watched /\ proc[stage] = "running"
  /\ Raise("failed")
  /\ UNCHANGED <<loopVars, dockerVars, evidenceVars, signalVars, resultVars>>

AfterCommand ==
  [s \in CommandStages |->
     CASE s = "build"       -> "up_postgres"
       [] s = "up_postgres" -> "up_api"
       [] s = "up_api"      -> "identify"
       [] s = "load"        -> "collect"
       [] s = "down"        -> "verify_containers"]

\* The child is reaped: exit status 0 goes on, any other raises.
Reap ==
  /\ watched
  /\ \/ /\ proc[stage] = "ok"
        /\ stage' = AfterCommand[stage]
        /\ proc' = [proc EXCEPT ![stage] = "none"] /\ watched' = FALSE
        /\ UNCHANGED errorVars
     \/ /\ proc[stage] = "error"
        /\ Raise("failed")
  /\ UNCHANGED <<loopVars, dockerVars, evidenceVars, signalVars, resultVars>>

-------------------------------------------------------------------------------
(* DockerEnvironment.start, the contract and the measurements.             *)

Goto(from, to) == stage = from /\ stage' = to

\* docker ps and the first inspect: whatever instance is up becomes the identity.
Identify ==
  /\ Goto("identify", "readiness")
  /\ <<"api", member>> \in resources
  /\ identity' = epoch
  /\ UNCHANGED <<loopVars, commandVars, dockerVars, seen, sampled, evidence,
                 report, errorVars, signalVars, resultVars>>

\* A seeded mistake: check accepts any running container.
AnyInstance == <<"api", member>> \in resources

\* DockerEnvironment.check passes: same container, same start time, running.
Unchanged == epoch = identity

Ready ==
  /\ Goto("readiness", "processes")
  /\ Unchanged
  /\ UNCHANGED <<loopVars, commandVars, dockerVars, evidenceVars, errorVars,
                 signalVars, resultVars>>

\* docker top and the PostgreSQL version; neither inspects the container.
Processes ==
  /\ Goto("processes", "contract")
  /\ seen' = {epoch}
  /\ UNCHANGED <<loopVars, commandVars, dockerVars, identity, sampled, evidence,
                 report, errorVars, signalVars, resultVars>>

\* run_contract returns with both rounds of every case.
Contract ==
  /\ Goto("contract", "accept")
  /\ evidence' = evidence \cup {[endpoint |-> 0, index |-> 0, seen |-> seen]}
  /\ UNCHANGED <<loopVars, commandVars, dockerVars, identity, seen, sampled,
                 report, errorVars, signalVars, resultVars>>

Accept ==
  /\ Goto("accept", "measure")
  /\ Unchanged
  /\ UNCHANGED <<loopVars, commandVars, dockerVars, evidenceVars, errorVars,
                 signalVars, resultVars>>

Measure ==
  /\ Goto("measure", "load")
  /\ Unchanged
  /\ UNCHANGED <<loopVars, commandVars, dockerVars, evidenceVars, errorVars,
                 signalVars, resultVars>>

\* A seeded mistake: one measured run too many.
AdvanceTooFar ==
  \/ /\ index <= MeasuredRuns
     /\ index' = index + 1 /\ stage' = "measure"
     /\ UNCHANGED endpoint
  \/ /\ index > MeasuredRuns
     /\ stage' = "final"
     /\ UNCHANGED <<endpoint, index>>

\* After a run: the next index, then the next endpoint, then the last check.
Advance ==
  \/ /\ index < MeasuredRuns
     /\ index' = index + 1 /\ stage' = "measure"
     /\ UNCHANGED endpoint
  \/ /\ index = MeasuredRuns /\ endpoint < EndpointCount
     /\ endpoint' = endpoint + 1 /\ index' = 0 /\ stage' = "measure"
  \/ /\ index = MeasuredRuns /\ endpoint = EndpointCount
     /\ stage' = "final"
     /\ UNCHANGED <<endpoint, index>>

\* The rest of measure (last check, samples, parse_oha) and validate_run; the
\* warm-up, index 0, is validated by the parser and dropped.
Collect ==
  /\ stage = "collect" /\ Unchanged /\ sampled
  /\ Advance
  /\ evidence' =
       IF index = 0 THEN evidence
       ELSE evidence \cup
              {[endpoint |-> endpoint, index |-> index, seen |-> seen]}
  /\ UNCHANGED <<member, commandVars, dockerVars, identity, seen, sampled,
                 report, errorVars, signalVars, resultVars>>

\* The last check, then the backend joins the report.
Final ==
  /\ Goto("final", "finally")
  /\ Unchanged
  /\ report' = report \cup {[implementation |-> member, identity |-> identity,
                             evidence |-> evidence]}
  /\ UNCHANGED <<loopVars, commandVars, dockerVars, identity, seen, sampled,
                 evidence, errorVars, signalVars, resultVars>>

\* Any other exception of the body or of cleanup: a check that fails, a
\* rejected response or document, an OSError.  A spawn that fails is one too.
Fail ==
  /\ ~Unsupervised
  /\ Raise("failed")
  /\ UNCHANGED <<loopVars, dockerVars, evidenceVars, signalVars, resultVars>>

\* A check that has to fail: the container changed, or no sample was taken.
MustFail ==
  /\ \/ stage \in {"readiness", "accept", "measure", "collect", "final"}
        /\ ~Unchanged
     \/ stage = "collect" /\ ~sampled
     \/ stage = "identify" /\ <<"api", member>> \notin resources
  /\ Fail

-------------------------------------------------------------------------------
(* The finally of run_benchmark: protect_cleanup and environment.cleanup().*)

\* protect_cleanup installs SIG_IGN for SIGINT, then for SIGTERM.
GuardInterrupt ==
  /\ Goto("finally", "guard")
  /\ ignored' = {"SIGINT"}
  /\ UNCHANGED <<loopVars, commandVars, dockerVars, evidenceVars, errorVars,
                 signals, lapsed, resultVars>>

GuardTerminate ==
  /\ Goto("guard", "down")
  /\ ignored' = Signals
  /\ UNCHANGED <<loopVars, commandVars, dockerVars, evidenceVars, errorVars,
                 signals, lapsed, resultVars>>

\* A seeded mistake: the listing is read but not required to be empty.
ListedOnly == TRUE

\* docker ps -aq by the project label is empty.
NoContainers == \A r \in resources : r[1] = "network"

\* docker network ls by the project label is empty.
NoNetworks == \A r \in resources : r[1] # "network"

VerifyContainers ==
  /\ stage = "verify_containers"
  /\ \/ /\ NoContainers
        /\ stage' = "verify_networks"
        /\ UNCHANGED <<commandVars, errorVars>>
     \/ /\ ~NoContainers
        /\ Raise("failed")
  /\ UNCHANGED <<loopVars, dockerVars, evidenceVars, signalVars, resultVars>>

\* docker network ls and docker volume ls (the project declares no volume);
\* then the fields of the environment are cleared.
VerifyNetworks ==
  /\ stage = "verify_networks"
  /\ \/ /\ NoNetworks
        /\ stage' = "restore" /\ teardown' = "ok" /\ identity' = NoIdentity
        /\ UNCHANGED <<commandVars, failure>>
     \/ /\ ~NoNetworks
        /\ Raise("failed")
        /\ UNCHANGED identity
  /\ UNCHANGED <<loopVars, dockerVars, seen, sampled, evidence, report,
                 signalVars, resultVars>>

RestoreInterrupt ==
  /\ Goto("restore", "restoring")
  /\ ignored' = {"SIGTERM"}
  /\ UNCHANGED <<loopVars, commandVars, dockerVars, evidenceVars, errorVars,
                 signals, lapsed, resultVars>>

RestoreTerminate ==
  /\ Goto("restoring", "settle")
  /\ ignored' = {}
  /\ UNCHANGED <<loopVars, commandVars, dockerVars, evidenceVars, errorVars,
                 signals, lapsed, resultVars>>

\* A seeded mistake: a cleanup failure is only printed.
NothingRaisedBefore == failure = "none"

\* Neither the body nor cleanup raised.
NothingRaised == failure = "none" /\ teardown = "ok"

\* An earlier exception goes on; a cleanup failure alone becomes one; otherwise
\* the next member.
Settle ==
  /\ stage = "settle"
  /\ \/ /\ NothingRaised
        /\ stage' = "loop" /\ member' = member + 1
        /\ UNCHANGED <<ignored, resultVars>>
     \/ /\ ~NothingRaised
        /\ ExitFailed
        /\ UNCHANGED member
  /\ UNCHANGED <<endpoint, index, commandVars, dockerVars, evidenceVars,
                 errorVars, signals, lapsed>>

-------------------------------------------------------------------------------
(* results.atomic_json and the end of main.  A smoke run goes through the  *)
(* same steps for smoke.json in its own artifact directory.                *)

Write ==
  /\ Goto("write", "replace")
  /\ UNCHANGED <<loopVars, commandVars, dockerVars, evidenceVars, errorVars,
                 signalVars, resultVars>>

\* A seeded mistake: the diagnostic of a smoke run goes to latest.json too.
Overwrite == report

\* What latest.json holds after the rename.
Renamed == IF smoke THEN latest ELSE report

\* os.replace: the commit point.
Replace ==
  /\ Goto("replace", "unlink")
  /\ latest' = Renamed
  /\ UNCHANGED <<loopVars, commandVars, dockerVars, evidenceVars, errorVars,
                 signalVars, smoke, outcome>>

Unlink ==
  /\ Goto("unlink", "print")
  /\ UNCHANGED <<loopVars, commandVars, dockerVars, evidenceVars, errorVars,
                 signalVars, resultVars>>

ExitOk ==
  /\ Goto("print", "exit")
  /\ outcome' = "ok"
  /\ UNCHANGED <<loopVars, commandVars, dockerVars, evidenceVars, errorVars,
                 signalVars, smoke, latest>>

\* An OSError while saving or while printing the last line: main returns 1.
SaveFails ==
  /\ stage \in {"write", "replace", "unlink", "print"}
  /\ ExitFailed
  /\ UNCHANGED <<loopVars, commandVars, dockerVars, evidenceVars, errorVars,
                 signals, lapsed>>

-------------------------------------------------------------------------------
(* The world around the process.                                           *)

\* A handled signal raises KeyboardInterrupt wherever the process is.
Interrupt(sig) ==
  /\ stage # "exit" /\ sig \notin ignored /\ signals < MaxSignals
  /\ signals' = signals + 1
  /\ lapsed' = (lapsed \/ Unsupervised \/ stage \in {"finally", "guard"})
  /\ \/ /\ stage \in TryStages
        /\ Raise("interrupted")
        /\ UNCHANGED <<ignored, resultVars>>
     \/ /\ stage \notin TryStages
        /\ ExitFailed
        /\ UNCHANGED <<commandVars, errorVars>>
  /\ UNCHANGED <<loopVars, dockerVars, evidenceVars>>

\* SIGKILL or a host failure of the Python process alone.
Kill ==
  /\ stage # "exit"
  /\ stage' = "exit" /\ outcome' = "killed"
  /\ watched' = FALSE /\ ignored' = {}
  /\ UNCHANGED <<loopVars, proc, dockerVars, evidenceVars, errorVars, signals,
                 lapsed, smoke, latest>>

\* docker compose up: what the service needs and the project does not have.
Needed(s) == IF s = "up_api" THEN Kinds ELSE Kinds \ {"api"}
Create(s) ==
  /\ s \in {"up_postgres", "up_api"} /\ proc[s] = "running"
  /\ \E k \in Needed(s) :
       /\ \A m \in Members : <<k, m>> \notin resources
       /\ resources' = resources \cup {<<k, member>>}
  /\ UNCHANGED <<stage, loopVars, commandVars, epoch, evidenceVars, errorVars,
                 signalVars, resultVars>>

\* docker compose down removes the project's resources one at a time.
Remove ==
  /\ proc["down"] = "running"
  /\ \E r \in resources : resources' = resources \ {r}
  /\ UNCHANGED <<stage, loopVars, commandVars, epoch, evidenceVars, errorVars,
                 signalVars, resultVars>>

\* A command ends.  `up` reports success only for what is there; the exit
\* status of `down` is not trusted, cleanup looks for itself.
CommandEnds(s) ==
  /\ proc[s] = "running"
  /\ \/ /\ s = "up_postgres" =>
             \A k \in Needed(s) : \E m \in Members : <<k, m>> \in resources
        /\ s = "up_api" =>
             /\ \A k \in Needed(s) : \E m \in Members : <<k, m>> \in resources
             /\ <<"api", member>> \in resources
        /\ proc' = [proc EXCEPT ![s] = "ok"]
     \/ proc' = [proc EXCEPT ![s] = "error"]
  /\ UNCHANGED <<stage, loopVars, watched, dockerVars, evidenceVars, errorVars,
                 signalVars, resultVars>>

\* The API container exits, is OOM-killed or is restarted.
Disturb ==
  /\ epoch < MaxDisturbances
  /\ stage # "exit" /\ <<"api", member>> \in resources
  /\ epoch' = epoch + 1
  /\ seen' = IF stage \in {"contract", "load"} THEN seen \cup {epoch'} ELSE seen
  /\ UNCHANGED <<stage, loopVars, commandVars, resources, identity, sampled,
                 evidence, report, errorVars, signalVars, resultVars>>

-------------------------------------------------------------------------------
\* What the Python process does by itself.
Step ==
  \/ StartMember \/ LoopDone
  \/ Spawn \/ Supervise \/ Tick \/ Timeout \/ Reap
  \/ Identify \/ Ready \/ Processes \/ Contract \/ Accept
  \/ Measure \/ Collect \/ Final \/ MustFail
  \/ GuardInterrupt \/ GuardTerminate
  \/ VerifyContainers \/ VerifyNetworks
  \/ RestoreInterrupt \/ RestoreTerminate \/ Settle
  \/ Write \/ Replace \/ Unlink \/ ExitOk

\* What may happen to it.
World ==
  \/ Fail \/ SaveFails \/ Kill \/ Disturb
  \/ \E sig \in Signals : Interrupt(sig)
  \/ \E s \in CommandStages : Create(s) \/ CommandEnds(s)
  \/ Remove

Next == Step \/ World

Spec == Init /\ [][Next]_vars

\* The process keeps running; no command is assumed ever to end, no signal to
\* arrive and no error to happen.
FairSpec == Spec /\ WF_vars(Step)

-------------------------------------------------------------------------------
(* Properties.                                                             *)

\* Every variable has its type.
TypeOK ==
  /\ stage \in Stages
  /\ member \in 1 .. (MemberCount + 1)
  /\ endpoint \in 1 .. EndpointCount /\ index \in 0 .. MeasuredRuns
  /\ proc \in [CommandStages -> {"none", "running", "ok", "error"}]
  /\ watched \in BOOLEAN
  /\ resources \subseteq Resource /\ epoch \in Epochs
  /\ identity \in Epochs \cup {NoIdentity}
  /\ seen \subseteq Epochs /\ sampled \in BOOLEAN
  /\ evidence \subseteq Evidence /\ report \subseteq Backend
  /\ failure \in {"none", "failed", "interrupted"}
  /\ teardown \in {"none", "ok", "failed"}
  /\ ignored \subseteq Signals /\ signals \in 0 .. MaxSignals
  /\ lapsed \in BOOLEAN
  /\ smoke \in BOOLEAN /\ latest \subseteq Backend
  /\ outcome \in {"running", "ok", "failed", "killed"}

\* While the contract or a load runs, everything the project owns in Docker
\* was created for this member, and its whole fixture is there: no measurement
\* shares PostgreSQL, the network or the host with a leftover of another one.
IsolatedMeasurement ==
  stage \in {"contract", "load"} =>
    resources = {<<k, member>> : k \in Kinds}

\* The evidence of a backend is complete: the contract and every measured run
\* of every endpoint, once each, all served by the instance of the container
\* whose identity was taken at startup.
Complete(b) ==
  /\ \E e \in b.evidence : e.endpoint = 0
  /\ \A n \in 1 .. EndpointCount, i \in 1 .. MeasuredRuns :
       \E e \in b.evidence : e.endpoint = n /\ e.index = i
  /\ \A e \in b.evidence : e.seen = {b.identity}

\* latest.json is the previous document or a report with one complete backend
\* for each member, whatever failed, was interrupted or was killed.
PublishedReportIsComplete ==
  latest # Previous =>
    /\ \A m \in Members : \E b \in latest : b.implementation = m
    /\ \A b, c \in latest : b.implementation = c.implementation => b = c
    /\ \A b \in latest : Complete(b)

\* latest.json changes only in a local run, when nothing the run created in
\* Docker is left and no command of the run is alive to create more.
PublishedOnlyWhenClean ==
  [][latest' # latest =>
       /\ ~smoke
       /\ resources = {}
       /\ \A s \in CommandStages : proc[s] = "none"]_vars

\* When the process has ended by itself and Docker resources of the run are
\* left, then cleanup had failed, or a signal had been raised between a Popen
\* and its try or between the finally and the second SIG_IGN; and it says so
\* with its exit status.
ReclaimedOnExit ==
  outcome \in {"ok", "failed"} /\ resources # {} =>
    outcome = "failed" /\ (lapsed \/ teardown = "failed")

\* Exit status 0 of a local run means the new report is in place; a smoke run
\* never changes latest.json.
SuccessMeansSaved ==
  /\ outcome = "ok" /\ ~smoke => latest # Previous
  /\ smoke => latest = Previous

\* The process ends, even when no command it starts ever does: each has a
\* deadline, and cleanup is bounded too.
Terminates == <>(outcome # "running")

\* The run implements SequentialCohort.
Cohort ==
  INSTANCE SequentialCohort WITH
    held <- {r[2] : r \in resources},
    completed <- member - 1,
    result <- IF latest # Previous THEN "published"
              ELSE IF outcome = "running" THEN "pending" ELSE "abandoned"
ImplementsCohort == Cohort!Spec

-------------------------------------------------------------------------------
(* What the documentation says and the code does not do.                   *)

\* docs/BENCHMARK.md: the project is also removed after a handled interruption.
\* A run that ends by itself leaves something only when cleanup said so.
InterruptionReclaims ==
  outcome = "failed" /\ resources # {} => teardown = "failed"

\* docs/BENCHMARK.md: on SIGINT or SIGTERM the process groups are killed and
\* reaped before project teardown.
NoCommandDuringTeardown ==
  stage \in TeardownStages =>
    \A s \in CommandStages \ {"down"} : proc[s] # "running"

\* docs/BENCHMARK.md: the command exits nonzero, preserving the previous result.
FailurePreservesPrevious == outcome = "failed" => latest = Previous
===============================================================================
