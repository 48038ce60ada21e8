# Formal models of simple-api-benchmark

simple-api-benchmark measures eight HTTP backends with one fixed profile, one
after the other, each in its own Docker Compose project, and publishes one JSON
report per run, which a GitHub workflow commits to main and deploys to Pages.
What is hard in it is not the arithmetic. It is that a run is a long sequence of
external commands that may hang, fail halfway or outlive a signal, and that
publication and deployment race with pushes, reruns and each other.

This directory holds TLA+ models of those parts, the TLC runs that check them on
small instances and the TLAPS proofs of what must hold for every instance. Of
the backends themselves, which all implement one HTTP contract, it models the two
Python servers in full.
Paths below are relative to the repository.

    tlc -workers 2 -config BenchmarkRun.cfg MCBenchmarkRun.tla
    tlapm BenchmarkRunProofs.tla

## 1. The system and its parts

| Part | State it keeps | Operations | What is hard in it | What makes it correct |
|---|---|---|---|---|
| Benchmark runner: `benchmark/run.py`, `benchmark/official.py` | the loop, the report under construction, the pending failure | `run_benchmark` over the members, its `finally`, `main` with its handlers | signals in any line, cleanup that fails after success | the published report is complete; exit status tells the truth |
| Docker environment: `benchmark/environment.py`, `docker-compose.yml` | project name, container, identity | `build`, `start`, `check`, `measure`, `cleanup` | `up` killed halfway; container exit or restart under load | every measurement is of one container, alone; nothing is left |
| Command supervisor: `benchmark/process.py` | the child's process group | `execute` | the window before its `try`; deadline against exit | ends always; no group outlives it |
| Cleanup protection: `benchmark/contract_runner.py` `protect_cleanup` | two signal handlers | ignore, cleanup, restore | the handlers change one by one | cleanup is not interrupted |
| Result file: `benchmark/results.py` `atomic_json` | temporary file, `latest.json` | write, rename, unlink | crash or signal on each side of the rename | old document or new, never a mixture |
| External readiness: `benchmark/healthcheck.py`, `read_response` of `benchmark/contract_test.py` | clock, deadline, connection, timer thread | the poll loop, one request, the check around it | stale clock; timer thread against reader; restart between checks | ready means served by the container started; slow is not wrong; the wait is bounded |
| Report audit: `benchmark/report.py`, `benchmark/definition.py` | none | `validate_report`, `audit_raw`, `validate_context` | binding a report to its run, attempt and commit | only the attempt's own report passes |
| Official workflow and publication: `.github/workflows/benchmark.yml`, `benchmark/publish.py`, `benchmark/publication.py` | branch main, artifacts, outputs, the concurrency group | measure, audit, check main, push, emit, hand over | reruns, lost acknowledgements, pushes by others | one publication per run, on the commit it measured |
| Pages: `.github/workflows/pages.yml`, `pages-deploy.yml`, `benchmark/pages_handoff.py`, `benchmark/pages.py` | artifacts, the `pages` group, the site | request, build, queue, verify, deploy, retry | check against use of main; a queue with one place | the site never goes back |
| Site builder: `benchmark/site.py` | the output directory | `history_files`, `build_site` | limit on files; exchange of directories | main can be built; a site is always there |
| Exec event audit: `benchmark/healthcheck.py` `parse_exec_events` | none | one pass over Docker events | unordered, truncated events | an exec in the window is never missed |
| Contract runner: `benchmark/contract_runner.py` | one Compose project for all | `run_implementations` | leftovers of the previous implementation | each contract meets its own server |
| Diagnostic studies: `benchmark/common_warmup_screen.py`, `jvm_diagnostic.py`, ... | a journal on disk | attempts, windows, journal writes | crash between steps; swallowed cleanup error | the journal never claims more than happened |
| FastAPI server: `apps/python-fastapi` | lifespan, asyncpg pool, requests in flight | `open_pool`, `db_item`, `close_pool`, `check_health` | start-up that fails midway; shutdown under load; a database that stalls | answers are the table's; nothing is used after the close or left after the exit; it stops |
| Flask server: `apps/python-flask` | worker process, its psycopg pool, its one thread | `create_server_app`, `db_item`, `fetch_item`, `close_pool`, `main` of the health check | signal, thread and atexit in one process; workers die and are replaced | the same, across workers |
| Other API servers: `apps/go-*`, `rust-*`, `node-*` | pool, listener | start, serve, graceful shutdown | signals during shutdown; pool closed under requests | requests are answered or the deadline ends it |
| Installer of oha: `benchmark/install_oha.py` | cache file | download, verify, rename | two installers at once | the cache never holds an unverified binary |
| Dashboard: `site/*.mjs` | the loaded report | load, select, filter | one thread, no concurrent loads | shows what the index lists |
| Registry, README and charts, CI gates, Makefile, fixture | static | projections, rendering | no state after loading | - |

How they interact. The runner calls the environment, the environment calls the
supervisor for every command and the readiness wait once per backend; the
commands act on Docker while Python waits, and Docker is the state they share.
Signals reach the runner anywhere. The measure job runs the runner and uploads an
artifact; the publish job of the same run reads it and pushes to main; the pages
job and pages.yml call the same deployment workflow, which reads main again. main
and the two concurrency groups are the state shared between jobs. An API server
shares the table `items` with nobody in a benchmark, but with anybody who can
reach the database; its process is started, signalled and killed by Docker, and
its handlers run under a host that is not the repository's: Uvicorn or Gunicorn.
`PROJECT.json` lists each hazard with the line where it bites and the
properties that cover it, or the reason why none does yet.

## 2. The modules

| Module | What it models | Run | Proofs |
|---|---|---|---|
| `BenchmarkRun` | one invocation of `python -m benchmark.run`, with Docker, commands and signals around it | `BenchmarkRun.cfg` | `BenchmarkRunProofs`, `BenchmarkReportProofs` |
| `SequentialCohort` | what a run promises (abstract) | refined by `BenchmarkRun` | `BenchmarkReportProofs` |
| `Readiness` | `wait_external_readiness` and `read_response` in discrete time | `Readiness.cfg` | `ReadinessProofs` |
| `Publication` | `benchmark.yml` and `publish.py` up to the outputs | `Publication.cfg` | `PublicationProofs` |
| `PagesDeployment` | extends `Publication` with the Pages workflows | `PagesDeployment.cfg` | `PagesDeploymentProofs` |
| `PublishedSite` | what readers are promised (abstract) | refined by `PagesDeployment` | `PagesDeploymentProofs` |
| `ApiInputs` | `parse_id` and the settings of the pool, as pure operators | through the servers; `ParsesExactly` in `FlaskServer.cfg` | `ApiInputsProofs` |
| `ApiEnvironment` | the requests, the database with its failures and its other writers | through the servers | |
| `ItemService` | what `GET /db/{id}` promises (abstract) | refined by both servers | both server proofs |
| `FastApiServer` | the FastAPI application under Uvicorn | `FastApiServer.cfg` | `FastApiServerProofs` |
| `FlaskServer` | the Flask application under Gunicorn | `FlaskServer.cfg` | `FlaskServerProofs` |

The `MC*` modules extend a specification for TLC; each `.cfg` gives its
constants. A definition whose comment begins with "A seeded mistake" is no part
of a specification: it is a variant, written before the definition it replaces,
by which every property was seen to fail.

### BenchmarkRun

`stage` is the program counter of `run_benchmark` and `main`. Each stage is one
operation of the source that can raise; `TryStages` are inside the `try`,
`TeardownStages` inside `environment.cleanup()`.

| Source | Actions |
|---|---|
| `run.py:85-139`, the loop, `finally`, save | `StartMember`, `LoopDone`, `Final`, `Settle`, `ExitOk`, `SaveFails` |
| `process.py:18-67` `execute` | `Spawn` (Popen), `Supervise` (the `try` is entered), `Tick`, `Timeout`, `Reap`; `KillWatched` is its `except` |
| `environment.py` `build`, `start`, `check`, `measure` | `Identify`, `Ready`, `Processes`, `Contract`, `Accept`, `Measure`, `Collect`; `MustFail` is a check that finds something else |
| `contract_runner.py` `protect_cleanup` | `GuardInterrupt`, `GuardTerminate`, `RestoreInterrupt`, `RestoreTerminate` |
| `environment.py` `cleanup` | the command `down`, `VerifyContainers`, `VerifyNetworks` |
| `results.py` `atomic_json` | `Write`, `Replace`, `Unlink` |
| Docker, signals, the host | `Create`, `Remove`, `CommandEnds`, `Disturb`, `Interrupt`, `Kill`, `Fail` |

Docker is a set of resources `<<kind, member>>`: the member part says for whom
something was created, so that a leftover is seen. `epoch` counts the instances
of the API container; `seen` collects the instances that served an interval of
traffic, and a backend enters the report with its evidence.

Abstractions. Short read-only Docker commands are one step that succeeds or
fails. Kill and reap are one step (a second signal inside the `except` of
`execute` is left out). Killing a Compose client ends the creation of resources
it asked for. The exit status of `down` is not trusted, as in the code, which
looks afterwards. `docker-compose.yml` declares no volume, so there is none.
`Write` is the temporary file with its fsync. What precedes `run_benchmark` in
`main` only fails and keeps no state. `failure` says that an exception is on its
way out, not which. `official.py` runs the same function with another output.

### Readiness

`pc` follows the loop of `healthcheck.py:62-92`: `Top` reads the clock into
`now`, the checks are `CheckBefore`, `CheckAfter` and `CheckFails`; a request is
`Connect`, `Send` (by the server), `ReadReturns` or `ReadFails`, then `Judge`,
with `Abort` as the timer thread of `contract_test.py:177-187`; a transport
failure goes through the pause and `Wake`. `until` is when the call that blocks
now ends at the latest, and time passes (`Tick`) only inside a call; computing
takes none. As in the code, `remaining` comes from the clock before the check and
is given first to the connection and again to the response. The container exits and is
restarted behind the runner's back; `instance` 0 is the one `start()` identified.
Kept from the code although surprising: an answer that is not HTTP/1.1 counts as a
transport failure and is asked again; a truncated body is returned by `read(n)`
without an error; a success is accepted without another look at the clock.

### Publication and PagesDeployment

main is a sequence of commits, a publication `<<run, attempt>>` or a code commit.
A run is `idle`, `queued` and then in the job it executes. `Join` is the
concurrency group: one active, one pending, and a newcomer takes the pending place
while another run is active; with the group free whoever is queued starts, so nobody
is displaced.
reruns keep the commit of the dispatch, `RerunFailed` also the results of the jobs
that had succeeded. `CheckRemote` and `Push` ask the same question, the first
through `ls-remote`, the second through the fast-forward rule of the remote, and
`PushCode` may come between. A push that is accepted and reported as failed is
`Push` then `Fail`; an attempt may fail at every step.

`PagesDeployment` adds the calls of `pages-deploy.yml`: `Request` by pages.yml
(after a successful CI of main or by dispatch: both take main's tip),
`OfficialCall` by a run, `Build` with the first authorization and the limit on
history files, `Queue`, `Enter`, `Verify` (the second authorization, inside the
group), `Deploy`, and `Redeploy`, a retry of the deploy job with the old artifact.
`Queue` enters a free group at once; while a deployment is inside, it takes the
pending place and cancels the deployment that had it, which then enters no more.
`Enter` is the one that waited.

Abstractions. The semantics of concurrency groups and of reruns are GitHub's and
are marked external. The approval of the `github-pages` environment and its rules
are outside the repository. The size limits of history are folded into their
number. Which fields `validate_report` compares is not modelled; that it binds a
report to run, attempt and commit is `OwnArtifact`.

### ItemService, FastApiServer, FlaskServer

`ItemService` knows a table, a service that is closed, open or ended, and
requests. An invalid id is refused by itself (400); otherwise the request looks at
the table once, at some moment between being sent and being answered, and is
answered with what was there (200 or 404), or fails (500), or is cut. Everything
else in the two servers, pools, threads, processes, signals, is detail that must
not show.

*FastApiServer.* One action is what a coroutine does between two awaits. `life` is
the lifespan coroutine with `open_pool` and `close_pool` in it, `host` is Uvicorn.

| Source | Actions |
|---|---|
| `database.py:46-64` `open_pool` | `ReadOptions`, `CreatePool`, `CreatePoolFails`, `ProbeAnswers`, `ProbeFails` |
| `database.py:34-43` `close_pool` | `PoolCloses`, `PoolCloseFails`; `Terminate` is `pool.terminate()`, `AfterClose` the two callers |
| the two `except CancelledError` | `CancelLifespan` |
| `app.py:59-77` `db_item` | `Begin` (`parse_id`, the call of `fetchrow`), `Acquire`, `Connect`, `Fetch`, `Return`, `Fail` |
| `app.py:38-45` `lifespan` | the sequence of `life`; `Shutdown` enters its `finally` |
| `healthcheck.py` | `CheckHealth` |
| Uvicorn, asyncpg, the host | `Serve`, `Signal`, `CutCalls`, `Exit`, `Release`, `Die` |

A request holds a connection from `Acquire` to its end: while it is opened
(`connecting`), while the query runs (`busy`) and while it is reset (`read`). A
request that is cut keeps it as `releasing` until asyncpg has cancelled the query, or
as `resetting`; one that was still being opened is given up. A query that has timed
out is not over either: `fetchrow` and `fetchval` release the connection without a
timeout, and the release waits for the database to deal with the cancellation. So
`Fail` and `ProbeFails` of a query need a database that does not stall.

*FlaskServer.* `arbiter` is Gunicorn's master, `worker` the one worker process,
`pool`, `connected` and `proven` belong to the present worker and are lost with it.

| Source | Actions |
|---|---|
| `server.py:9-13`, `database.py:38-58` `open_pool` | `ReadSettings`, `PoolOpens`, `PoolOpenFails`, `ProbeAnswers`, `ProbeFails`, `Abandon` |
| `app.py:45-57` `db_item`, `database.py:61-65` `fetch_item` | `Begin`, `Acquire`, `AcquireFails`, `Execute`, `Commit`, `Fail` |
| `database.py:68-72` `close_pool` by atexit | `AtExit` |
| `healthcheck.py` | `CheckHealth` |
| Gunicorn, psycopg_pool, the host | `Quit`, `BootTimeout`, `Respawn`, `Term`, `Kill`, `Halt`, `Crash`, `Reconnect`, `Die` |

What is assumed of the hosts and drivers, which are not part of the repository (the
options are those of the two Dockerfiles' last lines):

- Uvicorn binds after the lifespan's start-up. A signal during start-up is only
  noted. SIGTERM or SIGINT lets requests finish for the graceful timeout and then
  cancels them; a SIGINT while it waits makes it leave at once, which cancels
  requests and lifespan together. On the way out it raises the signal again, so
  the process may also end by it (`Die`).
- asyncpg queues for a connection without a timeout, opens new ones up to
  `max_size` within the connect timeout each, and cancels a query at the command
  timeout. The release then waits for this cancellation for as long as it takes; the
  reset in it is bounded by the command timeout again. A connection that broke is
  dropped. `close()` waits for those that are held.
- Uvicorn may send a 500 of its own to a request it cuts. This is no answer of the
  application, and such a request is just `cut`.
- Gunicorn's arbiter owns the socket, so requests arrive while no worker serves. A
  worker that fails to boot halts the arbiter, one that dies is replaced. The
  heartbeat is the worker's main thread's: a request that hangs does not trip
  `--timeout`, a worker that hangs while booting does. After `--graceful-timeout`
  the worker is killed. The interpreter joins the request thread before atexit.
- psycopg_pool hands a connection out unchecked, replaces broken ones in the
  background and raises `PoolTimeout` if it has none; executing and committing
  have no timeout.
- The database answers, stalls (connections stay, nothing is answered) or is down,
  and changes between these at any time; others write its table when it is up. A
  query can fail only when the database has been away at some time (`trouble`).

Abstractions. Time is left out: what has a timeout may end by it whenever it cannot
go on, and what has none waits for what it waits for. Any number of clients is a finite set of requests made once each. A text is
a sequence of characters, so `parse_id` is translated as it is written; BIGINT is
scaled to -16 .. 15 and 19 digits to 2, which keeps the relation between them that
matters: not every number with the allowed digits is in the range. `pool_settings`
checks what `pool_options` checks. Flask's `parse_id` is applied when the request
arrives; it has no state. A `SELECT 1` that answers something else than 1 is not
modelled.

## 3. What the runs check

Passing runs:

| Run | Instance | Properties |
|---|---|---|
| `benchmark_run` | 2 members, 2 endpoints, 3 measured runs, 1 exit or restart, 2 signals; 205 516 states | `TypeOK`, `IsolatedMeasurement`, `PublishedReportIsComplete`, `PublishedOnlyWhenClean`, `ReclaimedOnExit`, `SuccessMeansSaved`, `ImplementsCohort`, `Terminates` |
| `readiness` | deadline 6, request 2, check 2, interval 1, 1 restart; 23 128 states | `TypeOK`, `ReadyIsServed`, `BlamedRightly`, `EndsByBound`, `WaitEnds` |
| `publication` | 2 runs of 2 attempts, 2 code pushes, and a third run beside 1 push or rerun; 274 446 states | `PublicationTypeOK`, `ResultsExtendTheirSource`, `OnePublicationPerRun`, `PublishedByItsMeasurement`, `OutputsAreOnMain`, `EveryRunSettles` |
| `pages` | 1 run of 2 attempts, 1 code push, 2 deployments, 1 retry, and a third deployment beside 1 push, rerun or retry; 345 285 states | `TypeOK`, `TipStaysShown`, `EveryDeploymentSettles`, `ImplementsPublishedSite` |
| `fastapi` | 2 requests, 1 connection, 12 texts, 1 item with 2 rows, 3 environments, 2 signals; 198 243 states | `TypeOK`, `HeldWithinPool`, `NothingLeftBehind`, `ErrorsNeedTrouble`, `RefusedExactly`, `HealthyMeansProven`, `ImplementsItemService`, `RequestsSettle`, `StartSettles`, `StopEnds` |
| `flask` | 2 requests, 1 item with 2 rows, 3 environments, 2 crashes; 166 203 states | `TypeOK`, `PoolOutlivesRequests`, `CleanWorkerExit`, `HealthyMeansProven`, `ImplementsItemService`, `SettlesUnlessStalled`, `StopEnds`; `parse_id` on every text of up to 4 of 6 characters (`EveryTextParsesExactly`) |

Why these bounds are enough to show the interesting cases. Two members are needed
for a leftover of one to meet the other, and two endpoints with all three
measured runs for both ways `Advance` wraps. One exit already makes identities
differ at every point of a backend. Two signals are what it takes to hit one
window while a failure from the first is on its way, and to hit the handlers
between their two replacements. For readiness the deadline is longer than one
attempt usually takes, so attempts end before, on and after it; the bound of
`EndsByBound` is reached in this instance. Two attempts of two runs give a rerun
after a publication and a lost acknowledgement. Two deployments suffice for an older
one to be behind a newer one and to be retried. To replace another in a queue takes
three, one that is active, one that waits and the newcomer; the two runs have them,
but bound what happens beside all three: `BoundedStep` of the `MC` modules, an
`ACTION_CONSTRAINT`, cuts off further pushes, reruns and retries. These are the
maintainers' to do or not and are never steps of the fairness conditions, so no
liveness property holds because of the bound. For
the servers two requests are one that holds the only connection, or the only
thread, and one that waits for it; two rows tell a remembered row from the
present one; two signals are the second SIGINT; two crashes kill a worker and its
replacement. The texts of `fastapi` have both ends of the range and the first
number beyond each, with and without signs and zeros.

Runs that violate a statement of the documentation (the `findings`):

| Run | Statement | What the code does |
|---|---|---|
| `interruption_reclaims` | docs/BENCHMARK.md:107-110: the project is also removed after a handled interruption | a signal in the `finally` before the second `SIG_IGN` skips `cleanup()` |
| `no_command_during_teardown` | docs/BENCHMARK.md:124-126: groups are killed before project teardown | a signal between `Popen` and the `try` leaves the group alive |
| `failure_preserves_previous` | docs/BENCHMARK.md:116-117: exits nonzero, preserving the previous result | a signal or an error after `os.replace` exits 1 with the new result in place; docs/BENCHMARK.md:214-219 qualifies the statement, naming the rename as the commit point |
| `stale_runs_cannot_cancel` | docs/AUTOMATION.md:336-343: ineligible runs cannot cancel a valid deployment | while a deployment is inside the group, a stale one takes the pending place of the valid one, then is refused |
| `published_tip_is_buildable` | docs/AUTOMATION.md:304-306, 357-372: recover a publication by dispatching Pages | past 128 history files no build of main succeeds, recovery included |
| `flask_query_is_bounded` | `apps/python-flask/benchmark_api/database.py:1`: "bounded startup, query, and shutdown behavior" | `execute` has no timeout: with a database that stalls for good a request that a worker has taken up never ends |

`SettlesUnlessStalled` and `StopEnds` of `FlaskServer` are what remains true beside
the last one: unless the database stalls again and again every request ends, and
SIGTERM ends the server in any case. In the FastAPI server a query has the command
timeout, but its end waits for the cancellation, so `RequestsSettle` and
`StartSettles` have a condition of their own: that a query does not stall again and
again or for good. What has a timeout to the end, connecting, resetting and closing
the pool, is not part of it: the liveness holds with a database that never accepts a
connection, and `StopEnds` from serving on whatever the database does. During the
start-up a signal is only noted, and `StopEnds` has the condition of `StartSettles`.

`ReclaimedOnExit` is what remains true beside the first two: leftovers come only
from a cleanup that failed and said so, or from a signal in these windows.

### Fairness and liveness

- `BenchmarkRun`: weak fairness of `Step`, the process's own steps. No command is
  assumed to end, no signal to arrive: `Terminates` rests on the deadline
  every `execute` has, so `Timeout` is a step of the process.
- `Readiness`: weak fairness of `Step`: the runner, its timer thread and the
  clock. Nothing is assumed of the server.
- `Publication`: weak fairness of each run's jobs. GitHub starts what is queued
  and every job has `timeout-minutes`, so each ends, well or badly (`Fail`).
- `PagesDeployment`: weak fairness of `DeploymentStep(d)` for each deployment, for
  the same reasons; success is not assumed. Steps of `Publication` need none.
- `FastApiServer`: weak fairness of the lifespan's steps, of Uvicorn's and of each
  request's: the event loop runs what is ready. This includes the expiry of
  timeouts the code or the driver sets, and nothing else: `Fail`, `ProbeFails`,
  `CreatePoolFails`, `Release` and `PoolCloseFails` are enabled under a stalled
  database only where a timeout ends the wait, which it does not for a query. Not
  assumed: that the database answers or comes back, that a signal, a request or a
  cancellation comes.
- `FlaskServer`: the same of the boot, of each request's steps, of the worker's exit
  and of the arbiter. `Reconnect` is not assumed: a request that waits for a
  connection has a timeout.

## 4. What is proved

For every value of the constants under the named assumptions
(`BenchmarkAssumption`, `ReadinessAssumption`, `PublicationAssumption`,
`DeploymentAssumption`, `InputsAssumption`, `EnvironmentAssumption`,
`PoolAssumption`, `CrashAssumption`, which only give the constants their types, and of
`parse_id` that the bounds of its range fit the digits it allows, as 2^63 fits 19):

Theorems that state a property some run checks:

| Module | Theorem | Property |
|---|---|---|
| `BenchmarkRunProofs` | `TypeCorrect` | `TypeOK` |
| | `MeasurementIsolated` | `IsolatedMeasurement` |
| | `ExitReclaims` | `ReclaimedOnExit` |
| | `PublicationClean` | `PublishedOnlyWhenClean` |
| `BenchmarkReportProofs` | `ReportComplete`, `SuccessSaved` | `PublishedReportIsComplete`, `SuccessMeansSaved` |
| | `CohortImplemented` | `ImplementsCohort` |
| `ReadinessProofs` | `TypesHold`, `ReadyMeansServed` | `TypeOK`, `ReadyIsServed` |
| | `SlowIsNotWrong`, `WaitIsBounded` | `BlamedRightly`, `EndsByBound` |
| `PublicationProofs` | `PublicationTypesHold`, `PublicationsFollowSource`, `PublishedOnce`, `PublishedIsMeasured`, `HandedOffIsOnMain` | the invariants of `Publication` |
| `PagesDeploymentProofs` | `DeploymentTypeCorrect`, `ShownTipStays`, `PromiseKept` | `TypeOK`, `TipStaysShown`, `ImplementsPublishedSite` |
| `FastApiServerProofs` | `TypesHold`, `NothingIsUsedAfterClose`, `ExitIsClean` | `TypeOK`, `HeldWithinPool`, `NothingLeftBehind` |
| | `LoadMakesNoErrors`, `HealthIsProven`, `RefusalsAreExact` | `ErrorsNeedTrouble`, `HealthyMeansProven`, `RefusedExactly` |
| | `Refinement` | `ImplementsItemService` |
| `FlaskServerProofs` | `TypesHold`, `PoolIsClosedLast`, `WorkersCleanUp` | `TypeOK`, `PoolOutlivesRequests`, `CleanWorkerExit` |
| | `HealthIsProven`, `Refinement` | `HealthyMeansProven`, `ImplementsItemService` |

`LifecycleCorrect`, `ReadinessCorrect`, `PublicationCorrect`, `DeploymentCorrect` and
the two `Invariance` are the inductive invariants these rest on.

Theorems that say more than the runs do:

| Theorem | What it says |
|---|---|
| `TeardownIsAlone`, `CleanupOwnsUp` | `NoCommandDuringTeardown` and `InterruptionReclaims`, which the code violates, hold of every run in which no signal was raised in one of the two windows |
| `NoCommandIsOrphaned` | only SIGKILL or such a signal leaves a command behind its stage |
| `FailureAfterSavingIsLate` | a new `latest.json` means that all was measured, validated and cleaned up, so a failure with a new document comes after `os.replace` |
| `RunGetsNearer`, `WaitRunsOut` | a run and a readiness wait come nearer to their end with every step |
| `PublicationImplemented` | `PagesDeployment` implements `Publication` |
| `TipIsAuthorized` | the second comparison of `pages_handoff.py` never refuses a tip |
| `SiteShowsMeasured`, `DeployedIsOwn` | a publication on the site was measured by its attempt, follows the commit measured, and a run shows only its own |
| `GroupIsExclusive`, `CancelledByEligible` | one deployment inside the group and one before it; only that one is cancelled, only while another is inside, and by one that passed its own check |
| `RecoveryWhileHistoryFits` | `PublishedTipIsBuildable`, which the code violates, holds while there are no more runs than history files allowed |
| `ParseIdIsExact`, `EveryTextParsesExactly` | `parse_id` gives the number a text denotes, or refuses it if there is none, for texts of any length |
| `SettledOnce` (both servers) | what was answered or cut stays as it is |
| `AnswersAreTheTables` (both servers) | while the row of an id stands, every answer for the id shows it |
| `RefusalsAreByIdAlone`, `LoadMakesNoErrors` (Flask) | 400 depends on the id alone; a 500 needs a database that was away |

The arguments.

*A run.* None of the properties is inductive: that a project is empty when the
report is renamed depends on where the process came from. `ControlInv` ties the
stage to the pending failure, the ignored signals and the outcome; `CommandInv`
says that only the command of the current stage is alive; `ResourceInv` that
resources belong to the current member, are complete while it is measured and gone
once both verifications passed. All three are conditional on `Sheltered`: no
signal has been raised in a window and no SIGKILL came. `EvidenceInv` follows the
measurement (what has been recorded, all by one instance since identification),
`ReportInv` has one complete backend for each member measured, `SavedInv` carries
that over the rename. The refinement follows: a step of the run adds to or
removes from what the current member holds, completes it with an empty project, or
publishes after the last.

The statements of the documentation that the code violates are violated only where
`lapsed`, a signal raised in one of the two windows, or the rename has happened:
`LifecycleInv` gives them back under `~lapsed`. What `FailureAfterSavingIsLate` adds is
that the report in place is the report in memory and that `failure` was none when it
was saved.

*Readiness.* `CallEnds` says how late each call may end counted from the reading
`now`: a check, then twice the request limit, then a check. The limit is at most
the request timeout and at most what was left at `now`, hence the bound of the
deadline plus one request and two checks. `AnswerInv` says whose answer is in
hand; a lost peer stays lost because `instance` only grows.

*Descent.* `Terminates` and `WaitEnds` themselves need ENABLED. What makes them true
is proved: `StepsLeft` of the wait, eleven times the time to its bound plus the
places left in the loop, is a natural number that every step of it decreases and
nothing increases, so the bound on time is also one on steps. A run descends
lexicographically: members, stages left, endpoints, runs, and the turns left of the
present command. What the world does, errors and signals included, leaves that order
as it is or descends in it. What remains for TLC is that the process always has a
step to take until it ends.

*Publication.* A publication is made only when main's tip is the run's source, and
then it is the tip's child. If one of the same run were there already, its parent
would be the same source, at an earlier position; so the source would be on main
twice. `Distinct`, no commit is on main twice, excludes that, and is itself
kept because a fresh publication is not on main by this very argument.

*Deployments.* One deployment at most is inside the group (`OneInside`), and the
target of a verified one is not older than the site (`SiteInv`): main may grow
between the check and the deployment, but the target was the tip at the check,
and nobody else deploys meanwhile. So the site moves forward only, and what it
shows cannot be replaced by an older commit once it is the tip.

The deployments leave the variables of `Publication` alone except as its own actions
do, so its theorems carry over (`PublicationImplemented`). `OfficialInv` adds that the
target of an official deployment is a publication of its run; with `main` knowing each
publication as the child of its source, `Authorized` is no more than "the tip", and
what the site shows can be traced back to a measurement. `GroupInv` says that
whoever is in the group or waits before it has been built. The bound of
`RecoveryWhileHistoryFits` is an injection from the publications on main to the runs:
no run publishes twice.

*parse_id.* The library's induction takes an operator, so `ApiInputsProofs` states
induction with a set of naturals, proved from the least element of its complement,
and derives from it that the recursive functions `Numeral` and `Value` exist and what
each is at one step. `Value` of a numeral is its number, and a text of digits without
leading zeros is the numeral of its value; a number with more digits than the limit
lies outside the range because numerals grow with their numbers. From both
directions follow exactness and, with it, `RefusalsAreExact` without any condition.

*The FastAPI server.* `ServerInv` is five parts. `PoolInv` says in which state the
pool is at each point of the lifespan, with how many connections; `HostInv` where
the lifespan can be for each state of Uvicorn (it serves only a lifespan that is
ready, and has stopped requests before the lifespan goes into its `finally`);
`CallInv` what a request has at each stage; `Held` that the connections held
are among the pool's. That requests never meet a closed pool is a consequence of
`HostInv`, which is why `Shutdown` has to cut and to close in one step, as the
cancelled tasks and the lifespan do. `ErrorsNeedTrouble` is inductive with it: an
answer 500 needs a failure or a pool that is not open, and a request that is
`sent` finds it open. It speaks of the application's answers; a 500 of Uvicorn's own
to a request it cuts is outside the model. `AnswersAreTheTables` takes as its hypothesis only that nobody
writes the row of one id while it is watched; other rows may change. Besides the
answers it follows the row that a request has read and not sent yet. For the bound on connections the cardinality of the set of
holders is followed through every step of a request; at `Shutdown` the requests that
were connecting leave it together with their connections (`SessionsCut`).

*The Flask server.* `WorkerInv` gives the pool of each worker state, `HostInv` the
worker and its requests: only a worker that serves or quits runs one, and the
exit functions come after the last. `WorkerDies` re-establishes all of it at once, so
crashes need no invariant of their own.

*Refinement.* Both servers are mapped by `Service` and `Calls`. Each step is an action
of `ItemService` on one request, a cut of several, or a stutter; the proofs have one
lemma for each group of actions. The invariant is needed in two places: a step of a
request happens only while the service is open, and a service that closes leaves
no request behind that has read a row.

Only model-checked: the liveness properties (`Terminates`, `WaitEnds`,
`EveryRunSettles`, `EveryDeploymentSettles`, `RequestsSettle`, `StartSettles`,
`SettlesUnlessStalled`, both `StopEnds`), because from weak fairness they follow
only through ENABLED, which the prover does not reason about; and the six
violations, which are traces of one instance.

## 5. Not modelled, and why

- Field-by-field validation of JSON (`definition.py`, `report.py`,
  `publication.py`), rendering of README and charts, registry projections:
  functions of one document without state.
- Provenance collection and host fingerprints: reads before the loop.
- The dashboard: one page load in one thread.
- The exact bytes of HTTP, Docker and git output.
- The Python servers' `/json`, `/cpu` and `fibonacci`: constant answers without
  state, whose only effect on the rest is the time they take. Gunicorn's quick
  shutdown (SIGINT, SIGQUIT to the arbiter) and clients that disconnect.
- The Go, Rust and Node servers' start-up and shutdown: six different hosts and
  drivers, each with semantics of its own. `ItemService` is the specification they
  would have to implement as well.
- The diagnostic studies, the installer, the exchange of the site's directory and
  the audit of exec events: see the plan.

## 6. Plan

Written first, because a wrong result or a site gone back is the worst that can
happen: `BenchmarkRun`, `Publication`, `PagesDeployment`, then `Readiness`; then the
service that is measured, `ItemService` with `FastApiServer` and `FlaskServer`. What
could follow, in this order:

1. `StudyJournal`: `common_warmup_screen.py:130-263` with `jvm_diagnostic.py` and
   `common_warmup_environment.py`. The journal is written at every step; crash
   anywhere. Properties: an entry is `completed` only if its windows ran and its
   project is gone; a failure, cleanup's included, ends the study; identities are
   never reused.
2. `FileExchange`: `site.py:130-148`, `install_oha.py:48-84`, `official.py`'s
   selected file: temporary file, rename, rollback, with two processes and a
   crash. Property: a reader finds the old or the new content, verified.
3. The graceful stop of the Go, Rust and Node servers, as refinements of
   `ItemService` like the Python ones.
4. `ExecAudit`, `SelectRun`: `parse_exec_events` (`healthcheck.py:111-227`) and
   the choice of the selected run (`results.py`) as functions over finite sets,
   compared with a reference definition over every small input.
5. A variant of `BenchmarkRun` for the contract runner, whose implementations
   share one project name and whose cleanup does not look at what is left.

Composition: `Readiness` is the detail of the single step `Ready` of `BenchmarkRun`;
the server it waits for is `FastApiServer` or `FlaskServer`, whose `/health` is there
exactly while the service is open; `PagesDeployment` extends `Publication`; a study
runs the same environment and cleanup as `BenchmarkRun`.
