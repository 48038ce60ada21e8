------------------------------ MODULE FlaskServer ------------------------------
(***************************************************************************)
(* The Flask server (apps/python-flask/benchmark_api) under Gunicorn: an   *)
(* arbiter that holds the listening socket and one worker process, which   *)
(* opens and proves its own psycopg pool before it serves, has one thread  *)
(* for requests and closes the pool at its exit.  Gunicorn with the        *)
(* options of the Dockerfile, psycopg and its pool, and the database are   *)
(* external.  Time is not modelled: what has a timeout may end by it       *)
(* whenever it cannot go on.  Executing a query and committing have none.  *)
(***************************************************************************)
EXTENDS ApiEnvironment

CONSTANT MaxCrashes  \* bound: times the worker is killed from outside

ASSUME CrashAssumption == MaxCrashes \in Nat

VARIABLES
  env,        \* os.environ
  arbiter,    \* the master process
  worker,     \* where the worker process is
  crashes,    \* times it was killed from outside
  pool,       \* the worker's pool
  connected,  \* the pool has a connection to give
  proven,     \* history: SELECT 1 has answered this worker
  call,       \* the requests
  healthy     \* the container health check's last verdict

process == <<env, arbiter, crashes>>
resources == <<pool, connected, proven>>
server == <<process, worker, resources, call, healthy>>
vars == <<database, server>>

Booting == {"boot", "opening", "probing", "abandon"}
Serving == {"serving", "quitting"}
Finished == {"failed", "done", "dead"}
Running == {"acquiring", "executing", "read"}
Unsettled == {"queued"} \cup Running
Settled == {"answered", "cut"}
Stages == {"new"} \cup Unsettled \cup Settled
Gone == {"exited", "killed"}

In(stages) == {r \in Requests : call[r].stage \in stages}

Statuses == {0, 200, 400, 404, 500}

Call ==
  [stage : Stages, id : Ids \cup {Invalid},
   row : Rows \cup {NoRow, Unread}, status : Statuses]

\* The types, and that the one thread runs one request.
TypeOK ==
  /\ DatabaseTypeOK
  /\ env \in Envs
  /\ arbiter \in {"running", "stopping"} \cup Gone
  /\ worker \in Booting \cup Serving \cup Finished \cup {"atexit"}
  /\ crashes \in 0 .. MaxCrashes
  /\ pool \in {"none", "open", "closed"}
  /\ connected \in BOOLEAN /\ proven \in BOOLEAN
  /\ call \in [Requests -> Call]
  /\ \A r, s \in In(Running) : r = s
  /\ healthy \in BOOLEAN

Unanswered(stage) ==
  [stage |-> stage, id |-> Invalid, row |-> Unread, status |-> 0]

\* Requests that lose their connection.
Cut(lost) ==
  [r \in Requests |-> IF r \in lost THEN Unanswered("cut") ELSE call[r]]

Init ==
  /\ DatabaseInit
  /\ env \in Envs
  /\ arbiter = "running" /\ worker = "boot" /\ crashes = 0
  /\ pool = "none" /\ connected = FALSE /\ proven = FALSE
  /\ call = [r \in Requests |-> Unanswered("new")]
  /\ healthy = FALSE

-----------------------------------------------------------------------------
(* The worker's start: create_server_app and open_pool.                     *)

\* pool_settings checks what pool_options checks in the other server.
PoolSettings(settings) == PoolOptions(settings)

\* ConnectionPool is constructed and begins to connect in the background.
ReadSettings ==
  /\ worker = "boot"
  /\ IF PoolSettings(env)
       THEN worker' = "opening" /\ pool' = "open"
       ELSE worker' = "failed" /\ UNCHANGED pool
  /\ UNCHANGED <<database, process, connected, proven, call, healthy>>

PoolOpens ==
  /\ worker = "opening"
  /\ db = "up"
  /\ worker' = "probing" /\ connected' = TRUE
  /\ UNCHANGED <<database, process, pool, proven, call, healthy>>

\* A seeded mistake: open is not awaited, the pool is taken for opened.
PoolOpensLater ==
  /\ worker = "opening"
  /\ db # "up"
  /\ worker' = IF arbiter = "running" THEN "serving" ELSE "quitting"
  /\ UNCHANGED <<database, process, resources, call, healthy>>

\* No connection within the timeout of open.
PoolOpenFails ==
  /\ worker = "opening"
  /\ db # "up"
  /\ worker' = "abandon"
  /\ UNCHANGED <<database, process, resources, call, healthy>>

\* The application is returned.  A worker that was told to stop meanwhile stops
\* now.
ProbeAnswers ==
  /\ worker = "probing"
  /\ db = "up"
  /\ worker' = IF arbiter = "running" THEN "serving" ELSE "quitting"
  /\ proven' = TRUE
  /\ UNCHANGED <<database, process, pool, connected, call, healthy>>

\* A connection that proves broken raises; one that stalls is waited for.
ProbeFails ==
  /\ worker = "probing"
  /\ trouble /\ db # "stalled"
  /\ worker' = "abandon"
  /\ UNCHANGED <<database, process, resources, call, healthy>>

\* A seeded mistake: open_pool raises without closing the pool.
AbandonOpen ==
  /\ worker = "abandon"
  /\ worker' = "failed"
  /\ UNCHANGED <<database, process, resources, call, healthy>>

\* pool.close of open_pool's except; what it raises is ignored.
Abandon ==
  /\ worker = "abandon"
  /\ worker' = "failed"
  /\ pool' = "closed" /\ connected' = FALSE
  /\ UNCHANGED <<database, process, proven, call, healthy>>

-----------------------------------------------------------------------------
(* Requests.  The arbiter's socket takes them also while no worker serves;  *)
(* the thread of the worker runs them one by one.                           *)

Reply(r, status) ==
  call' = [call EXCEPT ![r].stage = "answered", ![r].status = status]

\* parse_id has no state, so the id is parsed on arrival.
Arrive(r) ==
  /\ arbiter = "running"
  /\ call[r].stage = "new"
  /\ \E text \in Texts :
       call' = [call EXCEPT ![r].stage = "queued", ![r].id = Parsed[text]]
  /\ UNCHANGED <<database, process, worker, resources, healthy>>

\* A seeded mistake: requests do not wait for the one thread.
BeginBeside(r) ==
  /\ worker \in Serving
  /\ call[r].stage = "queued"
  /\ IF call[r].id = Invalid
       THEN Reply(r, 400)
       ELSE call' = [call EXCEPT ![r].stage = "acquiring"]
  /\ UNCHANGED <<database, process, worker, resources, healthy>>

\* db_item: an invalid id is refused before the pool is asked.
Begin(r) ==
  /\ worker \in Serving
  /\ call[r].stage = "queued"
  /\ In(Running) = {}
  /\ IF call[r].id = Invalid
       THEN Reply(r, 400)
       ELSE call' = [call EXCEPT ![r].stage = "acquiring"]
  /\ UNCHANGED <<database, process, worker, resources, healthy>>

\* pool.connection hands out what it has, without looking whether it works.
Acquire(r) ==
  /\ call[r].stage = "acquiring"
  /\ connected
  /\ call' = [call EXCEPT ![r].stage = "executing"]
  /\ UNCHANGED <<database, process, worker, resources, healthy>>

\* A seeded mistake: connection() without a timeout.
AcquireFailsNever(r) ==
  /\ call[r].stage = "acquiring"
  /\ pool # "open"
  /\ Reply(r, 500)
  /\ UNCHANGED <<database, process, worker, resources, healthy>>

\* PoolTimeout.
AcquireFails(r) ==
  /\ call[r].stage = "acquiring"
  /\ ~connected
  /\ Reply(r, 500)
  /\ UNCHANGED <<database, process, worker, resources, healthy>>

\* A seeded mistake: an error while fetching is taken for a missing row.
ExecuteOrMiss(r) ==
  /\ call[r].stage = "executing"
  /\ db # "stalled"
  /\ call' = [call EXCEPT ![r].stage = "read",
                          ![r].row = IF db = "up" THEN Lookup(call[r].id) ELSE NoRow]
  /\ UNCHANGED <<database, process, worker, resources, healthy>>

\* The statement answers: cursor.execute and fetchone.
Execute(r) ==
  /\ call[r].stage = "executing"
  /\ db = "up"
  /\ call' = [call EXCEPT ![r].stage = "read", ![r].row = Lookup(call[r].id)]
  /\ UNCHANGED <<database, process, worker, resources, healthy>>

\* Leaving pool.connection commits and returns the connection, and db_item
\* answers.
Commit(r) ==
  /\ call[r].stage = "read"
  /\ db = "up"
  /\ Reply(r, IF call[r].row = NoRow THEN 404 ELSE 200)
  /\ UNCHANGED <<database, process, worker, resources, healthy>>

\* The statement or the commit raises.  The pool discards a connection that is
\* broken.
Fail(r) ==
  /\ call[r].stage \in {"executing", "read"}
  /\ trouble /\ db # "stalled"
  /\ Reply(r, 500)
  /\ connected' \in BOOLEAN
  /\ UNCHANGED <<database, process, worker, pool, proven, healthy>>

\* The pool's own threads replace it.
Reconnect ==
  /\ worker \in Serving
  /\ pool = "open" /\ ~connected
  /\ db = "up"
  /\ connected' = TRUE
  /\ UNCHANGED <<database, process, worker, pool, proven, call, healthy>>

-----------------------------------------------------------------------------
(* The worker's end.                                                        *)

\* A seeded mistake: the pool is closed by the signal, not at exit.
QuitClosing ==
  /\ worker = "quitting"
  /\ pool' = "closed" /\ connected' = FALSE
  /\ IF In(Running) = {} THEN worker' = "atexit" /\ call' = Cut(In({"queued"}))
     ELSE UNCHANGED <<worker, call>>
  /\ UNCHANGED <<database, process, proven, healthy>>

\* The interpreter joins the request thread before it runs what atexit has
\* registered.  Requests not taken up are lost with the socket.
Quit ==
  /\ worker = "quitting"
  /\ In(Running) = {}
  /\ worker' = "atexit"
  /\ call' = Cut(In({"queued"}))
  /\ UNCHANGED <<database, process, resources, healthy>>

\* close_pool; its RuntimeError is printed and changes nothing.
AtExit ==
  /\ worker = "atexit"
  /\ worker' = "done"
  /\ pool' = "closed" /\ connected' = FALSE
  /\ UNCHANGED <<database, process, proven, call, healthy>>

\* The process is gone, its connections with it; requests it had taken over are
\* cut, others wait in the arbiter's socket.
WorkerDies(lost) ==
  /\ worker' = "dead"
  /\ pool' = "none" /\ connected' = FALSE /\ proven' = FALSE
  /\ call' = Cut(In(Running) \cup lost)

Crash ==
  /\ worker \notin Finished
  /\ arbiter \notin Gone
  /\ crashes < MaxCrashes
  /\ crashes' = crashes + 1
  /\ \E lost \in SUBSET In({"queued"}) :
       (lost # {} => worker \in Serving) /\ WorkerDies(lost)
  /\ UNCHANGED <<database, env, arbiter, healthy>>

-----------------------------------------------------------------------------
(* The arbiter.                                                             *)

\* Not booted within --timeout.  A worker that serves sends its heartbeat from
\* another thread than the one that hangs.
BootTimeout ==
  /\ arbiter = "running"
  /\ worker = "probing" /\ db = "stalled"
  /\ WorkerDies({})
  /\ UNCHANGED <<database, process, healthy>>

\* A worker that has died is replaced.
Respawn ==
  /\ arbiter = "running"
  /\ worker = "dead"
  /\ worker' = "boot"
  /\ UNCHANGED <<database, process, resources, call, healthy>>

Term ==
  /\ arbiter = "running"
  /\ arbiter' = "stopping"
  /\ worker' = IF worker = "serving" THEN "quitting" ELSE worker
  /\ UNCHANGED <<database, env, crashes, resources, call, healthy>>

\* A seeded mistake: a worker is given the time its requests take.
KillIdle ==
  /\ arbiter = "stopping"
  /\ worker \notin Finished
  /\ In(Running) = {}
  /\ WorkerDies({})
  /\ UNCHANGED <<database, process, healthy>>

\* --graceful-timeout is over.
Kill ==
  /\ arbiter = "stopping"
  /\ worker \notin Finished
  /\ WorkerDies({})
  /\ UNCHANGED <<database, process, healthy>>

\* A worker that fails to boot halts the arbiter; one that was told to stop is
\* waited for.
Halt ==
  /\ \/ arbiter = "running" /\ worker = "failed"
     \/ arbiter = "stopping" /\ worker \in Finished
  /\ arbiter' = "exited"
  /\ call' = Cut(In(Unsettled))
  /\ UNCHANGED <<database, env, worker, crashes, resources, healthy>>

\* The container is killed.
Die ==
  /\ arbiter \notin Gone
  /\ arbiter' = "killed"
  /\ WorkerDies(In({"queued"}))
  /\ UNCHANGED <<database, env, crashes, healthy>>

\* healthcheck.main asks /health, which waits for the thread as every request
\* does; it gives up after two seconds.
CheckHealth ==
  /\ arbiter \notin Gone
  /\ healthy' \in (IF worker = "serving" /\ In(Running) = {} THEN BOOLEAN ELSE {FALSE})
  /\ UNCHANGED <<database, process, worker, resources, call>>

-----------------------------------------------------------------------------

BootStep ==
  ReadSettings \/ PoolOpens \/ PoolOpenFails \/ ProbeAnswers \/ ProbeFails \/ Abandon

RequestStep(r) ==
  Begin(r) \/ Acquire(r) \/ AcquireFails(r) \/ Execute(r) \/ Commit(r) \/ Fail(r)

ExitStep == Quit \/ AtExit

ArbiterStep == BootTimeout \/ Respawn \/ Kill \/ Halt

Next ==
  \/ BootStep \/ ExitStep \/ Reconnect
  \/ \E r \in Requests : Arrive(r) \/ RequestStep(r)
  \/ ArbiterStep \/ Term \/ Crash \/ Die
  \/ CheckHealth
  \/ DatabaseStep /\ UNCHANGED server

Spec == Init /\ [][Next]_vars

\* The worker and the arbiter go on with what they can.  That the database
\* answers, that a signal or a request comes, is not assumed.
FairSpec ==
  /\ Spec
  /\ WF_vars(BootStep) /\ WF_vars(ExitStep) /\ WF_vars(ArbiterStep)
  /\ \A r \in Requests : WF_vars(RequestStep(r))

-----------------------------------------------------------------------------
(* Properties.                                                              *)

\* The pool is never closed under a request, although a signal handler, a thread
\* and an exit function run in one process (server.py's atexit).
PoolOutlivesRequests ==
  In(Running) # {} => (worker \in Serving /\ pool = "open")

\* A worker that ends by itself, because it cannot start or because it is told
\* to stop, has closed its pool.
CleanWorkerExit ==
  worker \in {"failed", "done"} => (pool # "open" /\ ~connected)

\* Docker sees a healthy container only when this worker, not one before it,
\* has had a query answered.
HealthyMeansProven ==
  [][(healthy' /\ ~healthy) => (proven /\ pool = "open")]_vars

\* The server implements the service of ItemService, worker restarts included.
Service ==
  CASE arbiter \in Gone -> "ended"
    [] arbiter \notin Gone /\ worker \in Serving -> "open"
    [] OTHER -> "closed"

Mapped(c) ==
  [phase |-> IF c.stage \in Unsettled THEN "sent" ELSE c.stage,
   id |-> c.id, row |-> c.row, status |-> c.status]

Calls == [r \in Requests |-> Mapped(call[r])]

Items == INSTANCE ItemService WITH service <- Service, call <- Calls

ImplementsItemService == Items!Spec

\* A request waits for the thread, for a connection and for a worker that is
\* being replaced, but it is answered or cut in the end, unless the database
\* stalls again and again or for good.
SettlesUnlessStalled ==
  <>[](db # "stalled") =>
    \A r \in Requests : (call[r].stage = "queued") ~> (call[r].stage \in Settled)

\* SIGTERM ends the server, also with a query that hangs.
StopEnds == (arbiter = "stopping") ~> (arbiter \in Gone)

\* database.py's first line: "bounded startup, query, and shutdown behavior".
\* A request that a worker has taken up is over at some time, also if the
\* database never answers again.
QueriesAreBounded ==
  <>[](db = "stalled") =>
    \A r \in Requests : (call[r].stage \in Running) ~> (call[r].stage \in Settled)
===============================================================================
