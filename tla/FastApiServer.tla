----------------------------- MODULE FastApiServer -----------------------------
(***************************************************************************)
(* The FastAPI server (apps/python-fastapi/benchmark_api): one event loop  *)
(* in which the lifespan opens, proves and closes the asyncpg pool and     *)
(* each request for /db/{id} is a coroutine.  An action is what runs       *)
(* between two awaits.  Uvicorn, which starts and stops both, and asyncpg  *)
(* are external; so are the database, which may stall or go away and come  *)
(* back, and the writers of its table.  Time is not modelled: what has a   *)
(* timeout may end by it whenever it cannot go on.  command_timeout ends a *)
(* query only together with its cancellation, for which fetchrow and       *)
(* fetchval wait as long as it takes.                                      *)
(***************************************************************************)
EXTENDS ApiEnvironment

CONSTANT MaxSize  \* max_size of the pool

ASSUME PoolAssumption == MaxSize \in Nat \ {0}

VARIABLES
  env,       \* os.environ
  life,      \* where the lifespan coroutine is
  pool,      \* the asyncpg pool
  sessions,  \* its connections to the database, open or being opened
  proven,    \* history: SELECT 1 has answered 1
  host,      \* where Uvicorn is
  asked,     \* signals it has received
  call,      \* the requests
  healthy    \* the container health check's last verdict

lifespan == <<env, life, pool, sessions, proven>>
server == <<lifespan, host, asked, call, healthy>>
vars == <<database, server>>

\* "waiting" for a connection, "connecting" a new one, "busy" with the query,
\* "read": the connection is being reset.  A request that was cut meanwhile
\* holds its connection until its query is cancelled ("releasing") or the
\* connection reset ("resetting").
Using == {"connecting", "busy", "read"}
Dropped == {"releasing", "resetting"}
Holding == Using \cup Dropped
InFlight == {"sent", "waiting"} \cup Using
Settled == {"answered", "cut"}
Stages == {"new"} \cup InFlight \cup Dropped \cup Settled
Over == {"failed", "cancelled", "closed", "closeFailed"}
Gone == {"exited", "killed"}

In(stages) == {r \in Requests : call[r].stage \in stages}

Statuses == {0, 200, 400, 404, 500}

Call ==
  [stage : Stages, text : Texts \cup {<<>>}, id : Ids \cup {Invalid},
   row : Rows \cup {NoRow, Unread}, status : Statuses]

TypeOK ==
  /\ env \in Envs
  /\ DatabaseTypeOK
  /\ life \in {"begin", "connect", "probe", "ready", "abandon", "close"} \cup Over
  /\ pool \in {"none", "open", "closing", "closed", "terminated"}
  /\ sessions \in 0 .. MaxSize
  /\ proven \in BOOLEAN
  /\ host \in {"starting", "serving", "draining", "leaving", "stopping"} \cup Gone
  /\ asked \in 0 .. 2
  /\ call \in [Requests -> Call]
  /\ healthy \in BOOLEAN

Unanswered(stage) ==
  [stage |-> stage, text |-> <<>>, id |-> Invalid, row |-> Unread, status |-> 0]

Init ==
  /\ env \in Envs
  /\ DatabaseInit
  /\ life = "begin" /\ pool = "none" /\ sessions = 0 /\ proven = FALSE
  /\ host = "starting" /\ asked = 0
  /\ call = [r \in Requests |-> Unanswered("new")]
  /\ healthy = FALSE

-----------------------------------------------------------------------------
(* Closing the pool: close_pool, of the lifespan's end and of open_pool's   *)
(* failure.  asyncpg waits for the connections that requests still hold.    *)

\* pool.terminate: requests that were being cut have no connection any more.
Terminate ==
  /\ pool' = "terminated"
  /\ sessions' = 0
  /\ call' = [r \in Requests |->
                IF call[r].stage \in Dropped THEN Unanswered("cut") ELSE call[r]]

\* open_pool ignores the failure of close_pool and raises its own.
AfterClose(outcome) == IF life = "abandon" THEN "failed" ELSE outcome

PoolCloses ==
  /\ life \in {"abandon", "close"}
  /\ In(Holding) = {}
  /\ pool' = "closed" /\ sessions' = 0
  /\ life' = AfterClose("closed")
  /\ UNCHANGED <<database, env, proven, host, asked, call, healthy>>

\* A seeded mistake: pool.close() is awaited for as long as it takes.
PoolCloseErrs ==
  /\ life \in {"abandon", "close"}
  /\ trouble /\ In(Holding) = {}
  /\ life' = AfterClose("closeFailed")
  /\ Terminate
  /\ UNCHANGED <<database, env, proven, host, asked, healthy>>

\* wait_for has expired, or closing raised.
PoolCloseFails ==
  /\ life \in {"abandon", "close"}
  /\ In(Holding) # {} \/ trouble
  /\ life' = AfterClose("closeFailed")
  /\ Terminate
  /\ UNCHANGED <<database, env, proven, host, asked, healthy>>

-----------------------------------------------------------------------------
(* open_pool and the lifespan.                                              *)

ReadOptions ==
  /\ life = "begin"
  /\ life' = IF PoolOptions(env) THEN "connect" ELSE "failed"
  /\ UNCHANGED <<database, env, pool, sessions, proven, host, asked, call, healthy>>

\* create_pool opens min_size connections: one.
CreatePool ==
  /\ life = "connect"
  /\ db = "up"
  /\ life' = "probe" /\ pool' = "open" /\ sessions' = 1
  /\ UNCHANGED <<database, env, proven, host, asked, call, healthy>>

\* A seeded mistake: only a refusal ends the connection attempt.
CreatePoolRefused ==
  /\ life = "connect"
  /\ db = "down"
  /\ life' = "failed"
  /\ UNCHANGED <<database, env, pool, sessions, proven, host, asked, call, healthy>>

\* Refused, or not connected within its timeout.
CreatePoolFails ==
  /\ life = "connect"
  /\ db # "up"
  /\ life' = "failed"
  /\ UNCHANGED <<database, env, pool, sessions, proven, host, asked, call, healthy>>

\* The lifespan yields: the application is ready.
ProbeAnswers ==
  /\ life = "probe"
  /\ db = "up"
  /\ life' = "ready" /\ proven' = TRUE
  /\ UNCHANGED <<database, env, pool, sessions, host, asked, call, healthy>>

\* A seeded mistake: a query that failed is taken for a query that answered.
ProbeIgnored ==
  /\ life = "probe"
  /\ trouble /\ db # "stalled"
  /\ life' = "ready"
  /\ UNCHANGED <<database, env, pool, sessions, proven, host, asked, call, healthy>>

\* A seeded mistake: open_pool raises without closing the pool.
ProbeFailsOpen ==
  /\ life = "probe"
  /\ trouble /\ db # "stalled"
  /\ life' = "failed"
  /\ UNCHANGED <<database, env, pool, sessions, proven, host, asked, call, healthy>>

\* The connection is broken, or the query was cancelled after its timeout.
ProbeFails ==
  /\ life = "probe"
  /\ trouble /\ db # "stalled"
  /\ life' = "abandon" /\ pool' = "closing"
  /\ UNCHANGED <<database, env, sessions, proven, host, asked, call, healthy>>

\* The lifespan is cancelled while it awaits.  Uvicorn does not do this; other
\* hosts of the application may, and open_pool and close_pool provide for it.
\* Before create_pool has returned there is no pool to terminate.
CancelLifespan ==
  /\ life \in {"connect", "probe", "abandon", "close"}
  /\ host \notin Gone
  /\ life' = "cancelled"
  /\ IF life = "connect" THEN UNCHANGED <<pool, sessions, call>> ELSE Terminate
  /\ UNCHANGED <<database, env, proven, host, asked, healthy>>

-----------------------------------------------------------------------------
(* db_item, from one await to the next.                                     *)

Reply(r, status) ==
  call' = [call EXCEPT ![r].stage = "answered", ![r].status = status]

Arrive(r) ==
  /\ host = "serving"
  /\ call[r].stage = "new"
  /\ \E text \in Texts :
       call' = [call EXCEPT ![r].stage = "sent", ![r].text = text]
  /\ UNCHANGED <<database, lifespan, host, asked, healthy>>

\* An invalid id is refused before the pool is asked for a connection, for
\* which asyncpg queues without a timeout, unless it is being closed.  The text
\* is not needed any more.
Begin(r) ==
  /\ call[r].stage = "sent"
  /\ LET id == Parsed[call[r].text]
         parsed == [call[r] EXCEPT !.text = <<>>, !.id = id]
     IN  call' = [call EXCEPT ![r] =
           IF id = Invalid THEN [parsed EXCEPT !.stage = "answered", !.status = 400]
           ELSE IF pool = "open" THEN [parsed EXCEPT !.stage = "waiting"]
           ELSE [parsed EXCEPT !.stage = "answered", !.status = 500]]
  /\ UNCHANGED <<database, lifespan, host, asked, healthy>>

\* The pool has a connection that nobody holds.
Idle == sessions > Cardinality(In(Holding))

\* A seeded mistake: the pool has no max_size.
AcquireUnbounded(r) ==
  /\ call[r].stage = "waiting"
  /\ pool = "open"
  /\ \/ /\ Idle
        /\ call' = [call EXCEPT ![r].stage = "busy"]
        /\ UNCHANGED sessions
     \/ /\ ~Idle
        /\ call' = [call EXCEPT ![r].stage = "connecting"]
        /\ sessions' = sessions + 1
  /\ UNCHANGED <<database, env, life, pool, proven, host, asked, healthy>>

\* A connection that exists, or else one that is opened for the request.
Acquire(r) ==
  /\ call[r].stage = "waiting"
  /\ pool = "open"
  /\ Cardinality(In(Holding)) < MaxSize
  /\ \/ /\ Idle
        /\ call' = [call EXCEPT ![r].stage = "busy"]
        /\ UNCHANGED sessions
     \/ /\ ~Idle
        /\ call' = [call EXCEPT ![r].stage = "connecting"]
        /\ sessions' = sessions + 1
  /\ UNCHANGED <<database, env, life, pool, proven, host, asked, healthy>>

Connect(r) ==
  /\ call[r].stage = "connecting"
  /\ db = "up"
  /\ call' = [call EXCEPT ![r].stage = "busy"]
  /\ UNCHANGED <<database, lifespan, host, asked, healthy>>

\* A seeded mistake: a row that was read for another request is good enough.
FetchRemembered(r) ==
  /\ call[r].stage = "busy"
  /\ db = "up"
  /\ \E row \in {Lookup(call[r].id)} \cup
                {call[s].row : s \in {q \in In({"answered"}) : call[q].status = 200}} :
       call' = [call EXCEPT ![r].stage = "read", ![r].row = row]
  /\ UNCHANGED <<database, lifespan, host, asked, healthy>>

\* The database answers the query.
Fetch(r) ==
  /\ call[r].stage = "busy"
  /\ db = "up"
  /\ call' = [call EXCEPT ![r].stage = "read", ![r].row = Lookup(call[r].id)]
  /\ UNCHANGED <<database, lifespan, host, asked, healthy>>

\* The connection has been reset and released, and fetchrow returns.
Return(r) ==
  /\ call[r].stage = "read"
  /\ db = "up"
  /\ Reply(r, IF call[r].row = NoRow THEN 404 ELSE 200)
  /\ UNCHANGED <<database, lifespan, host, asked, healthy>>

\* A connection that never came up is gone, a broken one is dropped, and one
\* over which the database reported an error is kept.
SessionsLeft(stage) ==
  IF stage = "connecting" THEN {sessions - 1} ELSE {sessions - 1, sessions}

\* A seeded mistake: nothing has a timeout, so only a lost connection raises.
FailIfLost(r) ==
  /\ call[r].stage \in Using
  /\ db = "down"
  /\ Reply(r, 500)
  /\ sessions' \in SessionsLeft(call[r].stage)
  /\ UNCHANGED <<database, env, life, pool, proven, host, asked, healthy>>

\* Connecting, the query or the reset raises or times out.  A query that has
\* timed out is over when the database has dealt with its cancellation: the
\* release waits for that without a timeout.
Fail(r) ==
  /\ call[r].stage \in Using
  /\ trouble
  /\ call[r].stage = "busy" => db # "stalled"
  /\ Reply(r, 500)
  /\ sessions' \in SessionsLeft(call[r].stage)
  /\ UNCHANGED <<database, env, life, pool, proven, host, asked, healthy>>

\* asyncpg has cancelled the query of a request that was cut, however long that
\* took, or has reset its connection or given that up by the command timeout.
Release(r) ==
  /\ call[r].stage \in Dropped
  /\ call[r].stage = "releasing" => db # "stalled"
  /\ call' = [call EXCEPT ![r] = Unanswered("cut")]
  /\ sessions' \in (IF trouble THEN {sessions - 1, sessions} ELSE {sessions})
  /\ UNCHANGED <<database, env, life, pool, proven, host, asked, healthy>>

-----------------------------------------------------------------------------
(* Uvicorn.                                                                 *)

\* It binds after the lifespan's start-up, and leaves at once if a signal came
\* meanwhile.
Serve ==
  /\ host = "starting"
  /\ life = "ready"
  /\ host' = IF asked = 0 THEN "serving" ELSE "leaving"
  /\ UNCHANGED <<database, lifespan, asked, call, healthy>>

\* SIGTERM or SIGINT.  A SIGINT while it drains makes it leave at once.
Signal ==
  /\ host \in {"starting", "serving", "draining"}
  /\ asked < 2
  /\ asked' = asked + 1
  /\ host' \in CASE host = "starting" -> {"starting"}
                 [] host = "serving" -> {"draining"}
                 [] host = "draining" -> {"draining", "leaving"}
  /\ UNCHANGED <<database, lifespan, call, healthy>>

\* A request that is cancelled gets no answer from the application; what it
\* holds is released when asyncpg has dealt with it.
CutCalls ==
  [r \in Requests |->
     CASE call[r].stage \in {"sent", "waiting", "connecting"} -> Unanswered("cut")
       [] call[r].stage = "busy" -> Unanswered("releasing")
       [] call[r].stage = "read" -> Unanswered("resetting")
       [] OTHER -> call[r]]

\* A connection that was being opened for a request that is cut is given up.
SessionsCut == sessions - Cardinality(In({"connecting"}))

\* A seeded mistake: the pool is closed first, and the requests are waited for
\* then.
ShutdownPoolFirst ==
  /\ host \in {"draining", "leaving"}
  /\ pool' = "closing"
  /\ IF pool = "open"
       THEN UNCHANGED <<host, call, life, sessions>>
       ELSE host' = "stopping" /\ call' = CutCalls /\ life' = "close"
            /\ sessions' = SessionsCut
  /\ UNCHANGED <<database, env, proven, asked, healthy>>

\* No request is in flight any more, or the graceful timeout has cut those that
\* are; leaving, everything is cancelled together.  The lifespan goes on to its
\* finally.
Shutdown ==
  /\ host \in {"draining", "leaving"}
  /\ host' = "stopping"
  /\ call' = CutCalls
  /\ sessions' = SessionsCut
  /\ life' = "close" /\ pool' = "closing"
  /\ UNCHANGED <<database, env, proven, asked, healthy>>

Exit ==
  /\ host \in {"starting", "stopping"}
  /\ life \in Over
  /\ host' = "exited"
  /\ UNCHANGED <<database, lifespan, asked, call, healthy>>

\* SIGKILL, out of memory, or SIGTERM raised once more on the way out.
Die ==
  /\ host \notin Gone
  /\ host' = "killed"
  /\ pool' = "none" /\ sessions' = 0
  /\ call' = [r \in Requests |->
                IF call[r].stage \in InFlight \cup Dropped
                THEN Unanswered("cut") ELSE call[r]]
  /\ UNCHANGED <<database, env, life, proven, asked, healthy>>

-----------------------------------------------------------------------------
(* The container health check.                                              *)

\* check_health of healthcheck.py asks /health; it gives up after two seconds.
CheckHealth ==
  /\ host \notin Gone
  /\ healthy' \in (IF host = "serving" THEN BOOLEAN ELSE {FALSE})
  /\ UNCHANGED <<database, lifespan, host, asked, call>>

-----------------------------------------------------------------------------

LifespanStep ==
  /\ host \notin Gone
  /\ \/ ReadOptions \/ CreatePool \/ CreatePoolFails \/ ProbeAnswers \/ ProbeFails
     \/ PoolCloses \/ PoolCloseFails

RequestStep(r) ==
  /\ host \notin Gone
  /\ \/ Begin(r) \/ Acquire(r) \/ Connect(r) \/ Fetch(r) \/ Return(r) \/ Fail(r)
     \/ Release(r)

HostStep == Serve \/ Shutdown \/ Exit

Next ==
  \/ LifespanStep \/ CancelLifespan
  \/ \E r \in Requests : Arrive(r) \/ RequestStep(r)
  \/ HostStep \/ Signal \/ Die
  \/ CheckHealth
  \/ DatabaseStep /\ UNCHANGED server

Spec == Init /\ [][Next]_vars

\* The event loop runs what is ready, Uvicorn its own steps.  That the database
\* answers or comes back, that a signal or a request comes, is not assumed.
FairSpec ==
  /\ Spec
  /\ WF_vars(LifespanStep)
  /\ WF_vars(HostStep)
  /\ \A r \in Requests : WF_vars(RequestStep(r))

-----------------------------------------------------------------------------
(* Properties.                                                              *)

\* A request is refused exactly when its text denotes no BIGINT, however the
\* server and the database are: no limit on digits, no leading zero, no end of
\* the range makes a difference, and otherwise it goes on with the id that the
\* text denotes (parse_id and the order of db_item).
RefusedExactly ==
  [][\A r \in Requests :
       (call[r].stage = "sent" /\ call'[r].stage \in {"waiting", "answered"}) =>
         IF Meaning[call[r].text] = {}
         THEN call'[r].status = 400
         ELSE call'[r].status # 400 /\ call'[r].id \in Meaning[call[r].text]]_vars

\* A connection is held only while the pool is open, or, by a request that was
\* cut, while it closes; and those held are among the pool's, of which
\* there are never more than max_size (TypeOK).
HeldWithinPool ==
  /\ In(Using) # {} => pool = "open"
  /\ In(Dropped) # {} => pool = "closing"
  /\ Cardinality(In(Holding)) <= sessions

\* A server that has exited by itself, after a failed start as after a stop,
\* has no connection left in the database and nobody waiting for an answer
\* (open_pool's and close_pool's terminate).
NothingLeftBehind ==
  host = "exited" =>
    /\ sessions = 0 /\ pool \in {"none", "closed", "terminated"}
    /\ In(InFlight \cup Dropped) = {}

\* The application answers 500 only if the database has been away: neither a
\* pool that is exhausted nor a shutdown under load makes db_item fail.  (What
\* Uvicorn itself sends to a caller whose request it cuts is not the
\* application's answer; here such a request is "cut".)
ErrorsNeedTrouble ==
  \A r \in Requests : call[r].status = 500 => trouble

\* Docker sees a healthy container only when a query has been answered and the
\* pool it was answered through is open.
HealthyMeansProven ==
  [][(healthy' /\ ~healthy) => (proven /\ pool = "open")]_vars

\* The server implements the service of ItemService.
Service ==
  CASE host \in Gone -> "ended"
    [] host \notin Gone /\ life = "ready" -> "open"
    [] OTHER -> "closed"

Phase(stage) ==
  CASE stage \in InFlight -> "sent"
    [] stage \in Dropped -> "cut"
    [] OTHER -> stage

Mapped(c) ==
  [phase |-> Phase(c.stage),
   id |-> IF c.stage = "sent" THEN Parsed[c.text] ELSE c.id,
   row |-> c.row, status |-> c.status]

Calls == [r \in Requests |-> Mapped(call[r])]

Items == INSTANCE ItemService WITH service <- Service, call <- Calls

ImplementsItemService == Items!Spec

\* A query waits for a database that does not answer, or for it to deal with the
\* cancellation after command_timeout: nothing in the code ends this wait.
QueryStalls == db = "stalled" /\ In({"busy"}) # {}

\* A request waits for a connection without a timeout, but it is answered or cut
\* in the end also if the database never comes back, unless queries stall again
\* and again or for good: connecting to a database that does not answer, and the
\* reset of a connection, have their timeouts (timeout and command_timeout).
RequestsSettle ==
  <>[]~QueryStalls =>
    \A r \in Requests : (call[r].stage = "sent") ~> (call[r].stage \in Settled)

\* The same wait, in the start-up query of open_pool; Uvicorn sets no timeout on
\* the start-up either.
StartStalls == life = "probe" /\ db = "stalled"

\* Start-up comes to an end, with a database that refuses or never accepts a
\* connection as well, unless it stalls under the start-up query.
StartSettles == <>[]~StartStalls => <>(host # "starting")

\* A server that is asked to stop does stop: once the start-up is over, whatever
\* the database does to its requests and to the closing of its pool; during the
\* start-up unless its query stalls, since Uvicorn looks for the signal only when
\* the start-up is over.
StopEnds ==
  /\ (asked > 0 /\ host # "starting") ~> (host \in Gone)
  /\ <>[]~StartStalls => ((asked > 0) ~> (host \in Gone))
===============================================================================
