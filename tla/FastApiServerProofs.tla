-------------------------- MODULE FastApiServerProofs --------------------------
(***************************************************************************)
(* Theorems about FastApiServer, for every number of requests, every size  *)
(* of the pool and every table: what holds while a pool is opened, used    *)
(* and closed in one event loop, and that the server implements            *)
(* ItemService.                                                            *)
(***************************************************************************)
EXTENDS FastApiServer, ApiInputsProofs, FiniteSetTheorems, TLAPS

\* Where the pool is, by where the lifespan is.
PoolInv ==
  host \notin Gone =>
    /\ life \in {"begin", "connect"} => (pool = "none" /\ sessions = 0)
    /\ life \in {"probe", "ready"} => pool = "open"
    /\ life = "ready" => proven
    /\ life \in {"abandon", "close"} => pool = "closing"
    /\ life \in Over => (sessions = 0 /\ pool \in {"none", "closed", "terminated"})

\* Where the lifespan and the requests are, by where Uvicorn is.
HostInv ==
  /\ host = "starting" => \A r \in Requests : call[r].stage = "new"
  /\ host \in {"serving", "draining", "leaving"} =>
       (life = "ready" /\ In(Dropped) = {})
  /\ host = "stopping" =>
       /\ life \in {"close"} \cup Over
       /\ In(InFlight) = {}
       /\ life \in Over => In(Dropped) = {}
  /\ host \in Gone => In(InFlight \cup Dropped) = {}
  /\ host = "exited" =>
       (life \in Over /\ sessions = 0 /\ pool \in {"none", "closed", "terminated"})
  /\ host = "killed" => sessions = 0

\* What a request carries, by how far it has come.
CallInv ==
  \A r \in Requests :
    /\ call[r].stage = "new" => (call[r].row = Unread /\ call[r].status = 0)
    /\ call[r].stage = "sent" =>
         (call[r].text \in Texts /\ call[r].row = Unread /\ call[r].status = 0)
    /\ call[r].stage \in {"waiting"} \cup Using =>
         (call[r].id # Invalid /\ call[r].status = 0)
    /\ call[r].stage \in {"waiting", "connecting", "busy"} => call[r].row = Unread
    /\ call[r].stage = "read" => call[r].row # Unread
    /\ call[r].stage \in Dropped => call[r] = Unanswered(call[r].stage)

Held == Cardinality(In(Holding)) <= sessions

ServerInv == TypeOK /\ PoolInv /\ HostInv /\ CallInv /\ Held /\ ErrorsNeedTrouble

\* The groups of stages are always seen through.
USE DEF Using, Dropped

-----------------------------------------------------------------------------

\* The connections held can be counted, and one request more or less changes
\* the count by one.
LEMMA HeldIsFinite ==
  IsFiniteSet(In(Holding)) /\ Cardinality(In(Holding)) \in Nat
  <1>1. In(Holding) \in SUBSET Requests
    BY DEF In
  <1> QED
    BY <1>1, EnvironmentAssumption, FS_Subset, FS_CardinalityType

LEMMA HeldNone ==
  ASSUME In(Holding) = {}
  PROVE  Cardinality(In(Holding)) = 0
  BY FS_EmptySet

LEMMA InitInv == Init => ServerInv
  <1> SUFFICES ASSUME Init PROVE ServerInv
    OBVIOUS
  <1>1. In(Holding) = {}
    BY DEF Init, In, Holding, Unanswered
  <1>2. DatabaseTypeOK
    BY DEF Init, DatabaseInit, DatabaseTypeOK
  <1>3. Unanswered("new") \in Call
    BY DEF Unanswered, Call, Statuses, Stages
  <1>4. TypeOK
    <2>1. sessions \in 0 .. MaxSize
      BY PoolAssumption DEF Init
    <2>2. call \in [Requests -> Call]
      BY <1>3 DEF Init
    <2>3. env \in Envs
      BY DEF Init
    <2>4. proven \in BOOLEAN /\ healthy \in BOOLEAN
      BY DEF Init
    <2>5. asked \in 0 .. 2
      BY DEF Init
    <2> QED
      BY <1>2, <2>1, <2>2, <2>3, <2>4, <2>5 DEF Init, TypeOK
  <1>5. PoolInv /\ HostInv /\ CallInv /\ ErrorsNeedTrouble
    BY DEF Init, PoolInv, HostInv, CallInv, ErrorsNeedTrouble, Unanswered, Gone, Over
  <1>6. Held
    BY <1>1, HeldNone DEF Init, Held
  <1> QED
    BY <1>4, <1>5, <1>6 DEF ServerInv

LEMMA DatabaseKept ==
  ASSUME DatabaseTypeOK, UNCHANGED database
  PROVE  DatabaseTypeOK' /\ trouble' = trouble
  BY DEF DatabaseTypeOK, database

\* Steps that leave the requests alone keep what is said of them.
LEMMA CallsKept ==
  ASSUME ServerInv, UNCHANGED call, sessions' = sessions, trouble => trouble'
  PROVE  CallInv' /\ Held' /\ ErrorsNeedTrouble'
  BY DEF ServerInv, CallInv, Held, ErrorsNeedTrouble, In, Unanswered

LEMMA DatabaseStepKeepsInv ==
  ASSUME ServerInv, DatabaseStep, UNCHANGED server
  PROVE  ServerInv'
  <1> USE DEF ServerInv
  <1>1. DatabaseTypeOK' /\ (trouble => trouble')
    BY DEF DatabaseStep, Turn, Change, TypeOK, DatabaseTypeOK, Tables
  <1>2. TypeOK'
    BY <1>1 DEF TypeOK, server, lifespan
  <1>3. PoolInv' /\ HostInv'
    BY DEF PoolInv, HostInv, server, lifespan, In
  <1>4. CallInv' /\ Held' /\ ErrorsNeedTrouble'
    BY <1>1, CallsKept DEF server, lifespan
  <1> QED
    BY <1>2, <1>3, <1>4

LEMMA OpeningKeepsInv ==
  ASSUME ServerInv, host \notin Gone,
         \/ ReadOptions \/ CreatePool \/ CreatePoolFails \/ ProbeAnswers \/ ProbeFails
  PROVE  ServerInv'
  <1> USE DEF ServerInv
  <1>1. UNCHANGED <<database, env, host, asked, call, healthy>> /\ host = "starting"
    BY DEF ReadOptions, CreatePool, CreatePoolFails, ProbeAnswers, ProbeFails, TypeOK,
      HostInv, Gone, Over
  <1>2. In(Holding) = {}
    BY <1>1 DEF HostInv, In, Holding
  <1>3. TypeOK'
    <2>1. sessions' \in 0 .. MaxSize
      BY PoolAssumption
      DEF ReadOptions, CreatePool, CreatePoolFails, ProbeAnswers, ProbeFails, TypeOK
    <2>2. /\ life' \in {"connect", "probe", "ready", "abandon", "failed"}
          /\ pool' \in {"none", "open", "closing", "closed", "terminated"}
          /\ proven' \in BOOLEAN
      BY DEF ReadOptions, CreatePool, CreatePoolFails, ProbeAnswers, ProbeFails, TypeOK
    <2>3. DatabaseTypeOK'
      BY <1>1, DatabaseKept DEF TypeOK
    <2> QED
      BY <1>1, <2>1, <2>2, <2>3 DEF TypeOK, Over
  <1>4. PoolInv'
    BY <1>1
    DEF ReadOptions, CreatePool, CreatePoolFails, ProbeAnswers, ProbeFails, PoolInv, Over,
      Gone
  <1>5. HostInv'
    BY <1>1 DEF HostInv, Gone
  <1>6. Held'
    BY <1>1, <1>2, <1>3, HeldNone DEF Held, In, TypeOK
  <1>7. CallInv' /\ ErrorsNeedTrouble'
    BY <1>1, DatabaseKept DEF TypeOK, CallInv, ErrorsNeedTrouble, Unanswered
  <1> QED
    BY <1>3, <1>4, <1>5, <1>6, <1>7

\* However the pool is closed, nobody holds a connection after it.
LEMMA TerminateKeepsCalls ==
  ASSUME ServerInv, Terminate, UNCHANGED <<database, host>>,
         host \notin Gone, life \in {"probe", "abandon", "close"}
  PROVE  /\ call' \in [Requests -> Call]
         /\ CallInv' /\ Held' /\ ErrorsNeedTrouble'
         /\ In(InFlight)' = {} /\ In(Dropped)' = {}
         /\ host = "starting" => UNCHANGED call
  <1> USE DEF ServerInv
  <1>1. Unanswered("cut") \in Call
    BY DEF Unanswered, Call, Statuses, Stages, Settled
  <1>2. call' \in [Requests -> Call]
    BY <1>1 DEF Terminate, TypeOK
  <1>3. host \in {"starting", "stopping"}
    BY DEF TypeOK, HostInv
  <1>4. In(InFlight) = {}
    BY <1>3 DEF HostInv, In, InFlight
  <1>5. In(InFlight)' = {} /\ In(Dropped)' = {}
    BY <1>4 DEF Terminate, In, Unanswered, InFlight, TypeOK
  <1>6. In(Holding)' = {}
    BY <1>5 DEF In, Holding, InFlight
  <1>7. Held'
    BY <1>6, FS_EmptySet DEF Held, Terminate
  <1>8. CallInv'
    BY DEF CallInv, Terminate, Unanswered, TypeOK
  <1>9. ErrorsNeedTrouble'
    BY DatabaseKept DEF ErrorsNeedTrouble, Terminate, Unanswered, TypeOK
  <1>10. host = "starting" => UNCHANGED call
    BY DEF HostInv, Terminate, TypeOK
  <1> QED
    BY <1>2, <1>5, <1>7, <1>8, <1>9, <1>10

LEMMA ClosingKeepsInv ==
  ASSUME ServerInv, host \notin Gone, PoolCloses \/ PoolCloseFails \/ CancelLifespan
  PROVE  ServerInv'
  <1> USE DEF ServerInv
  <1>1. /\ UNCHANGED <<database, env, proven, host, asked, healthy>>
        /\ life \in {"connect", "probe", "abandon", "close"}
        /\ life' \in Over
    BY DEF PoolCloses, PoolCloseFails, CancelLifespan, AfterClose, Over
  <1>2. /\ sessions' = 0 /\ pool' \in {"none", "closed", "terminated"}
        /\ life # "connect" => pool' # "none"
    BY DEF PoolCloses, PoolCloseFails, CancelLifespan, Terminate, PoolInv
  <1>3. /\ call' \in [Requests -> Call]
        /\ CallInv' /\ Held' /\ ErrorsNeedTrouble'
        /\ host = "starting" => UNCHANGED call
        /\ host = "stopping" => (In(InFlight)' = {} /\ In(Dropped)' = {})
    <2>1. CASE Terminate /\ life \in {"probe", "abandon", "close"}
      BY <1>1, <2>1, TerminateKeepsCalls
    <2>2. CASE UNCHANGED call /\ In(Holding) = {}
      <3>1. CallInv' /\ ErrorsNeedTrouble'
        BY <1>1, <2>2, DatabaseKept DEF TypeOK, CallInv, ErrorsNeedTrouble, Unanswered
      <3>2. Held'
        BY <1>2, <2>2, HeldNone DEF Held, In
      <3> QED
        BY <1>2, <2>2, <3>1, <3>2 DEF TypeOK, HostInv, In, Holding
    <2>3. CASE life = "connect" /\ UNCHANGED <<sessions, call>>
      <3>1. host = "starting"
        BY <2>3 DEF TypeOK, HostInv, Over
      <3> QED
        BY <1>1, <2>2, <2>3, <3>1 DEF HostInv, In, Holding
    <2> QED
      BY <1>1, <2>1, <2>2, <2>3 DEF PoolCloses, PoolCloseFails, CancelLifespan
  <1>4. TypeOK'
    <2>1. sessions' \in 0 .. MaxSize
      BY <1>2, PoolAssumption
    <2>2. DatabaseTypeOK'
      BY <1>1, DatabaseKept DEF TypeOK
    <2> QED
      BY <1>1, <1>2, <1>3, <2>1, <2>2 DEF TypeOK
  <1>5. PoolInv'
    BY <1>1, <1>2 DEF PoolInv, Over
  <1>6. HostInv'
    <2>1. host \in {"starting", "stopping"}
      BY <1>1 DEF TypeOK, HostInv
    <2> QED
      BY <1>1, <1>2, <1>3, <2>1 DEF HostInv, Gone
  <1> QED
    BY <1>3, <1>4, <1>5, <1>6

\* What every step of a request leaves alone.
LEMMA RequestSteps ==
  ASSUME ServerInv, NEW r \in Requests, host \notin Gone, Arrive(r) \/ RequestStep(r)
  PROVE  /\ UNCHANGED <<database, env, life, pool, proven, host, asked, healthy>>
         /\ \A q \in Requests \ {r} : call'[q] = call[q]
         /\ ~Release(r) => (life = "ready" /\ pool = "open"
                            /\ host \in {"serving", "draining", "leaving"})
         /\ Release(r) => host = "stopping"
  <1> USE DEF ServerInv
  <1>1. UNCHANGED <<database, env, life, pool, proven, host, asked, healthy>>
    BY DEF Arrive, RequestStep, Begin, Acquire, Connect, Fetch, Return, Fail,
      Release, lifespan
  <1>2. \A q \in Requests \ {r} : call'[q] = call[q]
    BY DEF Arrive, RequestStep, Begin, Acquire, Connect, Fetch, Return, Fail,
      Release, Reply, TypeOK
  <1>3. ASSUME call[r].stage \in InFlight
        PROVE  host \in {"serving", "draining", "leaving"}
    BY <1>3 DEF TypeOK, HostInv, In, InFlight, Gone
  <1>4. ASSUME call[r].stage \in Dropped
        PROVE  host = "stopping"
    BY <1>4 DEF TypeOK, HostInv, In, Gone
  <1>5. ~Release(r) => host \in {"serving", "draining", "leaving"}
    BY <1>3 DEF Arrive, RequestStep, Begin, Acquire, Connect, Fetch, Return, Fail,
      InFlight
  <1>6. ~Release(r) => (life = "ready" /\ pool = "open")
    BY <1>5 DEF HostInv, PoolInv
  <1> QED
    BY <1>1, <1>2, <1>4, <1>5, <1>6 DEF Release

\* What the database holds is a row, or none, but always something.
LEMMA LookupIsRead ==
  ASSUME DatabaseTypeOK, NEW id
  PROVE  Lookup(id) \in Rows \cup {NoRow} /\ Lookup(id) # Unread
  BY EnvironmentAssumption DEF Lookup, DatabaseTypeOK, Tables

LEMMA ParsedIsId ==
  ASSUME NEW text \in Texts
  PROVE  Parsed[text] \in Ids
  BY DEF Ids

\* Records of requests stay such records when fields are given values.
LEMMA StageAndText ==
  ASSUME NEW c \in Call, NEW s \in Stages, NEW x \in Texts \cup {<<>>}
  PROVE  [c EXCEPT !.stage = s, !.text = x] \in Call
  <1> DEFINE d == [c EXCEPT !.stage = s]
  <1>1. d \in Call
    BY DEF Call
  <1>2. [c EXCEPT !.stage = s, !.text = x] = [d EXCEPT !.text = x]
    OBVIOUS
  <1> HIDE DEF d
  <1>3. [d EXCEPT !.text = x] \in Call
    BY <1>1 DEF Call
  <1> QED
    BY <1>2, <1>3

LEMMA StageAndRow ==
  ASSUME NEW c \in Call, NEW s \in Stages, NEW x \in Rows \cup {NoRow, Unread}
  PROVE  [c EXCEPT !.stage = s, !.row = x] \in Call
  <1> DEFINE d == [c EXCEPT !.stage = s]
  <1>1. d \in Call
    BY DEF Call
  <1>2. [c EXCEPT !.stage = s, !.row = x] = [d EXCEPT !.row = x]
    OBVIOUS
  <1> HIDE DEF d
  <1>3. [d EXCEPT !.row = x] \in Call
    BY <1>1 DEF Call
  <1> QED
    BY <1>2, <1>3

LEMMA StageAndStatus ==
  ASSUME NEW c \in Call, NEW s \in Stages, NEW x \in Statuses
  PROVE  [c EXCEPT !.stage = s, !.status = x] \in Call
  <1> DEFINE d == [c EXCEPT !.stage = s]
  <1>1. d \in Call
    BY DEF Call
  <1>2. [c EXCEPT !.stage = s, !.status = x] = [d EXCEPT !.status = x]
    OBVIOUS
  <1> HIDE DEF d
  <1>3. [d EXCEPT !.status = x] \in Call
    BY <1>1 DEF Call
  <1> QED
    BY <1>2, <1>3

LEMMA TextAndId ==
  ASSUME NEW c \in Call, NEW n \in Ids \cup {Invalid}
  PROVE  [c EXCEPT !.text = <<>>, !.id = n] \in Call
  <1> DEFINE d == [c EXCEPT !.text = <<>>]
  <1>1. d \in Call
    BY DEF Call
  <1>2. [c EXCEPT !.text = <<>>, !.id = n] = [d EXCEPT !.id = n]
    OBVIOUS
  <1> HIDE DEF d
  <1>3. [d EXCEPT !.id = n] \in Call
    BY <1>1 DEF Call
  <1> QED
    BY <1>2, <1>3

LEMMA ReplyRecord ==
  ASSUME call \in [Requests -> Call], NEW r \in Requests,
         NEW status \in Statuses, Reply(r, status)
  PROVE  /\ call' \in [Requests -> Call]
         /\ call'[r].stage = "answered" /\ call'[r].status = status
         /\ call'[r].id = call[r].id /\ call'[r].row = call[r].row
  <1> DEFINE c == [call[r] EXCEPT !.stage = "answered", !.status = status]
  <1>0. call' = [call EXCEPT ![r].stage = "answered", ![r].status = status]
    BY DEF Reply
  <1>1. call' = [call EXCEPT ![r] = c]
    BY <1>0
  <1>2. call[r] \in Call /\ "answered" \in Stages /\ status \in Statuses
    BY DEF Stages, Settled, Statuses
  <1>3. c \in Call
    BY <1>2, StageAndStatus
  <1>4. /\ c.stage = "answered" /\ c.status = status
        /\ c.id = call[r].id /\ c.row = call[r].row
    BY <1>2 DEF Call
  <1> HIDE DEF c
  <1> QED
    BY <1>1, <1>3, <1>4

\* What the request's own record becomes.
LEMMA RequestRecord ==
  ASSUME ServerInv, NEW r \in Requests, host \notin Gone, Arrive(r) \/ RequestStep(r)
  PROVE  /\ call' \in [Requests -> Call]
         /\ \/ /\ call[r].stage = "new" /\ call'[r].stage = "sent"
               /\ call'[r].text \in Texts
               /\ call'[r].row = Unread /\ call'[r].status = 0
            \/ /\ call[r].stage = "sent" /\ call'[r].stage = "waiting"
               /\ call'[r].id = Parsed[call[r].text] /\ call'[r].id # Invalid
               /\ call'[r].row = Unread /\ call'[r].status = 0
            \/ /\ call[r].stage = "sent" /\ call'[r].stage = "answered"
               /\ Parsed[call[r].text] = Invalid /\ call'[r].id = Invalid
               /\ call'[r].row = Unread /\ call'[r].status = 400
            \/ /\ call[r].stage = "waiting"
               /\ call'[r].stage \in {"connecting", "busy"}
               /\ call'[r].id = call[r].id
               /\ call'[r].row = Unread /\ call'[r].status = 0
            \/ /\ call[r].stage = "connecting" /\ call'[r].stage = "busy"
               /\ call'[r].id = call[r].id
               /\ call'[r].row = Unread /\ call'[r].status = 0
            \/ /\ call[r].stage = "busy" /\ call'[r].stage = "read"
               /\ call'[r].id = call[r].id /\ call'[r].status = 0
               /\ db = "up" /\ call[r].row = Unread
               /\ call'[r].row = Lookup(call[r].id) /\ call'[r].row # Unread
            \/ /\ call[r].stage = "read" /\ call'[r].stage = "answered"
               /\ call'[r].id = call[r].id /\ call'[r].row = call[r].row
               /\ call'[r].status = IF call[r].row = NoRow THEN 404 ELSE 200
            \/ /\ call[r].stage \in Using /\ call'[r].stage = "answered"
               /\ call'[r].id = call[r].id /\ call'[r].row = call[r].row
               /\ trouble /\ call'[r].status = 500
            \/ call[r].stage \in Dropped /\ call'[r] = Unanswered("cut")
  <1> USE DEF ServerInv
  <1>0. call \in [Requests -> Call] /\ call[r] \in Call
    BY DEF TypeOK
  <1>1. CASE Arrive(r)
    <2>1. PICK text \in Texts : call' = [call EXCEPT ![r].stage = "sent", ![r].text = text]
      BY <1>1 DEF Arrive
    <2> DEFINE c == [call[r] EXCEPT !.stage = "sent", !.text = text]
    <2>2. call' = [call EXCEPT ![r] = c]
      BY <2>1
    <2>3. c \in Call
      BY <1>0, StageAndText DEF Stages, InFlight
    <2>4. /\ c.stage = "sent" /\ c.text = text
          /\ c.row = call[r].row /\ c.status = call[r].status
      BY <1>0 DEF Call
    <2>5. call[r].stage = "new" /\ call[r].row = Unread /\ call[r].status = 0
      BY <1>1 DEF Arrive, CallInv
    <2> HIDE DEF c
    <2> QED
      BY <1>0, <2>2, <2>3, <2>4, <2>5
  <1>2. CASE Begin(r)
    <2> DEFINE id == Parsed[call[r].text]
               d == [call[r] EXCEPT !.text = <<>>, !.id = id]
    <2>1. /\ call[r].text \in Texts /\ call[r].row = Unread /\ call[r].status = 0
          /\ call[r].stage = "sent"
      BY <1>2 DEF Begin, CallInv
    <2>2. d \in Call
      BY <1>0, <2>1, ParsedIsId, TextAndId
    <2>3. d.id = id /\ d.row = Unread /\ d.status = 0
      BY <1>0, <2>1 DEF Call
    <2>4. pool = "open"
      BY <1>2, RequestSteps DEF RequestStep, Begin, Release
    <2>5. call' = [call EXCEPT ![r] =
                     IF id = Invalid
                     THEN [d EXCEPT !.stage = "answered", !.status = 400]
                     ELSE [d EXCEPT !.stage = "waiting"]]
      BY <1>2, <2>4 DEF Begin
    <2> HIDE DEF d
    <2>6. CASE id = Invalid
      <3> DEFINE c == [d EXCEPT !.stage = "answered", !.status = 400]
      <3>1. c \in Call
        <4>1. "answered" \in Stages /\ 400 \in Statuses
          BY DEF Stages, Settled, Statuses
        <4> QED
          BY <2>2, <4>1, StageAndStatus
      <3>2. /\ c.stage = "answered" /\ c.status = 400 /\ c.id = id /\ c.row = Unread
        BY <2>2, <2>3 DEF Call
      <3> HIDE DEF c
      <3>3. call' = [call EXCEPT ![r] = c]
        BY <2>5, <2>6 DEF c
      <3> QED
        BY <1>0, <2>1, <2>6, <3>1, <3>2, <3>3
    <2>7. CASE id # Invalid
      <3> DEFINE c == [d EXCEPT !.stage = "waiting"]
      <3>1. c \in Call
        BY <2>2 DEF Call, Stages, InFlight
      <3>2. /\ c.stage = "waiting" /\ c.status = 0 /\ c.id = id /\ c.row = Unread
        BY <2>2, <2>3 DEF Call
      <3> HIDE DEF c
      <3>3. call' = [call EXCEPT ![r] = c]
        BY <2>5, <2>7 DEF c
      <3> QED
        BY <1>0, <2>1, <2>7, <3>1, <3>2, <3>3
    <2> QED
      BY <2>6, <2>7
  <1>3. CASE Acquire(r)
    <2>1. PICK stage \in {"connecting", "busy"} :
            call' = [call EXCEPT ![r].stage = stage]
      BY <1>3 DEF Acquire
    <2>2. call'[r] = [call[r] EXCEPT !.stage = stage]
      BY <1>0, <2>1
    <2>3. call'[r] \in Call /\ call' = [call EXCEPT ![r] = call'[r]]
      BY <1>0, <2>1, <2>2 DEF Call, Stages, InFlight
    <2>4. call[r].stage = "waiting"
      BY <1>3 DEF Acquire
    <2> QED
      BY <1>0, <2>2, <2>3, <2>4 DEF CallInv, Call
  <1>4. CASE Fetch(r)
    <2> DEFINE c == [call[r] EXCEPT !.stage = "read", !.row = Lookup(call[r].id)]
    <2>1. call' = [call EXCEPT ![r] = c]
      BY <1>4 DEF Fetch
    <2>2. Lookup(call[r].id) \in Rows \cup {NoRow} /\ Lookup(call[r].id) # Unread
      BY LookupIsRead DEF TypeOK
    <2>3. c \in Call
      BY <1>0, <2>2, StageAndRow DEF Stages, InFlight
    <2>4. /\ c.stage = "read" /\ c.row = Lookup(call[r].id)
          /\ c.id = call[r].id /\ c.status = call[r].status
      BY <1>0 DEF Call
    <2>5. /\ call[r].stage = "busy" /\ call[r].row = Unread /\ call[r].status = 0
          /\ db = "up"
      BY <1>4 DEF Fetch, CallInv
    <2> HIDE DEF c
    <2> QED
      BY <1>0, <2>1, <2>2, <2>3, <2>4, <2>5
  <1>5. CASE Return(r)
    BY <1>0, <1>5, ReplyRecord DEF Return, Statuses
  <1>6. CASE Fail(r)
    BY <1>0, <1>6, ReplyRecord DEF Fail, Statuses
  <1>7. CASE Release(r)
    <2>1. Unanswered("cut") \in Call
      BY DEF Unanswered, Call, Statuses, Stages, Settled
    <2> QED
      BY <1>0, <1>7, <2>1 DEF Release
  <1>8. CASE Connect(r)
    <2>1. call'[r] = [call[r] EXCEPT !.stage = "busy"]
      BY <1>0, <1>8 DEF Connect
    <2>2. call'[r] \in Call /\ call' = [call EXCEPT ![r] = call'[r]]
      BY <1>0, <1>8, <2>1 DEF Connect, Call, Stages, InFlight
    <2>3. call[r].stage = "connecting"
      BY <1>8 DEF Connect
    <2> QED
      BY <1>0, <2>1, <2>2, <2>3 DEF CallInv, Call
  <1> QED
    BY <1>1, <1>2, <1>3, <1>4, <1>5, <1>6, <1>7, <1>8 DEF RequestStep

LEMMA RequestsKeepCalls ==
  ASSUME ServerInv, NEW r \in Requests, host \notin Gone, Arrive(r) \/ RequestStep(r)
  PROVE  CallInv' /\ ErrorsNeedTrouble'
  <1> USE DEF ServerInv
  <1>1. trouble' = trouble /\ call \in [Requests -> Call]
    BY RequestSteps DEF database, TypeOK
  <1>2. ASSUME NEW q \in Requests \ {r}
        PROVE  /\ CallInv => call'[q] = call[q]
               /\ call'[q].status = 500 => trouble'
    BY <1>1, <1>2, RequestSteps DEF ErrorsNeedTrouble
  <1>3. call'[r].status = 500 => trouble'
    BY <1>1, RequestRecord DEF Unanswered
  <1>4. ErrorsNeedTrouble'
    BY <1>2, <1>3 DEF ErrorsNeedTrouble
  <1>5. /\ call'[r].stage # "new"
        /\ call'[r].stage = "sent" =>
             (call'[r].text \in Texts /\ call'[r].row = Unread /\ call'[r].status = 0)
        /\ call'[r].stage \in {"waiting"} \cup Using =>
             (call'[r].id # Invalid /\ call'[r].status = 0)
        /\ call'[r].stage \in {"waiting", "connecting", "busy"} => call'[r].row = Unread
        /\ call'[r].stage = "read" => call'[r].row # Unread
        /\ call'[r].stage \notin Dropped
    <2>1. call[r].stage \in {"waiting"} \cup Using => call[r].id # Invalid
      BY DEF CallInv
    <2>2. /\ Unanswered("cut").stage = "cut"
          /\ Unread \notin Rows \cup {NoRow}
      BY EnvironmentAssumption DEF Unanswered
    <2> QED
      BY <2>1, <2>2, RequestRecord
  <1>6. CallInv'
    BY <1>2, <1>5 DEF CallInv, Unanswered
  <1> QED
    BY <1>4, <1>6

LEMMA RequestsKeepHeld ==
  ASSUME ServerInv, NEW r \in Requests, host \notin Gone, Arrive(r) \/ RequestStep(r)
  PROVE  sessions' \in 0 .. MaxSize /\ Held'
  <1> USE DEF ServerInv
  <1> DEFINE Card == Cardinality(In(Holding))
  <1>0. /\ IsFiniteSet(In(Holding)) /\ Card \in Nat
        /\ MaxSize \in Nat /\ sessions \in 0 .. MaxSize /\ Card <= sessions
    BY HeldIsFinite, PoolAssumption DEF TypeOK, Held
  <1>1. CASE Acquire(r)
    <2>1. In(Holding)' = In(Holding) \cup {r} /\ r \notin In(Holding)
      BY <1>1 DEF Acquire, In, Holding, TypeOK, Call
    <2>2. Cardinality(In(Holding)') = Card + 1
      BY <1>0, <2>1, FS_AddElement
    <2>3. Card < MaxSize /\ (IF Card < sessions THEN sessions' = sessions
                             ELSE sessions' = sessions + 1)
      BY <1>0, <1>1 DEF Acquire, Idle
    <2> QED
      BY <1>0, <2>2, <2>3 DEF Held
  <1>2. CASE Fail(r) \/ Return(r) \/ Release(r)
    <2>1. In(Holding)' = In(Holding) \ {r} /\ r \in In(Holding)
      BY <1>2 DEF Fail, Return, Release, Reply, In, Holding, TypeOK, Call, Unanswered
    <2>2. Cardinality(In(Holding)') = Card - 1
      BY <1>0, <2>1, FS_RemoveElement
    <2>3. sessions' \in {sessions - 1, sessions} /\ Card - 1 \in Nat
      BY <1>0, <1>2, <2>1, <2>2, FS_RemoveElement, FS_CardinalityType
      DEF Fail, Return, Release, SessionsLeft, lifespan
    <2> QED
      BY <1>0, <2>2, <2>3 DEF Held
  <1>3. CASE Arrive(r) \/ Begin(r) \/ Connect(r) \/ Fetch(r)
    <2>1. call'[r].stage \in Holding <=> call[r].stage \in Holding
      <3>1. CASE Arrive(r) \/ Begin(r)
        BY <3>1, RequestRecord DEF Arrive, Begin, RequestStep, Holding
      <3>2. CASE Fetch(r)
        <4>1. call'[r] = [call[r] EXCEPT !.stage = "read", !.row = Lookup(call[r].id)]
          BY <3>2 DEF Fetch, TypeOK
        <4>2. call'[r].stage = "read" /\ call[r].stage = "busy"
          BY <3>2, <4>1 DEF Fetch, TypeOK, Call
        <4> QED
          BY <4>2 DEF Holding
      <3>3. CASE Connect(r)
        BY <3>3 DEF Connect, TypeOK, Call, Holding
      <3> QED
        BY <1>3, <3>1, <3>2, <3>3
    <2>2. In(Holding)' = In(Holding)
      BY <2>1, RequestSteps, <1>3 DEF In, RequestStep
    <2> QED
      BY <1>0, <1>3, <2>2 DEF Arrive, Begin, Connect, Fetch, lifespan, Held
  <1> QED
    BY <1>1, <1>2, <1>3 DEF RequestStep

LEMMA RequestsKeepInv ==
  ASSUME ServerInv, NEW r \in Requests, host \notin Gone, Arrive(r) \/ RequestStep(r)
  PROVE  ServerInv'
  <1> USE DEF ServerInv
  <1>1. UNCHANGED <<database, env, life, pool, proven, host, asked, healthy>>
    BY RequestSteps
  <1>2. TypeOK'
    BY <1>1, DatabaseKept, RequestRecord, RequestsKeepHeld DEF TypeOK
  <1>3. PoolInv'
    <2>1. life \notin {"begin", "connect"} \cup Over
      <3>1. CASE Release(r)
        BY <3>1, RequestSteps DEF Release, HostInv, In, Over
      <3>2. CASE ~Release(r)
        BY <3>2, RequestSteps DEF Over
      <3> QED
        BY <3>1, <3>2
    <2> QED
      BY <1>1, <2>1 DEF PoolInv
  <1>4. HostInv'
    <2>1. CASE Release(r)
      BY <1>1, <2>1, RequestSteps
      DEF HostInv, Release, In, Unanswered, InFlight, TypeOK, Gone
    <2>2. CASE ~Release(r)
      <3>1. host \in {"serving", "draining", "leaving"} /\ host' = host
        BY <1>1, <2>2, RequestSteps
      <3>2. call'[r].stage \notin Dropped
        BY <2>2, RequestRecord DEF Reply, TypeOK, Call, Release, Arrive, RequestStep, Begin,
          Acquire, Connect, Fetch, Return, Fail
      <3>3. In(Dropped)' = {}
        BY <3>1, <3>2, RequestSteps DEF HostInv, In
      <3> QED
        BY <1>1, <3>1, <3>3 DEF HostInv, Gone
    <2> QED
      BY <2>1, <2>2
  <1> QED
    BY <1>2, <1>3, <1>4, RequestsKeepCalls, RequestsKeepHeld

-----------------------------------------------------------------------------

LEMMA HostKeepsInv ==
  ASSUME ServerInv, \/ Serve \/ Signal \/ Exit \/ CheckHealth
                    \/ UNCHANGED vars
  PROVE  ServerInv'
  <1> USE DEF ServerInv
  <1>1. UNCHANGED <<database, env, life, pool, sessions, proven, call>>
    BY DEF Serve, Signal, Exit, CheckHealth, lifespan, vars, server
  <1>2. CallInv' /\ Held' /\ ErrorsNeedTrouble'
    BY <1>1, CallsKept, DatabaseKept DEF TypeOK
  <1>3. /\ host' \in {"starting", "serving", "draining", "leaving", "stopping"} \cup Gone
        /\ asked' \in 0 .. 2 /\ healthy' \in BOOLEAN
    <2>1. CASE Serve
      BY <2>1 DEF Serve, TypeOK
    <2>2. CASE Signal
      BY <2>2 DEF Signal, TypeOK
    <2>3. CASE Exit
      BY <2>3 DEF Exit, TypeOK, Gone
    <2>4. CASE CheckHealth
      BY <2>4 DEF CheckHealth, TypeOK
    <2>5. CASE UNCHANGED vars
      BY <2>5 DEF vars, server, TypeOK
    <2> QED
      BY <2>1, <2>2, <2>3, <2>4, <2>5
  <1>4. TypeOK'
    BY <1>1, <1>3, DatabaseKept DEF TypeOK
  <1>5. PoolInv' /\ HostInv'
    <2>1. CASE Serve
      BY <1>1, <2>1 DEF Serve, PoolInv, HostInv, In, Gone
    <2>2. CASE Signal
      BY <1>1, <2>2 DEF Signal, PoolInv, HostInv, In, Gone
    <2>3. CASE Exit
      <3>1. In(InFlight \cup Dropped) = {}
        BY <2>3 DEF Exit, HostInv, In, InFlight
      <3>2. In(InFlight \cup Dropped)' = {}
        BY <1>1, <3>1 DEF In
      <3>3. host \notin Gone /\ host' = "exited" /\ life \in Over
        BY <2>3 DEF Exit, Gone
      <3>4. sessions = 0 /\ pool \in {"none", "closed", "terminated"}
        BY <3>3 DEF PoolInv
      <3> QED
        BY <1>1, <3>2, <3>3, <3>4 DEF PoolInv, HostInv, Gone
    <2>4. CASE CheckHealth
      BY <1>1, <2>4 DEF CheckHealth, PoolInv, HostInv, In
    <2>5. CASE UNCHANGED vars
      BY <2>5 DEF vars, server, lifespan, PoolInv, HostInv, In
    <2> QED
      BY <2>1, <2>2, <2>3, <2>4, <2>5
  <1> QED
    BY <1>2, <1>4, <1>5

\* Cutting the requests in flight leaves a connection with those that held one.
LEMMA ShutdownKeepsInv ==
  ASSUME ServerInv, Shutdown
  PROVE  ServerInv'
  <1> USE DEF ServerInv
  <1>1. /\ UNCHANGED <<database, env, proven, asked, healthy>>
        /\ host' = "stopping" /\ life' = "close" /\ pool' = "closing"
        /\ call' = CutCalls /\ sessions' = SessionsCut
    BY DEF Shutdown
  <1>2. \A stage \in {"cut"} \cup Dropped : Unanswered(stage) \in Call
    BY DEF Unanswered, Call, Statuses, Stages, Settled
  <1>3. call' \in [Requests -> Call]
    BY <1>1, <1>2 DEF CutCalls, TypeOK
  <1>4. \A r \in Requests :
          \/ call'[r] = call[r] /\ call[r].stage \notin InFlight
          \/ call'[r] = Unanswered("cut")
          \/ call'[r] = Unanswered("releasing") /\ call[r].stage = "busy"
          \/ call'[r] = Unanswered("resetting") /\ call[r].stage = "read"
    BY <1>1 DEF CutCalls, InFlight
  <1>5. CallInv'
    BY <1>4 DEF CallInv, Unanswered
  <1>6. ErrorsNeedTrouble'
    BY <1>1, <1>4, DatabaseKept DEF TypeOK, ErrorsNeedTrouble, Unanswered
  <1>7. In(InFlight)' = {}
    BY <1>4 DEF In, InFlight, Unanswered
  <1>8. /\ Held' /\ sessions' \in 0 .. MaxSize
    <2> DEFINE connecting == In({"connecting"})
               rest == In(Holding) \ connecting
    <2>1. connecting \in SUBSET In(Holding)
      BY DEF In, Holding
    <2>2. /\ IsFiniteSet(In(Holding)) /\ Cardinality(In(Holding)) \in Nat
          /\ IsFiniteSet(connecting) /\ Cardinality(connecting) \in Nat
          /\ IsFiniteSet(rest) /\ Cardinality(rest) \in Nat
      BY <2>1, HeldIsFinite, FS_Subset, FS_CardinalityType
    <2>3. Cardinality(rest) = Cardinality(In(Holding)) - Cardinality(connecting)
      <3>1. connecting = In(Holding) \cap connecting
        BY <2>1
      <3> HIDE DEF connecting
      <3> QED
        BY <2>2, <3>1, FS_Difference
    <2>4. In(Holding)' \in SUBSET rest
      <3>1. \A r \in Requests : call'[r].stage \in Holding =>
              call[r].stage \in Holding /\ call[r].stage # "connecting"
        BY <1>4 DEF Holding, InFlight, Unanswered
      <3> QED
        BY <3>1 DEF In
    <2>5. Cardinality(In(Holding)') <= Cardinality(rest) /\ Cardinality(In(Holding)') \in Nat
      BY <2>2, <2>4, FS_Subset, FS_CardinalityType
    <2>6. sessions' = sessions - Cardinality(connecting)
      BY <1>1 DEF SessionsCut
    <2>7. sessions \in 0 .. MaxSize /\ MaxSize \in Nat /\ Cardinality(In(Holding)) <= sessions
      BY PoolAssumption DEF TypeOK, Held
    <2> HIDE DEF connecting, rest
    <2>8. Cardinality(In(Holding)') <= sessions' /\ sessions' \in 0 .. MaxSize
      BY <2>2, <2>3, <2>5, <2>6, <2>7
    <2> QED
      BY <2>8 DEF Held
  <1>9. TypeOK'
    BY <1>1, <1>3, <1>8, DatabaseKept DEF TypeOK
  <1>10. PoolInv' /\ HostInv'
    BY <1>1, <1>7 DEF PoolInv, HostInv, Gone, Over
  <1> QED
    BY <1>5, <1>6, <1>8, <1>9, <1>10

LEMMA DieKeepsInv ==
  ASSUME ServerInv, Die
  PROVE  ServerInv'
  <1> USE DEF ServerInv
  <1>1. /\ UNCHANGED <<database, env, life, proven, asked, healthy>>
        /\ host' = "killed" /\ pool' = "none" /\ sessions' = 0
    BY DEF Die
  <1>2. Unanswered("cut") \in Call
    BY DEF Unanswered, Call, Statuses, Stages, Settled
  <1>3. call' \in [Requests -> Call]
    BY <1>2 DEF Die, TypeOK
  <1>4. \A r \in Requests :
          \/ call'[r] = call[r] /\ call[r].stage \notin InFlight \cup Dropped
          \/ call'[r] = Unanswered("cut")
    BY DEF Die
  <1>5. CallInv'
    BY <1>4 DEF CallInv, Unanswered
  <1>6. ErrorsNeedTrouble'
    BY <1>1, <1>4, DatabaseKept DEF TypeOK, ErrorsNeedTrouble, Unanswered
  <1>7. In(InFlight \cup Dropped)' = {} /\ In(Holding)' = {}
    BY <1>4 DEF In, InFlight, Holding, Unanswered
  <1>8. Held'
    BY <1>1, <1>7, FS_EmptySet DEF Held
  <1>9. TypeOK'
    <2>1. sessions' \in 0 .. MaxSize
      BY <1>1, PoolAssumption
    <2> QED
      BY <1>1, <1>3, <2>1, DatabaseKept DEF TypeOK, Gone
  <1>10. PoolInv' /\ HostInv'
    BY <1>1, <1>7 DEF PoolInv, HostInv, Gone
  <1> QED
    BY <1>5, <1>6, <1>8, <1>9, <1>10

\* Every step keeps the invariant.
LEMMA NextKeepsInv ==
  ASSUME ServerInv, [Next]_vars
  PROVE  ServerInv'
  <1>1. CASE LifespanStep
    BY <1>1, OpeningKeepsInv, ClosingKeepsInv DEF LifespanStep
  <1>2. CASE CancelLifespan
    BY <1>2, ClosingKeepsInv DEF CancelLifespan
  <1>3. ASSUME NEW r \in Requests, Arrive(r) \/ RequestStep(r)
        PROVE  ServerInv'
    BY <1>3, RequestsKeepInv DEF Arrive, RequestStep, Gone
  <1>4. CASE HostStep
    BY <1>4, HostKeepsInv, ShutdownKeepsInv DEF HostStep
  <1>5. CASE Signal \/ CheckHealth \/ UNCHANGED vars
    BY <1>5, HostKeepsInv
  <1>6. CASE Die
    BY <1>6, DieKeepsInv
  <1>7. CASE DatabaseStep /\ UNCHANGED server
    BY <1>7, DatabaseStepKeepsInv
  <1> QED
    BY <1>1, <1>2, <1>3, <1>4, <1>5, <1>6, <1>7 DEF Next

-----------------------------------------------------------------------------

\* The inductive invariant holds throughout: the pool against the lifespan, the
\* host against both, and the requests against the pool (database.py, app.py).
THEOREM Invariance == Spec => []ServerInv
  <1>1. Init => ServerInv
    BY InitInv
  <1>2. ServerInv /\ [Next]_vars => ServerInv'
    BY NextKeepsInv
  <1> QED
    BY <1>1, <1>2, PTL DEF Spec

\* Every variable keeps its type, and the pool has never more than max_size
\* connections.
THEOREM TypesHold == Spec => []TypeOK
  BY Invariance, PTL DEF ServerInv

\* Connections are held only from an open pool, or from a closing one by
\* requests that are being cut, and only the pool's (app.py's db_item against
\* the lifespan's close_pool).
THEOREM NothingIsUsedAfterClose == Spec => []HeldWithinPool
  <1>1. ServerInv => HeldWithinPool
    <2> SUFFICES ASSUME ServerInv PROVE HeldWithinPool
      OBVIOUS
    <2> USE DEF ServerInv
    <2>1. In(Using) # {} => pool = "open"
      BY DEF TypeOK, HostInv, PoolInv, In, InFlight, Gone
    <2>2. In(Dropped) # {} => pool = "closing"
      BY DEF TypeOK, HostInv, PoolInv, In, InFlight, Gone, Over
    <2> QED
      BY <2>1, <2>2 DEF HeldWithinPool, Held
  <1> QED
    BY <1>1, Invariance, PTL

\* A server that has exited leaves no connection and no caller behind, however
\* its start or its stop went (open_pool, close_pool).
THEOREM ExitIsClean == Spec => []NothingLeftBehind
  <1>1. ServerInv => NothingLeftBehind
    BY DEF ServerInv, HostInv, NothingLeftBehind, Gone
  <1> QED
    BY <1>1, Invariance, PTL

\* Only a database that has been away makes db_item answer 500 (Uvicorn may send
\* a 500 of its own to a request it cuts; that is no answer of the application).
THEOREM LoadMakesNoErrors == Spec => []ErrorsNeedTrouble
  BY Invariance, PTL DEF ServerInv

\* The container is found healthy only after a query was answered, and while
\* the pool it was answered through is open (healthcheck.py, open_pool).
THEOREM HealthIsProven == Spec => HealthyMeansProven
  <1>1. ServerInv /\ [Next]_vars =>
          [(healthy' /\ ~healthy) => (proven /\ pool = "open")]_vars
    <2> SUFFICES ASSUME ServerInv, Next, healthy' # healthy, healthy'
                 PROVE  proven /\ pool = "open"
      BY DEF ServerInv, TypeOK, vars, server
    <2>1. CheckHealth
      BY DEF Next, LifespanStep, ReadOptions, CreatePool, CreatePoolFails, ProbeAnswers,
        ProbeFails, PoolCloses, PoolCloseFails, CancelLifespan, Arrive, RequestStep, Begin,
        Acquire, Connect, Fetch, Return, Fail, Release, HostStep, Serve, Shutdown, Exit,
        Signal, Die, server
    <2>2. host = "serving"
      BY <2>1 DEF CheckHealth
    <2> QED
      BY <2>2 DEF ServerInv, HostInv, PoolInv, Gone
  <1> QED
    BY <1>1, Invariance, PTL DEF Spec, HealthyMeansProven

\* What EveryTextParsesExactly says of a text that may come.
LEMMA ParsedMeans ==
  ASSUME NEW text \in Texts
  PROVE  IF Meaning[text] = {} THEN Parsed[text] = Invalid
         ELSE Parsed[text] # Invalid /\ Parsed[text] \in Meaning[text]
  <1>1. Meaning[text] = {n \in -Limit .. (Limit - 1) : Denotes(text, n)}
    BY DEF Meaning
  <1>2. Parsed[text] = ParseId(text)
    BY DEF Parsed
  <1>3. ParseId(text) # Invalid => ParseId(text) \in -Limit .. (Limit - 1)
    BY Zenon DEF ParseId
  <1>4. IF \E n \in -Limit .. (Limit - 1) : Denotes(text, n)
        THEN ParseId(text) # Invalid /\ Denotes(text, ParseId(text))
        ELSE ParseId(text) = Invalid
    <2>1. text \in Seq(STRING)
      BY EnvironmentAssumption
    <2> QED
      BY <2>1, EveryTextParsesExactly DEF ParsesExactly
  <1> QED
    BY Zenon, <1>1, <1>2, <1>3, <1>4

\* No order of awaits, signals and failures makes db_item refuse a text that
\* denotes an id, or go on with another id than the one it denotes (app.py's
\* db_item and parse_id).
THEOREM RefusalsAreExact == Spec => RefusedExactly
  <1>1. ServerInv /\ [Next]_vars =>
          [\A r \in Requests :
             (call[r].stage = "sent" /\ call'[r].stage \in {"waiting", "answered"}) =>
               IF Meaning[call[r].text] = {}
               THEN call'[r].status = 400
               ELSE call'[r].status # 400 /\ call'[r].id \in Meaning[call[r].text]]_vars
    <2> SUFFICES ASSUME ServerInv, Next, NEW r \in Requests,
                        call[r].stage = "sent", call'[r].stage \in {"waiting", "answered"}
                 PROVE  IF Meaning[call[r].text] = {}
                        THEN call'[r].status = 400
                        ELSE /\ call'[r].status # 400
                             /\ call'[r].id \in Meaning[call[r].text]
      OBVIOUS
    <2> DEFINE text == call[r].text
               id == Parsed[text]
    <2>1. call[r] \in Call /\ call \in [Requests -> Call]
      BY DEF ServerInv, TypeOK
    <2>2. text \in Texts /\ call[r].status = 0
      BY DEF ServerInv, CallInv
    <2>3. Begin(r)
      <3>1. CASE LifespanStep \/ CancelLifespan
        BY <3>1 DEF LifespanStep, CancelLifespan, ReadOptions, CreatePool,
          CreatePoolFails, ProbeAnswers, ProbeFails, PoolCloses, PoolCloseFails,
          Terminate
      <3>2. ASSUME NEW q \in Requests, Arrive(q) \/ RequestStep(q)
            PROVE  Begin(r)
        <4>1. CASE q # r
          BY <2>1, <3>2, <4>1 DEF Arrive, RequestStep, Begin, Acquire, Connect, Fetch,
            Return, Fail, Release, Reply
        <4>2. CASE q = r /\ Arrive(r)
          BY <4>2 DEF Arrive
        <4>3. CASE q = r /\ RequestStep(r)
          BY <4>3 DEF RequestStep, Acquire, Connect, Fetch, Return, Fail, Release
        <4> QED
          BY <3>2, <4>1, <4>2, <4>3
      <3>3. CASE HostStep \/ Signal \/ CheckHealth
        <4>1. call'[r] = call[r] \/ call'[r] = Unanswered("cut")
          <5>1. CASE Shutdown
            BY <5>1 DEF Shutdown, CutCalls
          <5>2. CASE Serve \/ Exit \/ Signal \/ CheckHealth
            BY <5>2 DEF Serve, Exit, Signal, CheckHealth
          <5> QED
            BY <3>3, <5>1, <5>2 DEF HostStep
        <4> QED
          BY <4>1 DEF Unanswered
      <3>4. CASE Die
        <4>1. call'[r] = Unanswered("cut")
          BY <3>4 DEF Die, InFlight
        <4> QED
          BY <4>1 DEF Unanswered
      <3>5. CASE DatabaseStep /\ UNCHANGED server
        BY <3>5 DEF server
      <3> QED
        BY <3>1, <3>2, <3>3, <3>4, <3>5 DEF Next
    <2>4. /\ call'[r].id = id
          /\ id = Invalid => call'[r].status = 400
          /\ id # Invalid => call'[r].status \in {0, 500}
      BY <2>1, <2>2, <2>3 DEF Begin, Call
    <2> QED
      BY <2>2, <2>4, ParsedMeans
  <1> QED
    BY <1>1, Invariance, PTL DEF Spec, RefusedExactly

-----------------------------------------------------------------------------
(* The answers.                                                             *)

\* What a step may do to a request: nothing, cut it, or be its own.
LEMMA CallStep ==
  ASSUME ServerInv, Next, NEW r \in Requests
  PROVE  \/ call'[r] = call[r]
         \/ call[r].stage \notin Settled
              /\ call'[r] \in {Unanswered(stage) : stage \in {"cut"} \cup Dropped}
         \/ host \notin Gone /\ (Arrive(r) \/ RequestStep(r))
  <1>1. CASE LifespanStep \/ CancelLifespan
    BY <1>1 DEF LifespanStep, CancelLifespan, ReadOptions, CreatePool, CreatePoolFails,
      ProbeAnswers, ProbeFails, PoolCloses, PoolCloseFails, Terminate, Settled
  <1>2. ASSUME NEW q \in Requests, Arrive(q) \/ RequestStep(q)
        PROVE  call'[r] = call[r] \/ (host \notin Gone /\ (Arrive(r) \/ RequestStep(r)))
    <2>1. host \notin Gone
      BY <1>2 DEF Arrive, RequestStep, Gone
    <2> QED
      BY <1>2, <2>1, RequestSteps
  <1>3. CASE HostStep \/ Signal \/ CheckHealth
    <2>1. CASE Shutdown
      BY <2>1 DEF Shutdown, CutCalls, Settled
    <2>2. CASE Serve \/ Exit \/ Signal \/ CheckHealth
      BY <2>2 DEF Serve, Exit, Signal, CheckHealth
    <2> QED
      BY <1>3, <2>1, <2>2 DEF HostStep
  <1>4. CASE Die
    BY <1>4 DEF Die, InFlight, Settled
  <1>5. CASE DatabaseStep /\ UNCHANGED server
    BY <1>5 DEF server
  <1> QED
    BY <1>1, <1>2, <1>3, <1>4, <1>5 DEF Next

\* A request is answered once or cut once, and that is the end of it: no late
\* result, timeout, signal or end of the process changes what was sent or takes
\* the request up again (db_item against Uvicorn and the lifespan).
THEOREM SettledOnce ==
  Spec => [][\A r \in Requests : call[r].stage \in Settled => call'[r] = call[r]]_vars
  <1>1. ServerInv /\ [Next]_vars =>
          [\A r \in Requests : call[r].stage \in Settled => call'[r] = call[r]]_vars
    <2> SUFFICES ASSUME ServerInv, Next, NEW r \in Requests, call[r].stage \in Settled
                 PROVE  call'[r] = call[r]
      OBVIOUS
    <2>1. ~(Arrive(r) \/ RequestStep(r))
      BY DEF Arrive, RequestStep, Begin, Acquire, Connect, Fetch, Return, Fail,
        Release, Settled
    <2> QED
      BY <2>1, CallStep
  <1> QED
    BY <1>1, Invariance, PTL DEF Spec

\* Nobody writes, adds or deletes the row of this id.
RowStands(id) == [][Lookup(id)' = Lookup(id)]_vars

\* A request for this id that was answered with a row, or with there being none,
\* got the one the table has.
AnswersShow(id) ==
  \A r \in Requests :
    (call[r].id = id /\ call[r].status \in {200, 404}) =>
      /\ call[r].row = Lookup(id)
      /\ call[r].status = IF Lookup(id) = NoRow THEN 404 ELSE 200

\* So did one whose row was read and which is not answered yet.
ReadShow(id) ==
  \A r \in Requests :
    (call[r].id = id /\ call[r].stage = "read") => call[r].row = Lookup(id)

\* While the row of an id stands, every answer for that id shows it, and 404 is
\* answered exactly when there is none: no other request's row, no row left in a
\* pooled connection, no error that passes for a missing row (db_item's fetchrow
\* and what it makes of the result).  What is written meanwhile to other rows
\* makes no difference, and an id that can have no row is always 404.
THEOREM AnswersAreTheTables ==
  ASSUME NEW id
  PROVE  Spec /\ RowStands(id) => []AnswersShow(id)
  <1> DEFINE Shown == AnswersShow(id) /\ ReadShow(id)
             Stands == Lookup(id)' = Lookup(id)
  <1>1. Init => Shown
    BY DEF Init, AnswersShow, ReadShow, Unanswered
  <1>2. ServerInv /\ Shown /\ [Next]_vars /\ [Stands]_vars => Shown'
    <2> SUFFICES ASSUME ServerInv, Shown, [Next]_vars, [Stands]_vars
                 PROVE  Shown'
      OBVIOUS
    <2>1. CASE UNCHANGED vars
      BY <2>1 DEF vars, server, database, AnswersShow, ReadShow, Lookup
    <2>2. ASSUME Next, Lookup(id)' = Lookup(id), NEW r \in Requests
          PROVE  /\ (call'[r].id = id /\ call'[r].status \in {200, 404}) =>
                      /\ call'[r].row = Lookup(id)
                      /\ call'[r].status = IF Lookup(id) = NoRow THEN 404 ELSE 200
                 /\ (call'[r].id = id /\ call'[r].stage = "read") =>
                      call'[r].row = Lookup(id)
      <3>1. CASE call'[r] = call[r]
        BY <3>1 DEF AnswersShow, ReadShow
      <3>2. CASE call'[r] \in {Unanswered(stage) : stage \in {"cut"} \cup Dropped}
        BY <3>2 DEF Unanswered
      <3>3. CASE host \notin Gone /\ (Arrive(r) \/ RequestStep(r))
        BY <3>3, RequestRecord DEF ReadShow, Unanswered
      <3> QED
        BY <2>2, <3>1, <3>2, <3>3, CallStep
    <2>3. ASSUME Next, Lookup(id)' = Lookup(id)
          PROVE  Shown'
      BY <2>2, <2>3 DEF AnswersShow, ReadShow
    <2> QED
      BY <2>1, <2>3
  <1>3. Shown => AnswersShow(id)
    OBVIOUS
  <1> HIDE DEF Shown
  <1> QED
    BY <1>1, <1>2, <1>3, Invariance, PTL DEF Spec, RowStands

-----------------------------------------------------------------------------
(* The refinement of ItemService.                                           *)

LEMMA InitRefines == Init => Items!Init
  <1> SUFFICES ASSUME Init PROVE Items!Init
    OBVIOUS
  <1>1. items \in Items!Tables
    BY DEF Init, DatabaseInit, Tables, Items!Tables
  <1>2. Service = "closed"
    BY DEF Init, Service, Gone
  <1>3. Mapped(Unanswered("new")) = Items!Unanswered("new")
    BY DEF Mapped, Unanswered, Phase, InFlight, Items!Unanswered
  <1>4. Calls = [r \in Requests |-> Items!Unanswered("new")]
    BY <1>3 DEF Init, Calls
  <1> QED
    BY <1>1, <1>2, <1>4 DEF Items!Init

\* A request that is cut is cut, whether it still holds its connection or not.
LEMMA CutIsCut ==
  /\ Mapped(Unanswered("cut")) = Items!Unanswered("cut")
  /\ \A stage \in Dropped : Mapped(Unanswered(stage)) = Items!Unanswered("cut")
  BY DEF Mapped, Unanswered, Phase, InFlight, Items!Unanswered

LEMMA SentAreInFlight ==
  Items!Sent = In(InFlight)
  <1>1. \A r \in Requests : Calls[r].phase = Phase(call[r].stage)
    BY DEF Calls, Mapped
  <1>2. \A r \in Requests : Phase(call[r].stage) = "sent" <=> call[r].stage \in InFlight
    BY DEF Phase, InFlight
  <1> QED
    BY <1>1, <1>2 DEF Items!Sent, In

\* The service is open from the first query answered until the lifespan ends.
LEMMA ServiceByHost ==
  ASSUME TypeOK
  PROVE  /\ host \in Gone => Service = "ended"
         /\ (host \notin Gone /\ life = "ready") => Service = "open"
         /\ (host \notin Gone /\ life # "ready") => Service = "closed"
  BY DEF Service

\* Steps the service does not see.
LEMMA UnseenRefines ==
  ASSUME UNCHANGED <<items, Service, Calls>>
  PROVE  [Items!Next]_<<items, Service, Calls>>
  OBVIOUS

LEMMA LifespanRefines ==
  ASSUME ServerInv, LifespanStep \/ CancelLifespan
  PROVE  [Items!Next]_<<items, Service, Calls>>
  <1>1. host \notin Gone /\ UNCHANGED <<database, host>>
    BY DEF LifespanStep, CancelLifespan, ReadOptions, CreatePool, CreatePoolFails,
      ProbeAnswers, ProbeFails, PoolCloses, PoolCloseFails
  <1>2. UNCHANGED items
    BY <1>1 DEF database
  <1>3. UNCHANGED Calls
    <2>1. \A r \in Requests :
            \/ call'[r] = call[r]
            \/ /\ \E stage \in Dropped : call[r] = Unanswered(stage)
               /\ call'[r] = Unanswered("cut")
      BY DEF ServerInv, CallInv, LifespanStep, CancelLifespan, ReadOptions, CreatePool,
        CreatePoolFails, ProbeAnswers, ProbeFails, PoolCloses, PoolCloseFails, Terminate
    <2>2. \A r \in Requests : Mapped(call'[r]) = Mapped(call[r])
      BY <2>1, CutIsCut
    <2> QED
      BY <2>2 DEF Calls
  <1>4. CASE ProbeAnswers
    <2>1. Service = "closed" /\ Service' = "open"
      BY <1>1, <1>4 DEF Service, ProbeAnswers
    <2> QED
      BY <1>2, <1>3, <2>1 DEF Items!Next, Items!Open
  <1>5. CASE ~ProbeAnswers
    <2>1. life # "ready" /\ life' # "ready"
      BY <1>5 DEF LifespanStep, CancelLifespan, ReadOptions, CreatePool, CreatePoolFails,
        ProbeFails, PoolCloses, PoolCloseFails, AfterClose
    <2>2. UNCHANGED Service
      BY <1>1, <2>1 DEF Service
    <2> QED
      BY <1>2, <1>3, <2>2
  <1> QED
    BY <1>4, <1>5

LEMMA RequestRefines ==
  ASSUME ServerInv, NEW r \in Requests, host \notin Gone, Arrive(r) \/ RequestStep(r)
  PROVE  [Items!Next]_<<items, Service, Calls>>
  <1> DEFINE c == call[r]
             d == call'[r]
  <1>1. /\ UNCHANGED <<items, Service>>
        /\ \A q \in Requests \ {r} : call'[q] = call[q]
    BY RequestSteps DEF Service, database
  <1>2. Calls' = [Calls EXCEPT ![r] = Mapped(d)]
    BY <1>1 DEF Calls
  <1>3. Calls[r] = Mapped(c)
    BY DEF Calls
  <1>4. CASE c.stage \in Dropped /\ d = Unanswered("cut")
    <2>1. Mapped(d) = Mapped(c)
      BY <1>4, CutIsCut DEF ServerInv, CallInv
    <2> QED
      BY <1>1, <1>2, <1>3, <2>1 DEF Calls
  <1>5. CASE c.stage = "new" /\ d.stage = "sent"
    <2>1. /\ c.row = Unread /\ c.status = 0 /\ d.row = Unread /\ d.status = 0
          /\ d.text \in Texts /\ Parsed[d.text] \in Ids
      <3>1. c.row = Unread /\ c.status = 0
        BY <1>5 DEF ServerInv, CallInv
      <3>2. d.text \in Texts /\ d.row = Unread /\ d.status = 0
        BY <1>5, RequestRecord
      <3> QED
        BY <3>1, <3>2, ParsedIsId
    <2>2. Mapped(c).phase = "new"
      BY <1>5 DEF Mapped, Phase, InFlight
    <2>3. Mapped(d) = [Mapped(c) EXCEPT !.phase = "sent", !.id = Parsed[d.text]]
      <3>1. Mapped(c) = [phase |-> "new", id |-> c.id, row |-> Unread, status |-> 0]
        BY <1>5, <2>1 DEF Mapped, Phase, InFlight
      <3>2. Mapped(d) = [phase |-> "sent", id |-> Parsed[d.text], row |-> Unread, status |-> 0]
        BY <1>5, <2>1 DEF Mapped, Phase, InFlight
      <3> DEFINE m == [Mapped(c) EXCEPT !.phase = "sent"]
      <3>3. m = [phase |-> "sent", id |-> c.id, row |-> Unread, status |-> 0]
        BY <3>1
      <3>4. [Mapped(c) EXCEPT !.phase = "sent", !.id = Parsed[d.text]]
              = [m EXCEPT !.id = Parsed[d.text]]
        OBVIOUS
      <3> HIDE DEF m
      <3>5. [m EXCEPT !.id = Parsed[d.text]] = Mapped(d)
        BY <3>2, <3>3
      <3> QED
        BY <3>4, <3>5
    <2>4. Calls' = [Calls EXCEPT ![r].phase = "sent", ![r].id = Parsed[d.text]]
      BY <1>2, <1>3, <2>3
    <2>5. Service # "ended"
      BY DEF Service
    <2> QED
      BY <1>1, <1>3, <2>1, <2>2, <2>4, <2>5 DEF Items!Next, Items!Send
  <1>6. CASE c.stage \in InFlight
    <2>1. Service = "open" /\ r \in Items!Sent
      <3>1. ~Release(r)
        BY <1>6 DEF Release, InFlight
      <3> QED
        BY <1>6, <3>1, RequestSteps, SentAreInFlight DEF Service, In
    <2>2. CASE /\ c.stage = "sent" /\ d.stage = "waiting" /\ d.id = Parsed[c.text]
               /\ d.row = Unread /\ d.status = 0
      <3>1. c.row = Unread /\ c.status = 0
        BY <2>2 DEF ServerInv, CallInv
      <3>2. Mapped(d) = Mapped(c)
        BY <2>2, <3>1 DEF Mapped, Phase, InFlight
      <3> QED
        BY <1>1, <1>2, <1>3, <3>2 DEF Calls
    <2>3. CASE /\ c.stage \in {"waiting", "connecting"}
               /\ d.stage \in {"connecting", "busy"} /\ d.id = c.id
               /\ d.row = Unread /\ d.status = 0
      <3>1. c.row = Unread /\ c.status = 0
        BY <2>3 DEF ServerInv, CallInv
      <3>2. Mapped(d) = Mapped(c)
        BY <2>3, <3>1 DEF Mapped, Phase, InFlight
      <3> QED
        BY <1>1, <1>2, <1>3, <3>2 DEF Calls
    <2>4. CASE /\ c.stage = "busy" /\ d.stage = "read" /\ d.id = c.id /\ d.status = 0
               /\ c.row = Unread /\ d.row = Lookup(c.id)
      <3>1. c.status = 0 /\ c.id # Invalid
        BY <2>4 DEF ServerInv, CallInv
      <3>2. Mapped(d) = [Mapped(c) EXCEPT !.row = Lookup(c.id)]
        BY <2>4, <3>1 DEF Mapped, Phase, InFlight
      <3>3. Mapped(c).id = c.id /\ Mapped(c).row = Unread
        BY <2>4 DEF Mapped
      <3>4. Lookup(c.id) = Items!Lookup(c.id)
        BY DEF Lookup, Items!Lookup
      <3>5. Calls' = [Calls EXCEPT ![r].row = Items!Lookup(Calls[r].id)]
        BY <1>2, <1>3, <3>2, <3>3, <3>4
      <3> QED
        BY <1>1, <1>3, <2>1, <3>1, <3>3, <3>5 DEF Items!Next, Items!Look
    <2>5. ASSUME d.stage = "answered", d.row = c.row,
                 d.id = (IF c.stage = "sent" THEN Parsed[c.text] ELSE c.id), d.status \in Items!Answers(r)
          PROVE  [Items!Next]_<<items, Service, Calls>>
      <3>1. Mapped(d) = [Mapped(c) EXCEPT !.phase = "answered", !.status = d.status]
        <4> DEFINE m == [Mapped(c) EXCEPT !.phase = "answered"]
        <4>1. Mapped(d) = [phase |-> "answered", id |-> d.id,
                           row |-> d.row, status |-> d.status]
          BY <2>5 DEF Mapped, Phase, InFlight
        <4>2. m = [phase |-> "answered", id |-> d.id, row |-> d.row, status |-> c.status]
          BY <2>5 DEF Mapped
        <4>3. [Mapped(c) EXCEPT !.phase = "answered", !.status = d.status]
                = [m EXCEPT !.status = d.status]
          OBVIOUS
        <4> HIDE DEF m
        <4>4. [m EXCEPT !.status = d.status] = Mapped(d)
          BY <4>1, <4>2
        <4> QED
          BY <4>3, <4>4
      <3>2. Calls' = [Calls EXCEPT ![r].phase = "answered", ![r].status = d.status]
        BY <1>2, <1>3, <3>1
      <3> QED
        BY <1>1, <2>1, <2>5, <3>2 DEF Items!Next, Items!Answer
    <2>6. CASE /\ c.stage = "sent" /\ d.stage = "answered" /\ Parsed[c.text] = Invalid
               /\ d.id = Invalid /\ d.row = Unread /\ d.status = 400
      <3>1. c.row = Unread
        BY <2>6 DEF ServerInv, CallInv
      <3>2. Mapped(c).id = Invalid
        BY <2>6 DEF Mapped
      <3> QED
        BY <1>3, <2>5, <2>6, <3>1, <3>2 DEF Items!Answers
    <2>7. CASE /\ c.stage \in Using /\ d.stage = "answered"
               /\ d.id = c.id /\ d.row = c.row
               /\ \/ d.status = 500
                  \/ /\ c.stage = "read"
                     /\ d.status = IF c.row = NoRow THEN 404 ELSE 200
      <3>1. c.id # Invalid /\ (c.stage = "read" => c.row # Unread)
        BY <2>7 DEF ServerInv, CallInv
      <3>2. Mapped(c).id = c.id /\ Mapped(c).row = c.row
        BY <2>7 DEF Mapped
      <3>3. d.status \in Items!Answers(r)
        BY <1>3, <2>7, <3>1, <3>2 DEF Items!Answers
      <3> QED
        BY <2>5, <2>7, <3>2, <3>3
    <2> QED
      BY <1>6, <2>2, <2>3, <2>4, <2>6, <2>7, RequestRecord DEF InFlight
  <1> QED
    BY <1>4, <1>5, <1>6, RequestRecord DEF InFlight

LEMMA HostRefines ==
  ASSUME ServerInv, HostStep \/ Signal \/ CheckHealth \/ UNCHANGED vars
  PROVE  [Items!Next]_<<items, Service, Calls>>
  <1> USE DEF ServerInv
  <1>1. CASE Serve \/ Signal \/ CheckHealth \/ UNCHANGED vars
    <2>1. UNCHANGED <<items, life, call>> /\ (host' \in Gone <=> host \in Gone)
      BY <1>1 DEF Serve, Signal, CheckHealth, vars, server, database, lifespan, Gone
    <2> QED
      BY <2>1 DEF Service, Calls
  <1>2. CASE Shutdown
    <2>1. Service = "open" /\ Service' = "closed"
      BY <1>2 DEF Shutdown, Service, HostInv, Gone
    <2>2. \A r \in Requests :
            Mapped(call'[r]) = IF r \in Items!Sent THEN Items!Unanswered("cut")
                               ELSE Mapped(call[r])
      <3> TAKE r \in Requests
      <3>1. IF call[r].stage \in InFlight
            THEN call'[r] \in {Unanswered(stage) : stage \in {"cut"} \cup Dropped}
            ELSE call'[r] = call[r]
        BY <1>2 DEF Shutdown, CutCalls, InFlight
      <3>2. r \in Items!Sent <=> call[r].stage \in InFlight
        BY SentAreInFlight DEF In
      <3> QED
        BY <3>1, <3>2, CutIsCut DEF InFlight
    <2>3. Calls' = Items!CutCalls(Items!Sent)
      BY <2>2 DEF Calls, Items!CutCalls
    <2>4. UNCHANGED items
      BY <1>2 DEF Shutdown, database
    <2> QED
      BY <2>1, <2>3, <2>4 DEF Items!Next, Items!Close
  <1>3. CASE Exit
    <2>1. Items!Sent = {}
      BY <1>3, SentAreInFlight DEF Exit, HostInv, In, InFlight
    <2>2. Calls' = Items!CutCalls({})
      BY <1>3 DEF Exit, Calls, Items!CutCalls
    <2>3. Service # "ended" /\ Service' = "ended" /\ UNCHANGED items
      BY <1>3 DEF Exit, Service, Gone, database
    <2> QED
      BY <2>1, <2>2, <2>3 DEF Items!Next, Items!End
  <1> QED
    BY <1>1, <1>2, <1>3 DEF HostStep

LEMMA DieRefines ==
  ASSUME ServerInv, Die
  PROVE  [Items!Next]_<<items, Service, Calls>>
  <1>1. Service # "ended" /\ Service' = "ended" /\ UNCHANGED items
    BY DEF Die, Service, Gone, database
  <1>2. \A r \in Requests :
          Mapped(call'[r]) = IF r \in Items!Sent THEN Items!Unanswered("cut")
                             ELSE Mapped(call[r])
    <2> TAKE r \in Requests
    <2>1. call'[r] = IF call[r].stage \in InFlight \cup Dropped
                     THEN Unanswered("cut") ELSE call[r]
      BY DEF Die
    <2>2. r \in Items!Sent <=> call[r].stage \in InFlight
      BY SentAreInFlight DEF In
    <2>3. call[r].stage \in Dropped => Mapped(call[r]) = Items!Unanswered("cut")
      BY CutIsCut DEF ServerInv, CallInv
    <2> QED
      BY <2>1, <2>2, <2>3, CutIsCut
  <1>3. Calls' = Items!CutCalls(Items!Sent)
    BY <1>2 DEF Calls, Items!CutCalls
  <1> QED
    BY <1>1, <1>3 DEF Items!Next, Items!End

LEMMA DatabaseRefines ==
  ASSUME ServerInv, DatabaseStep, UNCHANGED server
  PROVE  [Items!Next]_<<items, Service, Calls>>
  <1>1. UNCHANGED <<Service, Calls>>
    BY DEF server, lifespan, Service, Calls
  <1>2. UNCHANGED items \/ items' \in Items!Tables
    BY DEF DatabaseStep, Turn, Change, Tables, Items!Tables
  <1> QED
    BY <1>1, <1>2 DEF Items!Next, Items!Change

\* The server promises what ItemService says: a row as the table held it between
\* request and answer, refusals by the id alone, and nobody left waiting when it
\* has ended (app.py).
THEOREM Refinement == Spec => ImplementsItemService
  <1>1. Init => Items!Init
    BY InitRefines
  <1>2. ServerInv /\ [Next]_vars => [Items!Next]_<<items, Service, Calls>>
    <2> SUFFICES ASSUME ServerInv, [Next]_vars
                 PROVE  [Items!Next]_<<items, Service, Calls>>
      OBVIOUS
    <2>1. CASE LifespanStep \/ CancelLifespan
      BY <2>1, LifespanRefines
    <2>2. ASSUME NEW r \in Requests, Arrive(r) \/ RequestStep(r)
          PROVE  [Items!Next]_<<items, Service, Calls>>
      BY <2>2, RequestRefines DEF Arrive, RequestStep, Gone
    <2>3. CASE HostStep \/ Signal \/ CheckHealth \/ UNCHANGED vars
      BY <2>3, HostRefines
    <2>4. CASE Die
      BY <2>4, DieRefines
    <2>5. CASE DatabaseStep /\ UNCHANGED server
      BY <2>5, DatabaseRefines
    <2> QED
      BY <2>1, <2>2, <2>3, <2>4, <2>5 DEF Next
  <1> QED
    BY <1>1, <1>2, Invariance, PTL DEF Spec, Items!Spec, ImplementsItemService
===============================================================================
