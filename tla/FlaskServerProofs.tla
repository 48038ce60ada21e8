--------------------------- MODULE FlaskServerProofs ---------------------------
(***************************************************************************)
(* Theorems about FlaskServer, for every number of requests, of worker     *)
(* crashes and every table: the pool of each worker outlives its requests  *)
(* and is closed when the worker ends by itself, and the server implements *)
(* ItemService, restarts of the worker included.                           *)
(***************************************************************************)
EXTENDS FlaskServer, TLAPS

\* What the worker has, by where it is.
WorkerInv ==
  /\ worker \in {"boot", "dead"} => pool = "none"
  /\ worker \in {"opening", "probing", "abandon", "atexit"} \cup Serving => pool = "open"
  /\ worker \in {"failed", "done"} => pool # "open"
  /\ worker \in {"boot", "opening"} \cup Finished => ~connected
  /\ worker \in Serving => proven

\* Requests are run by a worker that serves, and wait for nothing when the
\* arbiter is gone.
HostInv ==
  /\ In(Running) # {} => worker \in Serving
  /\ arbiter \in Gone => (worker \in Finished /\ In(Unsettled) = {})

\* What a request carries, by how far it has come.
CallInv ==
  \A r \in Requests :
    /\ call[r].stage \in {"new", "queued", "acquiring", "executing"} => call[r].row = Unread
    /\ call[r].stage \in {"new"} \cup Unsettled => call[r].status = 0
    /\ call[r].stage \in Running => call[r].id # Invalid
    /\ call[r].stage = "read" => call[r].row # Unread

ServerInv == TypeOK /\ WorkerInv /\ HostInv /\ CallInv

-----------------------------------------------------------------------------

LEMMA InitInv == Init => ServerInv
  <1> SUFFICES ASSUME Init PROVE ServerInv
    OBVIOUS
  <1>1. DatabaseTypeOK
    BY DEF Init, DatabaseInit, DatabaseTypeOK
  <1>2. Unanswered("new") \in Call
    BY DEF Unanswered, Call, Statuses, Stages
  <1>3. In(Running) = {} /\ In(Unsettled) = {}
    BY DEF Init, In, Unanswered, Running, Unsettled
  <1>4. TypeOK
    <2>1. call \in [Requests -> Call]
      BY <1>2 DEF Init
    <2>2. crashes \in 0 .. MaxCrashes
      BY CrashAssumption DEF Init
    <2>3. connected \in BOOLEAN /\ proven \in BOOLEAN /\ healthy \in BOOLEAN
      BY DEF Init
    <2> QED
      BY <1>1, <1>3, <2>1, <2>2, <2>3 DEF Init, TypeOK, Booting
  <1>5. WorkerInv /\ HostInv /\ CallInv
    BY <1>3 DEF Init, WorkerInv, HostInv, CallInv, Unanswered, Serving, Finished, Gone, Running
  <1> QED
    BY <1>4, <1>5 DEF ServerInv

LEMMA DatabaseKept ==
  ASSUME DatabaseTypeOK, UNCHANGED database
  PROVE  DatabaseTypeOK'
  BY DEF DatabaseTypeOK, database

LEMMA DatabaseStepKeepsInv ==
  ASSUME ServerInv, DatabaseStep, UNCHANGED server
  PROVE  ServerInv'
  <1> USE DEF ServerInv
  <1>1. DatabaseTypeOK'
    BY DEF DatabaseStep, Turn, Change, TypeOK, DatabaseTypeOK, Tables
  <1>2. TypeOK'
    BY <1>1 DEF TypeOK, server, process, resources, In
  <1>3. WorkerInv' /\ HostInv' /\ CallInv'
    BY DEF WorkerInv, HostInv, CallInv, server, process, resources, In
  <1> QED
    BY <1>2, <1>3

\* Steps that leave the requests alone.
LEMMA BootKeepsInv ==
  ASSUME ServerInv, BootStep
  PROVE  ServerInv'
  <1> USE DEF ServerInv
  <1>1. UNCHANGED <<database, process, call, healthy>> /\ worker \in Booting
    BY DEF BootStep, ReadSettings, PoolOpens, PoolOpenFails, ProbeAnswers, ProbeFails,
      Abandon, Booting
  <1>2. /\ worker' \in {"opening", "probing", "abandon", "failed"} \cup Serving
        /\ pool' \in {"none", "open", "closed"}
        /\ connected' \in BOOLEAN /\ proven' \in BOOLEAN
    BY DEF BootStep, ReadSettings, PoolOpens, PoolOpenFails, ProbeAnswers, ProbeFails,
      Abandon, TypeOK, resources, Serving
  <1>3. In(Running) = {} /\ In(Running)' = {} /\ arbiter \notin Gone
    BY <1>1 DEF HostInv, In, Booting, Serving, Finished
  <1>4. TypeOK'
    BY <1>1, <1>2, <1>3, DatabaseKept DEF TypeOK, process, Booting, Finished
  <1>5. WorkerInv'
    BY DEF BootStep, ReadSettings, PoolOpens, PoolOpenFails, ProbeAnswers, ProbeFails,
      Abandon, WorkerInv, resources, Serving, Finished, TypeOK
  <1>6. HostInv' /\ CallInv'
    BY <1>1, <1>3 DEF HostInv, CallInv, process
  <1> QED
    BY <1>4, <1>5, <1>6

LEMMA QuietStepKeepsInv ==
  ASSUME ServerInv,
         Reconnect \/ AtExit \/ Respawn \/ Term \/ CheckHealth \/ UNCHANGED vars
  PROVE  ServerInv'
  <1> USE DEF ServerInv
  <1>1. UNCHANGED <<database, env, crashes, call>>
    BY DEF Reconnect, AtExit, Respawn, Term, CheckHealth, vars, server, process
  <1>2. CASE Reconnect
    BY <1>1, <1>2, DatabaseKept
    DEF Reconnect, TypeOK, WorkerInv, HostInv, CallInv, In, process, Serving, Finished
  <1>3. CASE AtExit
    <2>1. In(Running) = {} /\ In(Running)' = {}
      BY <1>1, <1>3 DEF AtExit, HostInv, In, Serving
    <2>2. TypeOK'
      BY <1>1, <1>3, <2>1, DatabaseKept DEF AtExit, TypeOK, process, Finished
    <2> QED
      BY <1>1, <1>3, <2>1, <2>2
      DEF AtExit, WorkerInv, HostInv, CallInv, In, process, Serving, Finished
  <1>4. CASE Respawn
    <2>1. In(Running) = {} /\ In(Running)' = {}
      BY <1>1, <1>4 DEF Respawn, HostInv, In, Serving
    <2>2. TypeOK'
      BY <1>1, <1>4, <2>1, DatabaseKept DEF Respawn, TypeOK, process, resources, Booting
    <2> QED
      BY <1>1, <1>4, <2>1, <2>2
      DEF Respawn, WorkerInv, HostInv, CallInv, process, resources, Serving, Finished, Gone
  <1>5. CASE Term
    <2>1. TypeOK'
      BY <1>1, <1>5, DatabaseKept DEF Term, TypeOK, In, resources, Serving
    <2> QED
      BY <1>1, <1>5, <2>1
      DEF Term, WorkerInv, HostInv, CallInv, In, resources, Serving, Finished, Gone
  <1>6. CASE CheckHealth
    <2>1. healthy' \in BOOLEAN
      BY <1>6 DEF CheckHealth
    <2>2. UNCHANGED <<arbiter, worker, pool, connected, proven>>
      BY <1>6 DEF CheckHealth, process, resources
    <2> QED
      BY <1>1, <2>1, <2>2, DatabaseKept DEF TypeOK, WorkerInv, HostInv, CallInv, In
  <1>7. CASE UNCHANGED vars
    <2>1. UNCHANGED <<arbiter, worker, pool, connected, proven, healthy>>
      BY <1>7 DEF vars, server, process, resources
    <2> QED
      BY <1>1, <2>1, DatabaseKept DEF TypeOK, WorkerInv, HostInv, CallInv, In
  <1> QED
    BY <1>2, <1>3, <1>4, <1>5, <1>6, <1>7

\* Requests that lose their connection, whichever they are.
LEMMA CutKeepsCalls ==
  ASSUME ServerInv, NEW lost \in SUBSET Requests, call' = Cut(lost)
  PROVE  /\ call' \in [Requests -> Call]
         /\ CallInv'
         /\ In(Running)' = In(Running) \ lost
         /\ In(Unsettled)' = In(Unsettled) \ lost
  <1>1. Unanswered("cut") \in Call
    BY DEF Unanswered, Call, Statuses, Stages, Settled
  <1>2. call' \in [Requests -> Call]
    BY <1>1 DEF Cut, ServerInv, TypeOK
  <1>3. \A r \in Requests :
          call'[r] = IF r \in lost THEN Unanswered("cut") ELSE call[r]
    BY DEF Cut
  <1>4. Unanswered("cut").stage \notin {"new"} \cup Unsettled
    BY DEF Unanswered, Unsettled, Running
  <1>5. CallInv'
    BY <1>3, <1>4 DEF CallInv, ServerInv, Unsettled, Running
  <1>6. /\ In(Running)' = In(Running) \ lost
        /\ In(Unsettled)' = In(Unsettled) \ lost
    BY <1>3, <1>4 DEF In, Unsettled
  <1> QED
    BY <1>2, <1>5, <1>6

LEMMA QuitKeepsInv ==
  ASSUME ServerInv, Quit
  PROVE  ServerInv'
  <1> USE DEF ServerInv
  <1>1. /\ UNCHANGED <<database, process, resources, healthy>>
        /\ worker = "quitting" /\ worker' = "atexit" /\ In(Running) = {}
        /\ call' = Cut(In({"queued"}))
    BY DEF Quit
  <1>2. call' \in [Requests -> Call] /\ CallInv' /\ In(Running)' = {}
    BY <1>1, CutKeepsCalls DEF In
  <1>3. TypeOK'
    BY <1>1, <1>2, DatabaseKept DEF TypeOK, process, resources
  <1>4. WorkerInv' /\ HostInv'
    BY <1>1, <1>2 DEF WorkerInv, HostInv, process, resources, Serving, Finished
  <1> QED
    BY <1>2, <1>3, <1>4

\* However the worker dies, it leaves nothing.
LEMMA WorkerDiesKeepsInv ==
  ASSUME ServerInv, NEW lost \in SUBSET In({"queued"}), WorkerDies(lost),
         UNCHANGED <<database, env, healthy>>, crashes' \in 0 .. MaxCrashes,
         \/ UNCHANGED arbiter /\ arbiter \notin Gone
         \/ arbiter' = "killed" /\ lost = In({"queued"})
  PROVE  ServerInv'
  <1> USE DEF ServerInv
  <1>1. /\ worker' = "dead" /\ pool' = "none" /\ connected' = FALSE /\ proven' = FALSE
        /\ call' = Cut(In(Running) \cup lost)
    BY DEF WorkerDies
  <1>2. /\ call' \in [Requests -> Call] /\ CallInv' /\ In(Running)' = {}
        /\ In(Unsettled)' = In(Unsettled) \ (In(Running) \cup lost)
    BY <1>1, CutKeepsCalls DEF In
  <1>3. lost = In({"queued"}) => In(Unsettled)' = {}
    BY <1>2 DEF In, Unsettled
  <1>4. TypeOK'
    BY <1>1, <1>2, DatabaseKept DEF TypeOK, Finished, Gone
  <1>5. WorkerInv'
    BY <1>1 DEF WorkerInv, Serving, Finished
  <1>6. HostInv'
    BY <1>1, <1>2, <1>3 DEF HostInv, Finished
  <1> QED
    BY <1>2, <1>4, <1>5, <1>6

LEMMA DeathKeepsInv ==
  ASSUME ServerInv, Crash \/ BootTimeout \/ Kill \/ Die
  PROVE  ServerInv'
  <1> USE DEF ServerInv
  <1>1. crashes \in 0 .. MaxCrashes
    BY DEF TypeOK
  <1>2. CASE Crash
    <2>1. crashes' \in 0 .. MaxCrashes
      BY <1>1, <1>2, CrashAssumption DEF Crash
    <2>2. PICK lost \in SUBSET In({"queued"}) : WorkerDies(lost)
      BY <1>2 DEF Crash
    <2> QED
      BY <1>2, <2>1, <2>2, WorkerDiesKeepsInv DEF Crash
  <1>3. CASE BootTimeout \/ Kill
    <2>1. {} \in SUBSET In({"queued"}) /\ WorkerDies({})
      BY <1>3 DEF BootTimeout, Kill
    <2> QED
      BY <1>1, <1>3, <2>1, WorkerDiesKeepsInv DEF BootTimeout, Kill, process, Gone
  <1>4. CASE Die
    BY <1>1, <1>4, WorkerDiesKeepsInv DEF Die
  <1> QED
    BY <1>2, <1>3, <1>4

LEMMA HaltKeepsInv ==
  ASSUME ServerInv, Halt
  PROVE  ServerInv'
  <1> USE DEF ServerInv
  <1>1. /\ UNCHANGED <<database, env, worker, crashes, resources, healthy>>
        /\ worker \in Finished /\ arbiter' = "exited" /\ call' = Cut(In(Unsettled))
    BY DEF Halt, Finished
  <1>2. /\ call' \in [Requests -> Call] /\ CallInv'
        /\ In(Running)' = {} /\ In(Unsettled)' = {}
    BY <1>1, CutKeepsCalls DEF In, Unsettled
  <1>3. TypeOK'
    BY <1>1, <1>2, DatabaseKept DEF TypeOK, resources, Gone
  <1>4. WorkerInv' /\ HostInv'
    BY <1>1, <1>2 DEF WorkerInv, HostInv, resources
  <1> QED
    BY <1>2, <1>3, <1>4

-----------------------------------------------------------------------------
(* A request's steps.                                                       *)

\* Records of requests stay such records when fields are given values.
LEMMA StageAndId ==
  ASSUME NEW c \in Call, NEW s \in Stages, NEW x \in Ids \cup {Invalid}
  PROVE  [c EXCEPT !.stage = s, !.id = x] \in Call
  <1> DEFINE d == [c EXCEPT !.stage = s]
  <1>1. d \in Call
    BY DEF Call
  <1>2. [c EXCEPT !.stage = s, !.id = x] = [d EXCEPT !.id = x]
    OBVIOUS
  <1> HIDE DEF d
  <1>3. [d EXCEPT !.id = x] \in Call
    BY <1>1 DEF Call
  <1> QED
    BY <1>2, <1>3

LEMMA StageAndRow ==
  ASSUME NEW c \in Call, NEW s \in Stages, NEW x \in Rows \cup {NoRow, Unread}
  PROVE  [c EXCEPT !.stage = s, !.row = x] \in Call
  <1> DEFINE d == [c EXCEPT !.stage = s]
  <1>1. d \in Call
    BY DEF Call
  <1>2. [c EXCEPT !.stage = s, !.row = x] = [d EXCEPT !.row = x]
    OBVIOUS
  <1> HIDE DEF d
  <1>3. [d EXCEPT !.row = x] \in Call
    BY <1>1 DEF Call
  <1> QED
    BY <1>2, <1>3

LEMMA StageAndStatus ==
  ASSUME NEW c \in Call, NEW s \in Stages, NEW x \in Statuses
  PROVE  [c EXCEPT !.stage = s, !.status = x] \in Call
  <1> DEFINE d == [c EXCEPT !.stage = s]
  <1>1. d \in Call
    BY DEF Call
  <1>2. [c EXCEPT !.stage = s, !.status = x] = [d EXCEPT !.status = x]
    OBVIOUS
  <1> HIDE DEF d
  <1>3. [d EXCEPT !.status = x] \in Call
    BY <1>1 DEF Call
  <1> QED
    BY <1>2, <1>3

LEMMA ReplyRecord ==
  ASSUME call \in [Requests -> Call], NEW r \in Requests,
         NEW status \in Statuses, Reply(r, status)
  PROVE  /\ call' \in [Requests -> Call]
         /\ call'[r].stage = "answered" /\ call'[r].status = status
         /\ call'[r].id = call[r].id /\ call'[r].row = call[r].row
         /\ \A q \in Requests \ {r} : call'[q] = call[q]
  <1> DEFINE c == [call[r] EXCEPT !.stage = "answered", !.status = status]
  <1>0. call' = [call EXCEPT ![r].stage = "answered", ![r].status = status]
    BY DEF Reply
  <1>1. call' = [call EXCEPT ![r] = c]
    BY <1>0
  <1>2. call[r] \in Call /\ "answered" \in Stages
    BY DEF Stages, Settled
  <1>3. c \in Call
    BY <1>2, StageAndStatus
  <1>4. /\ c.stage = "answered" /\ c.status = status
        /\ c.id = call[r].id /\ c.row = call[r].row
    BY <1>2 DEF Call
  <1> HIDE DEF c
  <1> QED
    BY <1>1, <1>3, <1>4

LEMMA LookupIsRead ==
  ASSUME DatabaseTypeOK, NEW id
  PROVE  Lookup(id) \in Rows \cup {NoRow} /\ Lookup(id) # Unread
  BY EnvironmentAssumption DEF Lookup, DatabaseTypeOK, Tables

LEMMA ParsedIsId ==
  ASSUME NEW text \in Texts
  PROVE  Parsed[text] \in Ids
  BY DEF Ids

\* What a step leaves alone, and what the request's own record becomes.
LEMMA RequestRecord ==
  ASSUME ServerInv, NEW r \in Requests, Arrive(r) \/ RequestStep(r)
  PROVE  /\ UNCHANGED <<database, process, worker, pool, proven, healthy>>
         /\ connected' \in BOOLEAN
         /\ call' \in [Requests -> Call]
         /\ \A q \in Requests \ {r} : call'[q] = call[q]
         /\ \/ /\ arbiter = "running" /\ call[r].stage = "new" /\ call'[r].stage = "queued"
               /\ call'[r].id \in Ids /\ call'[r].row = Unread /\ call'[r].status = 0
            \/ /\ worker \in Serving
               /\ \/ /\ call[r].stage = "queued" /\ call'[r].stage = "acquiring"
                     /\ In(Running) = {}
                     /\ call'[r].id = call[r].id /\ call'[r].id # Invalid
                     /\ call'[r].row = Unread /\ call'[r].status = 0
                  \/ /\ call[r].stage = "queued" /\ call'[r].stage = "answered"
                     /\ call[r].id = Invalid /\ call'[r].id = Invalid
                     /\ call'[r].row = call[r].row /\ call'[r].status = 400
                  \/ /\ call[r].stage = "acquiring" /\ call'[r].stage = "executing"
                     /\ call'[r].id = call[r].id
                     /\ call'[r].row = Unread /\ call'[r].status = 0
                  \/ /\ call[r].stage = "executing" /\ call'[r].stage = "read"
                     /\ call'[r].id = call[r].id /\ call'[r].status = 0
                     /\ call'[r].row = Lookup(call[r].id) /\ call'[r].row # Unread
                  \/ /\ call[r].stage = "read" /\ call'[r].stage = "answered"
                     /\ call'[r].id = call[r].id /\ call'[r].row = call[r].row
                     /\ call'[r].status = IF call[r].row = NoRow THEN 404 ELSE 200
                  \/ /\ call[r].stage \in Running /\ call'[r].stage = "answered"
                     /\ call'[r].id = call[r].id /\ call'[r].row = call[r].row
                     /\ call'[r].status = 500 /\ (AcquireFails(r) \/ Fail(r))
  <1> USE DEF ServerInv
  <1>0. /\ call \in [Requests -> Call] /\ call[r] \in Call /\ connected \in BOOLEAN
        /\ {200, 400, 404, 500} \in SUBSET Statuses
    BY DEF TypeOK, Statuses
  <1>1. call[r].stage \in Running => worker \in Serving
    BY DEF HostInv, In
  <1>2. CASE Arrive(r)
    <2>1. PICK text \in Texts :
            call' = [call EXCEPT ![r].stage = "queued", ![r].id = Parsed[text]]
      BY <1>2 DEF Arrive
    <2> DEFINE c == [call[r] EXCEPT !.stage = "queued", !.id = Parsed[text]]
    <2>2. call' = [call EXCEPT ![r] = c]
      BY <2>1
    <2>3. c \in Call
      BY <1>0, StageAndId, ParsedIsId DEF Stages, Unsettled
    <2>4. /\ c.stage = "queued" /\ c.id = Parsed[text]
          /\ c.row = call[r].row /\ c.status = call[r].status
      BY <1>0 DEF Call
    <2>5. /\ call[r].stage = "new" /\ call[r].row = Unread /\ call[r].status = 0
          /\ arbiter = "running"
          /\ UNCHANGED <<database, process, worker, resources, healthy>>
      BY <1>2 DEF Arrive, CallInv
    <2> HIDE DEF c
    <2> QED
      BY <1>0, <2>2, <2>3, <2>4, <2>5, ParsedIsId DEF resources
  <1>3. CASE Begin(r)
    <2>1. /\ worker \in Serving /\ call[r].stage = "queued" /\ In(Running) = {}
          /\ call[r].row = Unread /\ call[r].status = 0
          /\ UNCHANGED <<database, process, worker, resources, healthy>>
      BY <1>3 DEF Begin, CallInv, Unsettled
    <2>2. CASE call[r].id = Invalid
      <3>1. Reply(r, 400)
        BY <1>3, <2>2 DEF Begin
      <3> QED
        BY <1>0, <2>1, <2>2, <3>1, ReplyRecord DEF resources
    <2>3. CASE call[r].id # Invalid
      <3>1. call' = [call EXCEPT ![r].stage = "acquiring"]
        BY <1>3, <2>3 DEF Begin
      <3>2. call'[r] = [call[r] EXCEPT !.stage = "acquiring"]
        BY <1>0, <3>1
      <3>3. call'[r] \in Call /\ call' = [call EXCEPT ![r] = call'[r]]
        BY <1>0, <3>1, <3>2 DEF Call, Stages, Unsettled, Running
      <3> QED
        BY <1>0, <2>1, <2>3, <3>2, <3>3 DEF Call, resources
    <2> QED
      BY <2>2, <2>3
  <1>4. CASE Acquire(r)
    <2>1. call'[r] = [call[r] EXCEPT !.stage = "executing"]
      BY <1>0, <1>4 DEF Acquire
    <2>2. call'[r] \in Call /\ call' = [call EXCEPT ![r] = call'[r]]
      BY <1>0, <1>4, <2>1 DEF Acquire, Call, Stages, Unsettled, Running
    <2>3. /\ call[r].stage = "acquiring" /\ call[r].row = Unread /\ call[r].status = 0
          /\ call[r].stage \in Running
          /\ UNCHANGED <<database, process, worker, resources, healthy>>
      BY <1>4 DEF Acquire, CallInv, Unsettled, Running
    <2> QED
      BY <1>0, <1>1, <2>1, <2>2, <2>3 DEF Call, resources
  <1>5. CASE Execute(r)
    <2> DEFINE c == [call[r] EXCEPT !.stage = "read", !.row = Lookup(call[r].id)]
    <2>1. call' = [call EXCEPT ![r] = c]
      BY <1>5 DEF Execute
    <2>2. Lookup(call[r].id) \in Rows \cup {NoRow} /\ Lookup(call[r].id) # Unread
      BY LookupIsRead DEF TypeOK
    <2>3. c \in Call
      BY <1>0, <2>2, StageAndRow DEF Stages, Unsettled, Running
    <2>4. /\ c.stage = "read" /\ c.row = Lookup(call[r].id)
          /\ c.id = call[r].id /\ c.status = call[r].status
      BY <1>0 DEF Call
    <2>5. /\ call[r].stage = "executing" /\ call[r].status = 0
          /\ call[r].stage \in Running
          /\ UNCHANGED <<database, process, worker, resources, healthy>>
      BY <1>5 DEF Execute, CallInv, Unsettled, Running
    <2> HIDE DEF c
    <2> QED
      BY <1>0, <1>1, <2>1, <2>2, <2>3, <2>4, <2>5 DEF resources
  <1>6. CASE Commit(r)
    <2>1. /\ call[r].stage = "read" /\ call[r].stage \in Running
          /\ UNCHANGED <<database, process, worker, resources, healthy>>
      BY <1>6 DEF Commit, Running
    <2> QED
      BY <1>0, <1>1, <1>6, <2>1, ReplyRecord DEF Commit, resources
  <1>7. CASE AcquireFails(r)
    <2>1. /\ call[r].stage \in Running
          /\ UNCHANGED <<database, process, worker, resources, healthy>>
      BY <1>7 DEF AcquireFails, Running
    <2> QED
      BY <1>0, <1>1, <1>7, <2>1, ReplyRecord DEF AcquireFails, resources
  <1>8. CASE Fail(r)
    <2>1. call[r].stage \in Running
      BY <1>8 DEF Fail, Running
    <2> QED
      BY <1>0, <1>1, <1>8, <2>1, ReplyRecord DEF Fail
  <1> QED
    BY <1>2, <1>3, <1>4, <1>5, <1>6, <1>7, <1>8 DEF RequestStep

LEMMA RequestsKeepInv ==
  ASSUME ServerInv, NEW r \in Requests, Arrive(r) \/ RequestStep(r)
  PROVE  ServerInv'
  <1> USE DEF ServerInv
  <1>1. /\ UNCHANGED <<database, process, worker, pool, proven, healthy>>
        /\ connected' \in BOOLEAN /\ call' \in [Requests -> Call]
        /\ \A q \in Requests \ {r} : call'[q] = call[q]
    BY RequestRecord
  <1>2. call'[r].stage \in Running =>
          /\ worker \in Serving
          /\ In(Running) = {} \/ call[r].stage \in Running
    BY RequestRecord DEF Running
  <1>3. CallInv'
    <2>1. /\ call'[r].stage # "new"
          /\ call'[r].stage \in {"queued", "acquiring", "executing"} => call'[r].row = Unread
          /\ call'[r].stage \in Unsettled => call'[r].status = 0
          /\ call'[r].stage = "read" => call'[r].row # Unread
      BY RequestRecord DEF Unsettled, Running
    <2>2. call'[r].stage \in Running => call'[r].id # Invalid
      <3>1. call[r].stage \in Running => call[r].id # Invalid
        BY DEF CallInv
      <3> QED
        BY <3>1, RequestRecord DEF Running
    <2> QED
      BY <1>1, <2>1, <2>2 DEF CallInv
  <1>4. \A p, q \in In(Running)' : p = q
    BY <1>1, <1>2 DEF TypeOK, In
  <1>5. TypeOK'
    <2>1. UNCHANGED <<env, arbiter, crashes>>
      BY <1>1 DEF process
    <2> QED
      BY <1>1, <1>4, <2>1, DatabaseKept DEF TypeOK
  <1>6. WorkerInv'
    <2>1. worker \in {"boot", "opening"} \cup Finished => connected' = connected
      BY RequestRecord DEF Arrive, RequestStep, Begin, Acquire, AcquireFails, Execute, Commit,
        Fail, resources, HostInv, In, Running, Serving, Finished
    <2> QED
      BY <1>1, <2>1 DEF WorkerInv
  <1>7. HostInv'
    <2>1. In(Running)' # {} => worker \in Serving
      BY <1>1, <1>2 DEF HostInv, In
    <2>2. arbiter \notin Gone
      BY RequestRecord DEF HostInv, In, Unsettled, Running, Gone, Serving, Finished
    <2> QED
      BY <1>1, <2>1, <2>2 DEF HostInv, process
  <1> QED
    BY <1>3, <1>5, <1>6, <1>7

\* Every step keeps the invariant.
LEMMA NextKeepsInv ==
  ASSUME ServerInv, [Next]_vars
  PROVE  ServerInv'
  <1>1. CASE BootStep
    BY <1>1, BootKeepsInv
  <1>2. CASE ExitStep
    BY <1>2, QuitKeepsInv, QuietStepKeepsInv DEF ExitStep
  <1>3. ASSUME NEW r \in Requests, Arrive(r) \/ RequestStep(r)
        PROVE  ServerInv'
    BY <1>3, RequestsKeepInv
  <1>4. CASE ArbiterStep
    BY <1>4, DeathKeepsInv, QuietStepKeepsInv, HaltKeepsInv DEF ArbiterStep
  <1>5. CASE Reconnect \/ Term \/ CheckHealth \/ UNCHANGED vars
    BY <1>5, QuietStepKeepsInv
  <1>6. CASE Crash \/ Die
    BY <1>6, DeathKeepsInv
  <1>7. CASE DatabaseStep /\ UNCHANGED server
    BY <1>7, DatabaseStepKeepsInv
  <1> QED
    BY <1>1, <1>2, <1>3, <1>4, <1>5, <1>6, <1>7 DEF Next

-----------------------------------------------------------------------------

\* The inductive invariant holds throughout: the worker against its pool and the
\* arbiter, and the requests against the worker (server.py, database.py).
THEOREM Invariance == Spec => []ServerInv
  <1>1. Init => ServerInv
    BY InitInv
  <1>2. ServerInv /\ [Next]_vars => ServerInv'
    BY NextKeepsInv
  <1> QED
    BY <1>1, <1>2, PTL DEF Spec

\* Every variable keeps its type, and the worker's one thread runs one request.
THEOREM TypesHold == Spec => []TypeOK
  BY Invariance, PTL DEF ServerInv

\* A request that runs finds the pool open: not the signal, but the end of the
\* thread comes before close_pool (server.py's atexit).
THEOREM PoolIsClosedLast == Spec => []PoolOutlivesRequests
  <1>1. ServerInv => PoolOutlivesRequests
    BY DEF ServerInv, HostInv, WorkerInv, PoolOutlivesRequests
  <1> QED
    BY <1>1, Invariance, PTL

\* A worker that fails to start or is told to stop leaves no pool open
\* (open_pool's except, close_pool).
THEOREM WorkersCleanUp == Spec => []CleanWorkerExit
  <1>1. ServerInv => CleanWorkerExit
    BY DEF ServerInv, WorkerInv, CleanWorkerExit, Finished
  <1> QED
    BY <1>1, Invariance, PTL

\* The container is found healthy only when a query was answered to this very
\* worker (healthcheck.py, open_pool).
THEOREM HealthIsProven == Spec => HealthyMeansProven
  <1>1. ServerInv /\ [Next]_vars =>
          [(healthy' /\ ~healthy) => (proven /\ pool = "open")]_vars
    <2> SUFFICES ASSUME ServerInv, Next, healthy' # healthy, healthy'
                 PROVE  proven /\ pool = "open"
      BY DEF ServerInv, TypeOK, vars, server
    <2>1. CheckHealth
      BY RequestRecord DEF Next, BootStep, ReadSettings, PoolOpens, PoolOpenFails, ProbeAnswers,
        ProbeFails, Abandon, ExitStep, Quit, AtExit, Reconnect, ArbiterStep, BootTimeout,
        Respawn, Kill, Halt, Term, Crash, Die, server
    <2>2. worker = "serving"
      BY <2>1 DEF CheckHealth
    <2> QED
      BY <2>2 DEF ServerInv, WorkerInv, Serving
  <1> QED
    BY <1>1, Invariance, PTL DEF Spec, HealthyMeansProven

-----------------------------------------------------------------------------
(* The answers.                                                             *)

\* What a step may do to a request: nothing, cut it, or be its own.
LEMMA CallStep ==
  ASSUME ServerInv, Next, NEW r \in Requests
  PROVE  \/ call'[r] = call[r]
         \/ call[r].stage \notin Settled /\ call'[r] = Unanswered("cut")
         \/ Arrive(r) \/ RequestStep(r)
  <1>1. CASE BootStep \/ Reconnect \/ Term \/ CheckHealth \/ AtExit \/ Respawn
    BY <1>1 DEF BootStep, ReadSettings, PoolOpens, PoolOpenFails, ProbeAnswers, ProbeFails,
      Abandon, Reconnect, Term, CheckHealth, AtExit, Respawn
  <1>2. CASE Quit \/ BootTimeout \/ Kill \/ Halt \/ Crash \/ Die
    <2>1. \E lost \in SUBSET In(Unsettled) : call' = Cut(lost)
      BY <1>2 DEF Quit, BootTimeout, Kill, Halt, Crash, Die, WorkerDies, In, Unsettled
    <2> QED
      BY <2>1 DEF Cut, In, Unsettled, Running, Settled
  <1>3. ASSUME NEW q \in Requests, Arrive(q) \/ RequestStep(q)
        PROVE  call'[r] = call[r] \/ Arrive(r) \/ RequestStep(r)
    BY <1>3, RequestRecord
  <1>4. CASE DatabaseStep /\ UNCHANGED server
    BY <1>4 DEF server
  <1> QED
    BY <1>1, <1>2, <1>3, <1>4 DEF Next, ExitStep, ArbiterStep

\* A request is answered once or cut once, and that is the end of it: a worker
\* that replaces another does not take up again what was answered, and no late
\* result or signal changes what was sent (db_item under Gunicorn).
THEOREM SettledOnce ==
  Spec => [][\A r \in Requests : call[r].stage \in Settled => call'[r] = call[r]]_vars
  <1>1. ServerInv /\ [Next]_vars =>
          [\A r \in Requests : call[r].stage \in Settled => call'[r] = call[r]]_vars
    <2> SUFFICES ASSUME ServerInv, Next, NEW r \in Requests, call[r].stage \in Settled
                 PROVE  call'[r] = call[r]
      OBVIOUS
    <2>1. ~(Arrive(r) \/ RequestStep(r))
      BY DEF Arrive, RequestStep, Begin, Acquire, AcquireFails, Execute, Commit, Fail, Settled,
        Running
    <2> QED
      BY <2>1, CallStep
  <1> QED
    BY <1>1, Invariance, PTL DEF Spec

\* What is answered 400 is what carries no id, whatever became of the server or
\* the database since it arrived (parse_id before pool.connection in db_item).
RefusedByIdAlone ==
  \A r \in Requests :
    call[r].stage = "answered" => (call[r].status = 400 <=> call[r].id = Invalid)

\* No request with an id is refused, and none without one is answered otherwise
\* or reaches the pool (db_item).
THEOREM RefusalsAreByIdAlone == Spec => []RefusedByIdAlone
  <1>1. Init => RefusedByIdAlone
    BY DEF Init, RefusedByIdAlone, Unanswered
  <1>2. ServerInv /\ RefusedByIdAlone /\ [Next]_vars => RefusedByIdAlone'
    <2> SUFFICES ASSUME ServerInv, RefusedByIdAlone, [Next]_vars, NEW r \in Requests,
                        call'[r].stage = "answered"
                 PROVE  call'[r].status = 400 <=> call'[r].id = Invalid
      BY DEF RefusedByIdAlone
    <2>1. CASE call'[r] = call[r]
      BY <2>1 DEF RefusedByIdAlone
    <2>2. CASE Arrive(r) \/ RequestStep(r)
      <3>1. call[r].stage \in Running => call[r].id # Invalid
        BY DEF ServerInv, CallInv
      <3> QED
        BY <2>2, <3>1, RequestRecord DEF Running
    <2>3. call'[r] # Unanswered("cut")
      BY DEF Unanswered
    <2> QED
      BY <2>1, <2>2, <2>3, CallStep DEF vars, server
  <1> QED
    BY <1>1, <1>2, Invariance, PTL DEF Spec

\* A request fails, or a pool is without its connection, only when the database
\* has been away.
FailuresNeedTrouble ==
  /\ \A r \in Requests : call[r].status = 500 => trouble
  /\ worker \in Serving /\ ~connected => trouble

\* A worker asks its first query over the connection that opened its pool.
ProbesConnected == worker = "probing" => connected

\* Neither load nor a worker that was killed and replaced makes db_item answer
\* 500: its one connection is given back before the next request is begun, and a
\* worker that serves has had one (pool.connection's timeout).
THEOREM LoadMakesNoErrors == Spec => []FailuresNeedTrouble
  <1> DEFINE Inv == FailuresNeedTrouble /\ ProbesConnected
  <1>1. Init => Inv
    BY DEF Init, FailuresNeedTrouble, ProbesConnected, Unanswered, Serving
  <1>2. ServerInv /\ Inv /\ [Next]_vars => Inv'
    <2> SUFFICES ASSUME ServerInv, Inv, [Next]_vars
                 PROVE  Inv'
      OBVIOUS
    <2>1. CASE UNCHANGED vars
      BY <2>1 DEF vars, server, process, resources, database, FailuresNeedTrouble,
        ProbesConnected
    <2>2. CASE Next
      <3>1. trouble => trouble'
        <4>1. CASE UNCHANGED database
          BY <4>1 DEF database
        <4>2. CASE DatabaseStep
          BY <4>2 DEF DatabaseStep, Turn, Change
        <4> QED
          BY <2>2, <4>1, <4>2, RequestRecord DEF Next, BootStep, ReadSettings, PoolOpens,
            PoolOpenFails, ProbeAnswers, ProbeFails, Abandon, ExitStep, Quit, AtExit,
            Reconnect, ArbiterStep, BootTimeout, Respawn, Kill, Halt, Term, Crash, Die,
            CheckHealth
      <3>2. worker' \in Serving \cup {"probing"} /\ ~connected' =>
              trouble' /\ worker' \in Serving
        <4>1. ASSUME NEW r \in Requests, Arrive(r) \/ RequestStep(r)
              PROVE  worker' \in Serving \cup {"probing"} /\ ~connected' =>
                       trouble' /\ worker' \in Serving
          <5>1. UNCHANGED <<worker, trouble>>
            BY <4>1, RequestRecord DEF database
          <5>2. connected' = connected \/ (trouble /\ worker \in Serving)
            BY <4>1 DEF Arrive, RequestStep, Begin, Acquire, AcquireFails, Execute, Commit,
              Fail, resources, ServerInv, HostInv, In, Running
          <5> QED
            BY <5>1, <5>2 DEF FailuresNeedTrouble, ProbesConnected
        <4>2. CASE BootStep
          BY <4>2, <3>1 DEF BootStep, ReadSettings, PoolOpens, PoolOpenFails, ProbeAnswers,
            ProbeFails, Abandon, resources, Serving, FailuresNeedTrouble, ProbesConnected
        <4>3. CASE ExitStep \/ Reconnect \/ ArbiterStep \/ Crash \/ Die
          BY <4>3, <3>1 DEF ExitStep, Quit, AtExit, Reconnect, ArbiterStep, BootTimeout, Respawn,
            Kill, Halt, WorkerDies, Crash, Die, resources, Serving, FailuresNeedTrouble,
            ProbesConnected
        <4>4. CASE Term \/ CheckHealth \/ (DatabaseStep /\ UNCHANGED server)
          BY <4>4, <3>1 DEF Term, CheckHealth, server, resources, Serving,
            FailuresNeedTrouble, ProbesConnected
        <4> QED
          BY <2>2, <4>1, <4>2, <4>3, <4>4 DEF Next
      <3>3. ASSUME NEW r \in Requests, call'[r].status = 500
            PROVE  trouble'
        <4>1. CASE call'[r] = call[r]
          BY <3>1, <3>3, <4>1 DEF FailuresNeedTrouble
        <4>2. CASE Arrive(r) \/ RequestStep(r)
          <5>1. AcquireFails(r) \/ Fail(r)
            BY <3>3, <4>2, RequestRecord
          <5>2. AcquireFails(r) => (worker \in Serving /\ ~connected)
            BY DEF AcquireFails, ServerInv, HostInv, In, Running
          <5> QED
            BY <3>1, <5>1, <5>2 DEF Fail, FailuresNeedTrouble
        <4> QED
          BY <2>2, <3>3, <4>1, <4>2, CallStep DEF Unanswered
      <3> QED
        BY <3>2, <3>3 DEF FailuresNeedTrouble, ProbesConnected, Serving
    <2> QED
      BY <2>1, <2>2
  <1>3. Inv => FailuresNeedTrouble
    OBVIOUS
  <1> HIDE DEF Inv
  <1> QED
    BY <1>1, <1>2, <1>3, Invariance, PTL DEF Spec

\* Nobody writes, adds or deletes the row of this id.
RowStands(id) == [][Lookup(id)' = Lookup(id)]_vars

\* A request for this id that was answered with a row, or with there being none,
\* got the one the table has.
AnswersShow(id) ==
  \A r \in Requests :
    (call[r].id = id /\ call[r].status \in {200, 404}) =>
      /\ call[r].row = Lookup(id)
      /\ call[r].status = IF Lookup(id) = NoRow THEN 404 ELSE 200

\* So did one whose row was read and which is not answered yet.
ReadShow(id) ==
  \A r \in Requests :
    (call[r].id = id /\ call[r].stage = "read") => call[r].row = Lookup(id)

\* While the row of an id stands, every answer for that id shows it, and 404 is
\* answered exactly when there is none, also over a connection that served other
\* requests and by a worker that replaced another (db_item's execute, fetchone
\* and what it makes of the result).
THEOREM AnswersAreTheTables ==
  ASSUME NEW id
  PROVE  Spec /\ RowStands(id) => []AnswersShow(id)
  <1> DEFINE Shown == AnswersShow(id) /\ ReadShow(id)
             Stands == Lookup(id)' = Lookup(id)
  <1>1. Init => Shown
    BY DEF Init, AnswersShow, ReadShow, Unanswered
  <1>2. ServerInv /\ Shown /\ [Next]_vars /\ [Stands]_vars => Shown'
    <2> SUFFICES ASSUME ServerInv, Shown, [Next]_vars, [Stands]_vars
                 PROVE  Shown'
      OBVIOUS
    <2>1. CASE UNCHANGED vars
      BY <2>1 DEF vars, server, database, AnswersShow, ReadShow, Lookup
    <2>2. ASSUME Next, Lookup(id)' = Lookup(id), NEW r \in Requests
          PROVE  /\ (call'[r].id = id /\ call'[r].status \in {200, 404}) =>
                      /\ call'[r].row = Lookup(id)
                      /\ call'[r].status = IF Lookup(id) = NoRow THEN 404 ELSE 200
                 /\ (call'[r].id = id /\ call'[r].stage = "read") =>
                      call'[r].row = Lookup(id)
      <3>1. CASE call'[r] = call[r]
        BY <3>1 DEF AnswersShow, ReadShow
      <3>2. CASE call'[r] = Unanswered("cut")
        BY <3>2 DEF Unanswered
      <3>3. CASE Arrive(r) \/ RequestStep(r)
        BY <3>3, RequestRecord DEF ReadShow
      <3> QED
        BY <2>2, <3>1, <3>2, <3>3, CallStep
    <2>3. ASSUME Next, Lookup(id)' = Lookup(id)
          PROVE  Shown'
      BY <2>2, <2>3 DEF AnswersShow, ReadShow
    <2> QED
      BY <2>1, <2>3
  <1>3. Shown => AnswersShow(id)
    OBVIOUS
  <1> HIDE DEF Shown
  <1> QED
    BY <1>1, <1>2, <1>3, Invariance, PTL DEF Spec, RowStands

-----------------------------------------------------------------------------
(* The refinement of ItemService.                                           *)

LEMMA InitRefines == Init => Items!Init
  <1> SUFFICES ASSUME Init PROVE Items!Init
    OBVIOUS
  <1>1. items \in Items!Tables
    BY DEF Init, DatabaseInit, Tables, Items!Tables
  <1>2. Service = "closed"
    BY DEF Init, Service, Gone, Serving
  <1>3. Mapped(Unanswered("new")) = Items!Unanswered("new")
    BY DEF Mapped, Unanswered, Unsettled, Running, Items!Unanswered
  <1>4. Calls = [r \in Requests |-> Items!Unanswered("new")]
    BY <1>3 DEF Init, Calls
  <1> QED
    BY <1>1, <1>2, <1>4 DEF Items!Init

LEMMA SentAreUnsettled ==
  ASSUME ServerInv
  PROVE  Items!Sent = In(Unsettled)
  <1>1. \A r \in Requests : Calls[r].phase = "sent" <=> call[r].stage \in Unsettled
    <2> TAKE r \in Requests
    <2>1. call[r].stage \in {"new", "answered", "cut"} \cup Unsettled
      BY DEF ServerInv, TypeOK, Call, Stages, Settled
    <2> QED
      BY <2>1 DEF Calls, Mapped, Unsettled, Running
  <1> QED
    BY <1>1 DEF Items!Sent, In

LEMMA CutIsCut ==
  ASSUME NEW lost, call' = Cut(lost)
  PROVE  Calls' = Items!CutCalls(lost)
  <1>1. Mapped(Unanswered("cut")) = Items!Unanswered("cut")
    BY DEF Mapped, Unanswered, Unsettled, Running, Items!Unanswered
  <1>2. \A r \in Requests :
          Mapped(call'[r]) = IF r \in lost THEN Items!Unanswered("cut") ELSE Mapped(call[r])
    BY <1>1 DEF Cut
  <1> QED
    BY <1>2 DEF Calls, Items!CutCalls

LEMMA BootRefines ==
  ASSUME ServerInv, BootStep
  PROVE  [Items!Next]_<<items, Service, Calls>>
  <1>1. arbiter \notin Gone /\ UNCHANGED <<items, arbiter, call>>
    BY DEF BootStep, ReadSettings, PoolOpens, PoolOpenFails, ProbeAnswers, ProbeFails,
      Abandon, ServerInv, HostInv, Finished, database, process
  <1>2. UNCHANGED Calls
    BY <1>1 DEF Calls
  <1>3. CASE ProbeAnswers
    <2>1. Service = "closed" /\ Service' = "open"
      BY <1>1, <1>3 DEF Service, ProbeAnswers, Serving
    <2> QED
      BY <1>1, <1>2, <2>1 DEF Items!Next, Items!Open
  <1>4. CASE ~ProbeAnswers
    <2>1. worker \notin Serving /\ worker' \notin Serving
      BY <1>4 DEF BootStep, ReadSettings, PoolOpens, PoolOpenFails, ProbeFails, Abandon, Serving
    <2>2. UNCHANGED Service
      BY <1>1, <2>1 DEF Service
    <2> QED
      BY <1>1, <1>2, <2>2
  <1> QED
    BY <1>3, <1>4

LEMMA QuietStepRefines ==
  ASSUME ServerInv,
         Reconnect \/ AtExit \/ Respawn \/ Term \/ CheckHealth \/ UNCHANGED vars
  PROVE  [Items!Next]_<<items, Service, Calls>>
  <1>1. UNCHANGED <<items, call>>
    BY DEF Reconnect, AtExit, Respawn, Term, CheckHealth, vars, server, database
  <1>2. UNCHANGED Service
    <2>1. arbiter' \in Gone <=> arbiter \in Gone
      BY DEF Reconnect, AtExit, Respawn, Term, CheckHealth, vars, server, process, Gone
    <2>2. worker' \in Serving <=> worker \in Serving
      BY DEF Reconnect, AtExit, Respawn, Term, CheckHealth, vars, server, Serving
    <2> QED
      BY <2>1, <2>2 DEF Service
  <1> QED
    BY <1>1, <1>2 DEF Calls

\* A worker that stops serving, whatever the reason, closes the service to the
\* requests it had taken over; the others have not been looked at.
LEMMA StoppingRefines ==
  ASSUME ServerInv, NEW lost \in SUBSET In(Unsettled), call' = Cut(lost),
         In(Running) \in SUBSET lost,
         arbiter \notin Gone, UNCHANGED <<items, arbiter>>,
         worker \in Serving \/ lost = {}, worker' \notin Serving
  PROVE  [Items!Next]_<<items, Service, Calls>>
  <1>1. Calls' = Items!CutCalls(lost)
    BY CutIsCut
  <1>2. Service' = "closed"
    BY DEF Service
  <1>3. CASE worker \in Serving
    <2>1. Service = "open"
      BY <1>3 DEF Service
    <2>2. lost \in SUBSET Items!Sent
      BY SentAreUnsettled
    <2>3. \A r \in Items!Sent \ lost : Calls[r].row = Unread
      BY SentAreUnsettled DEF In, Unsettled, Calls, Mapped, ServerInv, CallInv
    <2> QED
      BY <1>1, <1>2, <2>1, <2>2, <2>3 DEF Items!Next, Items!Close
  <1>4. CASE worker \notin Serving
    <2>1. UNCHANGED Service
      BY <1>2, <1>4 DEF Service
    <2>2. UNCHANGED Calls
      BY <1>1, <1>4 DEF Items!CutCalls, Calls
    <2> QED
      BY <2>1, <2>2
  <1> QED
    BY <1>3, <1>4

LEMMA EndRefines ==
  ASSUME ServerInv, call' = Cut(In(Unsettled)), UNCHANGED items,
         arbiter \notin Gone, arbiter' \in Gone
  PROVE  [Items!Next]_<<items, Service, Calls>>
  <1>1. Calls' = Items!CutCalls(Items!Sent)
    BY CutIsCut, SentAreUnsettled
  <1>2. Service # "ended" /\ Service' = "ended"
    BY DEF Service
  <1> QED
    BY <1>1, <1>2 DEF Items!Next, Items!End

LEMMA HostRefines ==
  ASSUME ServerInv, Quit \/ Crash \/ BootTimeout \/ Kill \/ Halt \/ Die
  PROVE  [Items!Next]_<<items, Service, Calls>>
  <1> USE DEF ServerInv
  <1>1. UNCHANGED items
    BY DEF Quit, Crash, BootTimeout, Kill, Halt, Die, database
  <1>2. In(Running) \cup In({"queued"}) = In(Unsettled)
    BY DEF In, Unsettled
  <1>3. In(Running) # {} => worker \in Serving
    BY DEF HostInv
  <1>4. CASE Quit
    <2>1. /\ worker \in Serving /\ worker' \notin Serving /\ In(Running) = {}
          /\ arbiter \notin Gone /\ UNCHANGED arbiter /\ call' = Cut(In({"queued"}))
      BY <1>4 DEF Quit, HostInv, Serving, Finished, process
    <2> QED
      BY <1>1, <1>2, <2>1, StoppingRefines
  <1>5. ASSUME NEW lost \in SUBSET In({"queued"}), WorkerDies(lost),
               arbiter \notin Gone, UNCHANGED arbiter, lost # {} => worker \in Serving
        PROVE  [Items!Next]_<<items, Service, Calls>>
    <2>1. call' = Cut(In(Running) \cup lost) /\ worker' \notin Serving
      BY <1>5 DEF WorkerDies, Serving
    <2>2. In(Running) \cup lost \in SUBSET In(Unsettled)
      BY <1>2
    <2>3. worker \in Serving \/ In(Running) \cup lost = {}
      BY <1>3, <1>5
    <2> QED
      BY <1>1, <1>5, <2>1, <2>2, <2>3, StoppingRefines
  <1>6. CASE Crash
    <2>1. PICK lost \in SUBSET In({"queued"}) :
            (lost # {} => worker \in Serving) /\ WorkerDies(lost)
      BY <1>6 DEF Crash
    <2> QED
      BY <1>5, <1>6, <2>1 DEF Crash
  <1>7. CASE BootTimeout \/ Kill
    <2>1. {} \in SUBSET In({"queued"}) /\ WorkerDies({}) /\ arbiter \notin Gone
          /\ UNCHANGED arbiter
      BY <1>7 DEF BootTimeout, Kill, Gone, process
    <2> QED
      BY <1>5, <2>1
  <1>8. CASE Halt
    BY <1>1, <1>8, EndRefines DEF Halt, Gone
  <1>9. CASE Die
    BY <1>1, <1>2, <1>9, EndRefines DEF Die, WorkerDies, Gone
  <1> QED
    BY <1>4, <1>6, <1>7, <1>8, <1>9

LEMMA DatabaseRefines ==
  ASSUME ServerInv, DatabaseStep, UNCHANGED server
  PROVE  [Items!Next]_<<items, Service, Calls>>
  <1>1. UNCHANGED <<Service, Calls>>
    BY DEF server, process, Service, Calls
  <1>2. UNCHANGED items \/ items' \in Items!Tables
    BY DEF DatabaseStep, Turn, Change, Tables, Items!Tables
  <1> QED
    BY <1>1, <1>2 DEF Items!Next, Items!Change

LEMMA RequestRefines ==
  ASSUME ServerInv, NEW r \in Requests, Arrive(r) \/ RequestStep(r)
  PROVE  [Items!Next]_<<items, Service, Calls>>
  <1> DEFINE c == call[r]
             d == call'[r]
  <1>1. /\ UNCHANGED <<items, Service>>
        /\ \A q \in Requests \ {r} : call'[q] = call[q]
    BY RequestRecord DEF Service, database, process
  <1>2. Calls' = [Calls EXCEPT ![r] = Mapped(d)]
    BY <1>1 DEF Calls
  <1>3. Calls[r] = Mapped(c)
    BY DEF Calls
  <1>4. CASE /\ arbiter = "running" /\ c.stage = "new" /\ d.stage = "queued"
             /\ d.id \in Ids /\ d.row = Unread /\ d.status = 0
    <2>1. c.row = Unread /\ c.status = 0
      BY <1>4 DEF ServerInv, CallInv
    <2>2. Mapped(c) = [phase |-> "new", id |-> c.id, row |-> Unread, status |-> 0]
      BY <1>4, <2>1 DEF Mapped, Unsettled, Running
    <2>3. Mapped(d) = [phase |-> "sent", id |-> d.id, row |-> Unread, status |-> 0]
      BY <1>4 DEF Mapped, Unsettled
    <2>4. Mapped(d) = [Mapped(c) EXCEPT !.phase = "sent", !.id = d.id]
      <3> DEFINE m == [Mapped(c) EXCEPT !.phase = "sent"]
      <3>1. m = [phase |-> "sent", id |-> c.id, row |-> Unread, status |-> 0]
        BY <2>2
      <3>2. [Mapped(c) EXCEPT !.phase = "sent", !.id = d.id] = [m EXCEPT !.id = d.id]
        OBVIOUS
      <3> HIDE DEF m
      <3>3. [m EXCEPT !.id = d.id] = Mapped(d)
        BY <2>3, <3>1
      <3> QED
        BY <3>2, <3>3
    <2>5. Calls' = [Calls EXCEPT ![r].phase = "sent", ![r].id = d.id]
      BY <1>2, <1>3, <2>4
    <2>6. Service # "ended" /\ Mapped(c).phase = "new"
      BY <1>4, <2>2 DEF Service, Gone
    <2> QED
      BY <1>1, <1>3, <1>4, <2>5, <2>6 DEF Items!Next, Items!Send
  <1>5. CASE c.stage \in Unsettled /\ worker \in Serving
    <2>1. Service = "open" /\ r \in Items!Sent
      BY <1>5, SentAreUnsettled DEF Service, In, ServerInv, HostInv
    <2>2. CASE /\ d.stage \in Unsettled /\ d.id = c.id /\ d.row = c.row /\ d.status = c.status
      <3>1. Mapped(d) = Mapped(c)
        BY <1>5, <2>2 DEF Mapped
      <3> QED
        BY <1>1, <1>2, <1>3, <3>1 DEF Calls
    <2>3. CASE /\ c.stage = "executing" /\ d.stage = "read" /\ d.id = c.id /\ d.status = 0
               /\ d.row = Lookup(c.id)
      <3>1. c.status = 0 /\ c.id # Invalid /\ c.row = Unread
        BY <1>5, <2>3 DEF ServerInv, CallInv, Running
      <3>2. Mapped(d) = [Mapped(c) EXCEPT !.row = Lookup(c.id)]
        BY <2>3, <3>1 DEF Mapped, Unsettled, Running
      <3>3. Mapped(c).id = c.id /\ Mapped(c).row = Unread
        BY <3>1 DEF Mapped
      <3>4. Lookup(c.id) = Items!Lookup(c.id)
        BY DEF Lookup, Items!Lookup
      <3>5. Calls' = [Calls EXCEPT ![r].row = Items!Lookup(Calls[r].id)]
        BY <1>2, <1>3, <3>2, <3>3, <3>4
      <3> QED
        BY <1>1, <1>3, <2>1, <3>1, <3>3, <3>5 DEF Items!Next, Items!Look
    <2>4. CASE /\ d.stage = "answered" /\ d.id = c.id /\ d.row = c.row
               /\ d.status \in Items!Answers(r)
      <3> DEFINE m == [Mapped(c) EXCEPT !.phase = "answered"]
      <3>1. Mapped(d) = [phase |-> "answered", id |-> d.id, row |-> d.row, status |-> d.status]
        BY <2>4 DEF Mapped, Unsettled, Running
      <3>2. m = [phase |-> "answered", id |-> d.id, row |-> d.row, status |-> c.status]
        BY <2>4 DEF Mapped
      <3>3. [Mapped(c) EXCEPT !.phase = "answered", !.status = d.status]
              = [m EXCEPT !.status = d.status]
        OBVIOUS
      <3> HIDE DEF m
      <3>4. [m EXCEPT !.status = d.status] = Mapped(d)
        BY <3>1, <3>2
      <3>5. Calls' = [Calls EXCEPT ![r].phase = "answered", ![r].status = d.status]
        BY <1>2, <1>3, <3>3, <3>4
      <3> QED
        BY <1>1, <2>1, <2>4, <3>5 DEF Items!Next, Items!Answer
    <2>5. Mapped(c).id = c.id /\ Mapped(c).row = c.row
      BY DEF Mapped
    <2>6. c.id = Invalid => Items!Answers(r) = {400}
      BY <1>3, <2>5 DEF Items!Answers
    <2>7. ASSUME c.stage \in Running,
                 \/ d.status = 500
                 \/ c.stage = "read" /\ d.status = IF c.row = NoRow THEN 404 ELSE 200
          PROVE  d.status \in Items!Answers(r)
      <3>1. c.id # Invalid /\ (c.stage = "read" => c.row # Unread)
        BY <2>7 DEF ServerInv, CallInv
      <3> QED
        BY <1>3, <2>5, <2>7, <3>1 DEF Items!Answers
    <2>8. /\ c.stage \in {"queued", "acquiring"} => c.row = Unread
          /\ c.status = 0
      BY <1>5 DEF ServerInv, CallInv
    <2>9. \/ /\ d.stage \in Unsettled /\ d.id = c.id /\ d.row = c.row /\ d.status = c.status
          \/ /\ c.stage = "executing" /\ d.stage = "read" /\ d.id = c.id /\ d.status = 0
             /\ d.row = Lookup(c.id)
          \/ /\ d.stage = "answered" /\ d.id = c.id /\ d.row = c.row
             /\ c.id = Invalid /\ d.status = 400
          \/ /\ d.stage = "answered" /\ d.id = c.id /\ d.row = c.row
             /\ c.stage \in Running
             /\ \/ d.status = 500
                \/ c.stage = "read" /\ d.status = IF c.row = NoRow THEN 404 ELSE 200
      BY <1>5, <2>8, RequestRecord DEF Unsettled, Running
    <2> QED
      BY <2>2, <2>3, <2>4, <2>6, <2>7, <2>9
  <1> QED
    BY <1>4, <1>5, RequestRecord DEF Unsettled, Running

\* The server promises what ItemService says, and keeps it when workers die and
\* are replaced (app.py, database.py).
THEOREM Refinement == Spec => ImplementsItemService
  <1>1. Init => Items!Init
    BY InitRefines
  <1>2. ServerInv /\ [Next]_vars => [Items!Next]_<<items, Service, Calls>>
    <2> SUFFICES ASSUME ServerInv, [Next]_vars
                 PROVE  [Items!Next]_<<items, Service, Calls>>
      OBVIOUS
    <2>1. CASE BootStep
      BY <2>1, BootRefines
    <2>2. CASE Reconnect \/ AtExit \/ Respawn \/ Term \/ CheckHealth \/ UNCHANGED vars
      BY <2>2, QuietStepRefines
    <2>3. ASSUME NEW r \in Requests, Arrive(r) \/ RequestStep(r)
          PROVE  [Items!Next]_<<items, Service, Calls>>
      BY <2>3, RequestRefines
    <2>4. CASE Quit \/ Crash \/ BootTimeout \/ Kill \/ Halt \/ Die
      BY <2>4, HostRefines
    <2>5. CASE DatabaseStep /\ UNCHANGED server
      BY <2>5, DatabaseRefines
    <2> QED
      BY <2>1, <2>2, <2>3, <2>4, <2>5 DEF Next, ExitStep, ArbiterStep
  <1> QED
    BY <1>1, <1>2, Invariance, PTL DEF Spec, Items!Spec, ImplementsItemService
===============================================================================
