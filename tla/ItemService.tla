------------------------------ MODULE ItemService ------------------------------
(***************************************************************************)
(* What both Python servers promise about GET /db/{id}, with no pool,      *)
(* process, thread or signal in it.                                        *)
(*                                                                         *)
(* A request is refused by its id alone, or it is answered with the row as *)
(* the database held it at one moment between the request and its answer:  *)
(* nothing is remembered from one request to another.  It may fail, and it *)
(* may be cut with no answer when the service closes, but the application  *)
(* answers only while the service is open, and when the service has ended  *)
(* nobody is waiting for it.                                               *)
(***************************************************************************)
EXTENDS Integers

CONSTANTS
  Requests,  \* calls of GET /db/{id}, each made once
  Ids,       \* what their ids parse to
  Invalid,   \* what an id that is no BIGINT parses to
  ItemIds,   \* the ids that may be in the table items
  Rows,      \* rows of that table
  NoRow,     \* no row with the id
  Unread     \* the database has not been asked yet

VARIABLES
  items,    \* the table
  service,  \* "closed", "open" or "ended"
  call      \* the requests

Tables == [ItemIds -> Rows \cup {NoRow}]
Lookup(id) == IF id \in ItemIds THEN items[id] ELSE NoRow

Unanswered(phase) == [phase |-> phase, id |-> Invalid, row |-> Unread, status |-> 0]

\* The requests of lost get no answer.
CutCalls(lost) ==
  [r \in Requests |-> IF r \in lost THEN Unanswered("cut") ELSE call[r]]

Sent == {r \in Requests : call[r].phase = "sent"}

Init ==
  /\ items \in Tables
  /\ service = "closed"
  /\ call = [r \in Requests |-> Unanswered("new")]

\* Somebody else writes the table.
Change ==
  /\ items' \in Tables
  /\ UNCHANGED <<service, call>>

Open ==
  /\ service = "closed"
  /\ service' = "open"
  /\ UNCHANGED <<items, call>>

\* Requests that are cut, or whose rows nobody has read, may remain.
Close ==
  /\ service = "open"
  /\ service' = "closed"
  /\ \E lost \in SUBSET Sent :
       /\ \A r \in Sent \ lost : call[r].row = Unread
       /\ call' = CutCalls(lost)
  /\ UNCHANGED items

End ==
  /\ service # "ended"
  /\ service' = "ended"
  /\ call' = CutCalls(Sent)
  /\ UNCHANGED items

Send(r) ==
  /\ service # "ended"
  /\ call[r].phase = "new"
  /\ \E id \in Ids : call' = [call EXCEPT ![r].phase = "sent", ![r].id = id]
  /\ UNCHANGED <<items, service>>

\* The one moment whose row the answer shows.
Look(r) ==
  /\ service = "open"
  /\ r \in Sent
  /\ call[r].id # Invalid /\ call[r].row = Unread
  /\ call' = [call EXCEPT ![r].row = Lookup(call[r].id)]
  /\ UNCHANGED <<items, service>>

Answers(r) ==
  IF call[r].id = Invalid THEN {400}
  ELSE {500} \cup (IF call[r].row = Unread THEN {}
                   ELSE IF call[r].row = NoRow THEN {404} ELSE {200})

Answer(r) ==
  /\ service = "open"
  /\ r \in Sent
  /\ \E status \in Answers(r) :
       call' = [call EXCEPT ![r].phase = "answered", ![r].status = status]
  /\ UNCHANGED <<items, service>>

Cut(r) ==
  /\ r \in Sent
  /\ call' = CutCalls({r})
  /\ UNCHANGED <<items, service>>

Next ==
  \/ Change \/ Open \/ Close \/ End
  \/ \E r \in Requests : Send(r) \/ Look(r) \/ Answer(r) \/ Cut(r)

Spec == Init /\ [][Next]_<<items, service, call>>
===============================================================================
