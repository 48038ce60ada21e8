----------------------------- MODULE ApiEnvironment -----------------------------
(***************************************************************************)
(* What surrounds a Python API server and is not its own: the requests, the *)
(* environment it is started in, and the database with its table items,    *)
(* which may stall or go away and come back and which others write.        *)
(***************************************************************************)
EXTENDS ApiInputs

CONSTANTS
  Requests,  \* requests for /db/{id}, each made once
  Texts,     \* the ids they may carry
  ItemIds,   \* ids that may be in the table items
  Rows,      \* rows of the table
  NoRow,     \* no such row
  Unread,    \* the row has not been read
  Envs       \* environments the server may be started in

ASSUME EnvironmentAssumption ==
  /\ IsFiniteSet(Requests)
  /\ Texts \subseteq Seq(STRING) \ {<<>>}
  /\ Unread \notin Rows \cup {NoRow}
  /\ NoRow \notin Rows
  /\ Envs \subseteq Settings

VARIABLES
  db,       \* what a query meets: "up", "stalled" (no answer) or "down"
  trouble,  \* the database has been away: a connection may prove broken
  items     \* its table

database == <<db, trouble, items>>

Tables == [ItemIds -> Rows \cup {NoRow}]
Lookup(id) == IF id \in ItemIds THEN items[id] ELSE NoRow

\* parse_id of each text.
Parsed == [text \in Texts |-> ParseId(text)]
Ids == {Parsed[text] : text \in Texts}

\* The ids a text denotes: one or none.
Meaning ==
  [text \in Texts |-> {n \in -Limit .. (Limit - 1) : Denotes(text, n)}]

DatabaseTypeOK ==
  /\ db \in {"up", "stalled", "down"}
  /\ trouble \in BOOLEAN
  /\ db # "up" => trouble
  /\ items \in Tables

DatabaseInit ==
  /\ db \in {"up", "stalled", "down"}
  /\ trouble = (db # "up")
  /\ items \in Tables

\* It stops answering, refuses, or is back.
Turn ==
  /\ db' \in {"up", "stalled", "down"}
  /\ trouble' = (trouble \/ db' # "up")
  /\ UNCHANGED items

\* Another client writes the table.
Change ==
  /\ db = "up"
  /\ items' \in Tables
  /\ UNCHANGED <<db, trouble>>

DatabaseStep == Turn \/ Change
===============================================================================
