----------------------------- MODULE MCFlaskServer -----------------------------
(* Ids of two digits in -16 .. 15, one valid and one invalid.               *)
EXTENDS FlaskServer

\* parse_id on every text of up to four of these characters.
ASSUME EveryTextParsesExactly ==
  ParsesExactly(UNION {[1 .. n -> {"+", "-", "0", "1", "5", "6"}] : n \in 0 .. 4})

MCTexts == {<<"1", "5">>, <<"x">>}
MCItemIds == {15}
MCEnvs ==
  {[given |-> Required, port |-> 5432],
   [given |-> Required \ {"DATABASE_PASSWORD"}, port |-> 5432],
   [given |-> Required, port |-> 0]}
===============================================================================
