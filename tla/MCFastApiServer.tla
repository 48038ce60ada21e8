---------------------------- MODULE MCFastApiServer ----------------------------
(* Ids of two digits in -16 .. 15: both ends and what lies just beyond, with *)
(* zeros and signs, and texts that are no numbers.  Item 15 may be in the    *)
(* table.                                                                    *)
EXTENDS FastApiServer

MCTexts ==
  {<<"1", "5">>, <<"+", "0", "1", "5">>, <<"0", "0", "1", "5">>,
   <<"-", "1", "6">>, <<"-", "0", "1", "6">>,
   <<"1", "6">>, <<"-", "1", "7">>, <<"1", "0", "0">>,
   <<"+">>, <<"x">>, <<"1", "x">>, <<"+", "-", "5">>}
MCItemIds == {15}
MCEnvs ==
  {[given |-> Required, port |-> 5432],
   [given |-> Required \ {"DATABASE_HOST"}, port |-> 5432],
   [given |-> Required, port |-> 65536]}
===============================================================================
