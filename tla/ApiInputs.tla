------------------------------- MODULE ApiInputs -------------------------------
(***************************************************************************)
(* What the Python API servers compute from their inputs, without state:   *)
(* the id of /db/{id} and the settings of the database pool.  A text is a  *)
(* sequence of characters.  BIGINT is scaled: -Limit .. Limit - 1 stands   *)
(* for its 64 bits, MaxDigits for the 19 digits an id may have.            *)
(***************************************************************************)
EXTENDS Integers, Sequences, FiniteSets

CONSTANTS
  Limit,      \* 2^63
  MaxDigits,  \* 19
  Invalid     \* the ValueError of parse_id

Numerals == <<"0", "1", "2", "3", "4", "5", "6", "7", "8", "9">>

\* The usual numeral of a number.
Numeral[n \in Nat] ==
  IF n < 10 THEN <<Numerals[n + 1]>>
  ELSE Append(Numeral[n \div 10], Numerals[(n % 10) + 1])

ASSUME InputsAssumption ==
  /\ Limit \in Nat \ {0}
  /\ MaxDigits \in Nat \ {0}
  /\ Len(Numeral[Limit]) <= MaxDigits
  /\ Invalid \notin Int

Digits == {Numerals[i] : i \in 1 .. 10}
Signs == {"+", "-"}

Unsigned(text) ==
  IF text # <<>> /\ Head(text) \in Signs THEN Tail(text) ELSE text

\* The regular expression SIGNED_DECIMAL.
SignedDecimal(text) ==
  /\ Unsigned(text) # <<>>
  /\ \A i \in DOMAIN Unsigned(text) : Unsigned(text)[i] \in Digits

\* lstrip("0") or "0".
WithoutZeros(digits) ==
  LET kept == {i \in DOMAIN digits : digits[i] # "0"}
  IN  IF kept = {} THEN <<"0">>
      ELSE SubSeq(digits, CHOOSE i \in kept : \A j \in kept : i <= j, Len(digits))

\* int() of a text of digits.
Digit(c) == CHOOSE d \in 0 .. 9 : Numerals[d + 1] = c

Value(digits) ==
  LET upTo[i \in 0 .. Len(digits)] ==
        IF i = 0 THEN 0 ELSE 10 * upTo[i - 1] + Digit(digits[i])
  IN  upTo[Len(digits)]

Number(text, digits) ==
  IF Head(text) = "-" THEN -Value(digits) ELSE Value(digits)

\* A seeded mistake: the digits are counted before leading zeros are dropped.
ParseIdCountingZeros(text) ==
  IF \/ ~SignedDecimal(text)
     \/ Len(Unsigned(text)) > MaxDigits
     \/ Number(text, WithoutZeros(Unsigned(text))) \notin -Limit .. (Limit - 1)
  THEN Invalid
  ELSE Number(text, WithoutZeros(Unsigned(text)))

\* The digits are counted before they are converted, the range is looked at
\* after.
ParseId(text) ==
  LET digits == WithoutZeros(Unsigned(text))
  IN  IF \/ ~SignedDecimal(text)
         \/ Len(digits) > MaxDigits
         \/ Number(text, digits) \notin -Limit .. (Limit - 1)
      THEN Invalid
      ELSE Number(text, digits)

-----------------------------------------------------------------------------
(* The settings: which variables are set and not empty, and the port, any   *)
(* integer, or one that is no port when its text is not one to five digits. *)

Required ==
  {"DATABASE_HOST", "DATABASE_PORT", "DATABASE_NAME", "DATABASE_USER",
   "DATABASE_PASSWORD"}

Settings == [given : SUBSET Required, port : Int]

PoolOptions(env) == env.given = Required /\ env.port \in 1 .. 65535

-----------------------------------------------------------------------------
(* The ids a text may denote, said without computing: an optional sign, any *)
(* number of zeros and the usual numeral of a number in the range.          *)

Denotes(text, n) ==
  \E sign \in {<<>>, <<"+">>, <<"-">>}, zeros \in 0 .. Len(text) :
    /\ n < 0 => sign = <<"-">>
    /\ n > 0 => sign # <<"-">>
    /\ text = sign \o [i \in 1 .. zeros |-> "0"] \o Numeral[IF n < 0 THEN -n ELSE n]

\* A text is refused exactly if it denotes no id, and otherwise parsed to the
\* id it denotes: the limit on digits costs no valid id, leading zeros, signs
\* and both ends of the range included (parse_id, app.py:15-28).
ParsesExactly(texts) ==
  \A text \in texts :
    IF \E n \in -Limit .. (Limit - 1) : Denotes(text, n)
    THEN ParseId(text) # Invalid /\ Denotes(text, ParseId(text))
    ELSE ParseId(text) = Invalid
===============================================================================
