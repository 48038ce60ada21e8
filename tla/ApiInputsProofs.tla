---------------------------- MODULE ApiInputsProofs ----------------------------
(***************************************************************************)
(* parse_id is right about every text: it gives the number the text        *)
(* denotes, and refuses the text exactly if there is none.  Value and      *)
(* Numeral are recursive functions, so the proof begins with what natural  *)
(* numbers and recursion on them need, stated for sets and functions.      *)
(***************************************************************************)
EXTENDS ApiInputs, SequenceTheorems, WellFoundedInduction, TLAPS

\* A set of natural numbers has a least element.
LEMMA Least ==
  ASSUME NEW T, T \subseteq Nat, T # {}
  PROVE  \E x \in T : \A y \in T : x <= y
  <1>1. IsWellFoundedOn(OpToRel(<, Nat), Nat)
    BY NatLessThanWellFounded
  <1> DEFINE R == OpToRel(<, Nat)
  <1>2. \A x, y \in Nat : <<y, x>> \in R <=> y < x
    BY DEF OpToRel
  <1> HIDE DEF R
  <1>3. IsWellFoundedOn(R, Nat)
    BY <1>1 DEF R
  <1>4. PICK x \in T : \A y \in T : ~ (<<y, x>> \in R)
    BY <1>3, WFMin
  <1>5. \A y \in T : x <= y
    <2> SUFFICES ASSUME NEW y \in T PROVE x <= y
      OBVIOUS
    <2>1. x \in Nat /\ y \in Nat
      OBVIOUS
    <2>2. ~(y < x)
      BY <1>4, <1>2, <2>1
    <2> QED
      BY <2>1, <2>2
  <1> QED
    BY <1>5

\* Induction: a set that has a number whenever it has the smaller ones has all.
LEMMA Induction ==
  ASSUME NEW P, \A n \in Nat : (\A k \in Nat : k < n => k \in P) => n \in P
  PROVE  \A n \in Nat : n \in P
  <1> DEFINE T == Nat \ P
  <1> SUFFICES ASSUME T # {} PROVE FALSE
    OBVIOUS
  <1>1. PICK x \in T : \A y \in T : x <= y
    BY Least
  <1>2. \A k \in Nat : k < x => k \in P
    <2> SUFFICES ASSUME NEW k \in Nat, k < x, k \notin P PROVE FALSE
      OBVIOUS
    <2>1. x <= k /\ x \in Nat
      BY <1>1
    <2> QED
      BY <2>1
  <1> QED
    BY <1>2

\* f is the function on D that is defined by recursion from the smaller number
\* h[n], or is base[n] where h[n] is not smaller.
Recursive(f, D, base, h, g) ==
  f = [n \in D |-> IF h[n] < n THEN g[n][f[h[n]]] ELSE base[n]]

\* There is at most one, also if it is asked for up to different bounds.
LEMMA RecursionAgrees ==
  ASSUME NEW base, NEW h \in [Nat -> Nat], NEW g,
         NEW D, \A n \in D : n \in Nat /\ \A k \in 0 .. n : k \in D,
         NEW E, \A n \in E : n \in Nat /\ \A k \in 0 .. n : k \in E,
         NEW d, Recursive(d, D, base, h, g),
         NEW e, Recursive(e, E, base, h, g)
  PROVE  \A n \in D \cap E : d[n] = e[n]
  <1> DEFINE P == {n \in Nat : n \in D \cap E => d[n] = e[n]}
  <1>1. ASSUME NEW n \in Nat, \A k \in Nat : k < n => k \in P
        PROVE  n \in P
    <2> SUFFICES ASSUME n \in D \cap E PROVE d[n] = e[n]
      OBVIOUS
    <2>1. /\ d[n] = IF h[n] < n THEN g[n][d[h[n]]] ELSE base[n]
          /\ e[n] = IF h[n] < n THEN g[n][e[h[n]]] ELSE base[n]
      BY DEF Recursive
    <2>2. CASE h[n] < n
      <3>1. h[n] \in Nat /\ h[n] \in 0 .. n
        BY <2>2
      <3>2. h[n] \in D \cap E /\ h[n] \in P
        BY <1>1, <2>2, <3>1
      <3> QED
        BY <2>1, <2>2, <3>2
    <2> QED
      BY <2>1, <2>2
  <1> HIDE DEF P
  <1>2. \A n \in Nat : n \in P
    BY <1>1, Induction
  <1> QED
    BY <1>2 DEF P

\* There is one up to every bound,
LEMMA RecursionTo ==
  ASSUME NEW S, NEW base \in [Nat -> S], NEW h \in [Nat -> Nat],
         NEW g \in [Nat -> [S -> S]]
  PROVE  \A n \in Nat : \E f \in [0 .. n -> S] : Recursive(f, 0 .. n, base, h, g)
  <1> DEFINE P == {n \in Nat : \E f \in [0 .. n -> S] : Recursive(f, 0 .. n, base, h, g)}
  <1>1. ASSUME NEW n \in Nat, \A k \in Nat : k < n => k \in P
        PROVE  n \in P
    <2>1. CASE n = 0
      <3> DEFINE f == [k \in 0 .. n |-> base[k]]
      <3>1. f \in [0 .. n -> S]
        OBVIOUS
      <3>2. \A k \in 0 .. n : ~(h[k] < k)
        BY <2>1
      <3>3. Recursive(f, 0 .. n, base, h, g)
        BY <3>2 DEF Recursive
      <3> QED
        BY <3>1, <3>3
    <2>2. CASE n # 0
      <3>1. n - 1 \in P
        <4>1. n - 1 \in Nat /\ n - 1 < n
          BY <2>2
        <4> HIDE DEF P
        <4> QED
          BY <1>1, <4>1
      <3>2. PICK d \in [0 .. (n - 1) -> S] : Recursive(d, 0 .. (n - 1), base, h, g)
        BY <3>1
      <3> DEFINE last == IF h[n] < n THEN g[n][d[h[n]]] ELSE base[n]
                 f == [k \in 0 .. n |-> IF k = n THEN last ELSE d[k]]
      <3>3. last \in S
        BY <2>2
      <3>4. f \in [0 .. n -> S]
        BY <3>3
      <3>5. \A k \in 0 .. n : f[k] = IF h[k] < k THEN g[k][f[h[k]]] ELSE base[k]
        <4> SUFFICES ASSUME NEW k \in 0 .. n
                     PROVE  f[k] = IF h[k] < k THEN g[k][f[h[k]]] ELSE base[k]
          OBVIOUS
        <4>1. h[k] < k => h[k] \in 0 .. (n - 1) /\ f[h[k]] = d[h[k]]
          OBVIOUS
        <4>2. CASE k = n
          BY <4>1, <4>2
        <4>3. CASE k # n
          <5>1. k \in 0 .. (n - 1)
            BY <4>3
          <5>2. d[k] = IF h[k] < k THEN g[k][d[h[k]]] ELSE base[k]
            BY <3>2, <5>1 DEF Recursive
          <5> QED
            BY <4>1, <4>3, <5>2
        <4> QED
          BY <4>2, <4>3
      <3>6. f = [k \in 0 .. n |-> f[k]]
        OBVIOUS
      <3> HIDE DEF f
      <3>7. Recursive(f, 0 .. n, base, h, g)
        BY <3>5, <3>6, Zenon DEF Recursive
      <3> QED
        BY <3>4, <3>7
    <2> QED
      BY <2>1, <2>2
  <1> HIDE DEF P
  <1>2. \A n \in Nat : n \in P
    BY <1>1, Induction
  <1> QED
    BY <1>2 DEF P

\* and so there is one on all natural numbers.
LEMMA Recursion ==
  ASSUME NEW S, NEW base \in [Nat -> S], NEW h \in [Nat -> Nat],
         NEW g \in [Nat -> [S -> S]]
  PROVE  \E f \in [Nat -> S] : Recursive(f, Nat, base, h, g)
  <1> DEFINE to(n) == CHOOSE d \in [0 .. n -> S] : Recursive(d, 0 .. n, base, h, g)
             f == [n \in Nat |-> to(n)[n]]
  <1>1. \A n \in Nat : to(n) \in [0 .. n -> S] /\ Recursive(to(n), 0 .. n, base, h, g)
    BY RecursionTo
  <1> HIDE DEF to
  <1>2. f \in [Nat -> S]
    BY <1>1
  <1>3. \A n \in Nat : \A k \in 0 .. n : to(n)[k] = to(k)[k]
    <2> SUFFICES ASSUME NEW n \in Nat, NEW k \in 0 .. n
                 PROVE  to(n)[k] = to(k)[k]
      OBVIOUS
    <2> DEFINE D == 0 .. n
               E == 0 .. k
               d == to(n)
               e == to(k)
    <2>1. Recursive(d, D, base, h, g) /\ Recursive(e, E, base, h, g)
      BY <1>1
    <2>2. /\ \A m \in D : m \in Nat /\ \A j \in 0 .. m : j \in D
          /\ \A m \in E : m \in Nat /\ \A j \in 0 .. m : j \in E
      OBVIOUS
    <2>3. k \in D \cap E
      OBVIOUS
    <2> HIDE DEF D, E, d, e
    <2>4. \A m \in D \cap E : d[m] = e[m]
      BY <2>1, <2>2, RecursionAgrees
    <2> QED
      BY <2>3, <2>4 DEF d, e
  <1>4. \A n \in Nat : f[n] = IF h[n] < n THEN g[n][f[h[n]]] ELSE base[n]
    <2> SUFFICES ASSUME NEW n \in Nat
                 PROVE  f[n] = IF h[n] < n THEN g[n][f[h[n]]] ELSE base[n]
      OBVIOUS
    <2>1. to(n)[n] = IF h[n] < n THEN g[n][to(n)[h[n]]] ELSE base[n]
      <3>1. n \in 0 .. n
        OBVIOUS
      <3> QED
        BY <1>1, <3>1 DEF Recursive
    <2>2. h[n] < n => h[n] \in 0 .. n /\ to(n)[h[n]] = to(h[n])[h[n]]
      BY <1>3
    <2> QED
      BY <2>1, <2>2
  <1>5. f = [n \in Nat |-> f[n]]
    OBVIOUS
  <1> HIDE DEF f
  <1>6. Recursive(f, Nat, base, h, g)
    BY <1>4, <1>5, Zenon DEF Recursive
  <1> QED
    BY <1>2, <1>6

-----------------------------------------------------------------------------
(* Numeral and Value, as their definitions say.                             *)

\* The ten digits, and int() of one.
LEMMA DigitOfNumerals ==
  \A d \in 0 .. 9 : Numerals[d + 1] \in Digits /\ Digit(Numerals[d + 1]) = d
  <1>1. \A d, e \in 0 .. 9 : Numerals[d + 1] = Numerals[e + 1] => d = e
    <2>1. /\ Numerals[1] = "0" /\ Numerals[2] = "1" /\ Numerals[3] = "2"
          /\ Numerals[4] = "3" /\ Numerals[5] = "4" /\ Numerals[6] = "5"
          /\ Numerals[7] = "6" /\ Numerals[8] = "7" /\ Numerals[9] = "8"
          /\ Numerals[10] = "9"
      BY DEF Numerals
    <2> SUFFICES ASSUME NEW d \in 0 .. 9, NEW e \in 0 .. 9,
                        Numerals[d + 1] = Numerals[e + 1]
                 PROVE  d = e
      OBVIOUS
    <2>2. \A k \in 0 .. 9 :
            k = 0 \/ k = 1 \/ k = 2 \/ k = 3 \/ k = 4 \/ k = 5 \/ k = 6 \/ k = 7 \/ k = 8 \/ k = 9
      OBVIOUS
    <2> QED
      BY <2>1, <2>2
  <1>2. \A d \in 0 .. 9 : Numerals[d + 1] \in Digits
    BY DEF Digits
  <1> SUFFICES ASSUME NEW d \in 0 .. 9 PROVE Digit(Numerals[d + 1]) = d
    BY <1>2
  <1>3. \E e \in 0 .. 9 : Numerals[e + 1] = Numerals[d + 1]
    OBVIOUS
  <1> QED
    BY <1>1, <1>3 DEF Digit

LEMMA NumeralsOfDigit ==
  ASSUME NEW c \in Digits
  PROVE  Digit(c) \in 0 .. 9 /\ Numerals[Digit(c) + 1] = c
  <1>1. PICK i \in 1 .. 10 : c = Numerals[i]
    BY DEF Digits
  <1>2. i - 1 \in 0 .. 9 /\ (i - 1) + 1 = i
    OBVIOUS
  <1> QED
    BY <1>1, <1>2, DigitOfNumerals

\* The numeral of a number of one digit is the digit, and that of a larger one
\* is its last digit after the numeral of the rest.
LEMMA NumeralIs ==
  /\ Numeral \in [Nat -> Seq(Digits)]
  /\ \A n \in Nat :
       Numeral[n] = IF n < 10 THEN <<Numerals[n + 1]>>
                    ELSE Append(Numeral[n \div 10], Numerals[(n % 10) + 1])
  <1> DEFINE S == Seq(Digits)
             base == [n \in Nat |-> IF n < 10 THEN <<Numerals[n + 1]>> ELSE <<>>]
             h == [n \in Nat |-> IF n < 10 THEN n ELSE n \div 10]
             g == [n \in Nat |-> [s \in S |-> Append(s, Numerals[(n % 10) + 1])]]
             body(f, n) == IF n < 10 THEN <<Numerals[n + 1]>>
                           ELSE Append(f[n \div 10], Numerals[(n % 10) + 1])
  <1>1. base \in [Nat -> S]
    <2>1. \A n \in Nat : n < 10 => <<Numerals[n + 1]>> \in S
      <3> SUFFICES ASSUME NEW n \in Nat, n < 10 PROVE <<Numerals[n + 1]>> \in S
        OBVIOUS
      <3>1. n \in 0 .. 9
        OBVIOUS
      <3>2. Numerals[n + 1] \in Digits
        BY <3>1, DigitOfNumerals
      <3> QED
        BY <3>2
    <2>2. <<>> \in S
      OBVIOUS
    <2> HIDE DEF S
    <2> QED
      BY <2>1, <2>2
  <1>2. h \in [Nat -> Nat]
    OBVIOUS
  <1>3. g \in [Nat -> [S -> S]]
    <2>1. \A n \in Nat, s \in S : Append(s, Numerals[(n % 10) + 1]) \in S
      <3> SUFFICES ASSUME NEW n \in Nat, NEW s \in S
                   PROVE  Append(s, Numerals[(n % 10) + 1]) \in S
        OBVIOUS
      <3>1. n % 10 \in 0 .. 9
        OBVIOUS
      <3>2. Numerals[(n % 10) + 1] \in Digits
        BY <3>1, DigitOfNumerals
      <3> QED
        BY <3>2, AppendProperties
    <2> HIDE DEF S
    <2> QED
      BY <2>1
  <1> HIDE DEF S, base, h, g
  <1>4. PICK f \in [Nat -> S] : Recursive(f, Nat, base, h, g)
    BY <1>1, <1>2, <1>3, Recursion
  <1>5. ASSUME NEW e \in [Nat -> S], NEW n \in Nat
        PROVE  (IF h[n] < n THEN g[n][e[h[n]]] ELSE base[n]) = body(e, n)
    <2>1. CASE n < 10
      BY <2>1 DEF h, base
    <2>2. CASE ~(n < 10)
      <3>1. h[n] = n \div 10 /\ n \div 10 < n /\ n \div 10 \in Nat
        BY <2>2 DEF h
      <3>2. g[n][e[h[n]]] = Append(e[h[n]], Numerals[(n % 10) + 1])
        BY <3>1 DEF g
      <3> QED
        BY <2>2, <3>1, <3>2
    <2> QED
      BY <2>1, <2>2
  <1>6. f = [n \in Nat |-> body(f, n)]
    BY <1>4, <1>5 DEF Recursive
  <1>7. Numeral = CHOOSE e : e = [n \in Nat |-> body(e, n)]
    BY DEF Numeral
  <1>8. Numeral = [n \in Nat |-> body(Numeral, n)]
    BY <1>6, <1>7
  <1>9. \A n \in Nat : Numeral[n] = body(Numeral, n)
    BY <1>8
  <1> DEFINE P == {n \in Nat : Numeral[n] \in S}
  <1>10. ASSUME NEW n \in Nat, \A k \in Nat : k < n => k \in P
         PROVE  n \in P
    <2>1. CASE n < 10
      <3>1. Numeral[n] = base[n]
        BY <1>9, <2>1 DEF base
      <3> QED
        BY <1>1, <3>1
    <2>2. CASE ~(n < 10)
      <3>1. n \div 10 \in Nat /\ n \div 10 < n
        BY <2>2
      <3>2. Numeral[n \div 10] \in S
        BY <1>10, <3>1
      <3>3. Numeral[n] = g[n][Numeral[n \div 10]]
        BY <1>9, <2>2, <3>2 DEF g
      <3> QED
        BY <1>3, <3>2, <3>3
    <2> QED
      BY <2>1, <2>2
  <1> HIDE DEF P
  <1>11. \A n \in Nat : n \in P
    BY <1>10, Induction
  <1>12. Numeral \in [Nat -> S]
    BY <1>8, <1>11 DEF P
  <1> QED
    BY <1>9, <1>12 DEF S

\* int() of a text of digits takes one digit after the other.
LEMMA ValueIs ==
  ASSUME NEW digits \in Seq(Digits)
  PROVE  \E u \in [0 .. Len(digits) -> Nat] :
           /\ Value(digits) = u[Len(digits)]
           /\ \A i \in 0 .. Len(digits) :
                u[i] = IF i = 0 THEN 0 ELSE 10 * u[i - 1] + Digit(digits[i])
  <1> DEFINE N == Len(digits)
             D == 0 .. N
             base == [i \in Nat |-> 0]
             h == [i \in Nat |-> IF i = 0 THEN 0 ELSE i - 1]
             add(i) == IF i \in 1 .. N THEN Digit(digits[i]) ELSE 0
             g == [i \in Nat |-> [v \in Nat |-> 10 * v + add(i)]]
             body(f, i) == IF i = 0 THEN 0 ELSE 10 * f[i - 1] + Digit(digits[i])
  <1>1. N \in Nat /\ \A i \in 1 .. N : digits[i] \in Digits
    OBVIOUS
  <1>2. base \in [Nat -> Nat] /\ h \in [Nat -> Nat]
    OBVIOUS
  <1>3. g \in [Nat -> [Nat -> Nat]]
    <2>1. \A i \in Nat : add(i) \in Nat
      BY <1>1, NumeralsOfDigit
    <2> HIDE DEF add
    <2> QED
      BY <2>1
  <1> HIDE DEF base, h, g, N
  <1>4. PICK f \in [0 .. N -> Nat] : Recursive(f, 0 .. N, base, h, g)
    BY <1>1, <1>2, <1>3, RecursionTo
  <1>5. ASSUME NEW i \in D
        PROVE  (IF h[i] < i THEN g[i][f[h[i]]] ELSE base[i]) = body(f, i)
    <2>1. CASE i = 0
      BY <2>1, <1>1 DEF h, base
    <2>2. CASE i # 0
      <3>1. h[i] = i - 1 /\ i \in 1 .. N /\ h[i] \in D /\ i \in Nat /\ h[i] < i
        BY <2>2, <1>1 DEF h
      <3>2. g[i][f[h[i]]] = 10 * f[h[i]] + Digit(digits[i])
        BY <3>1 DEF g
      <3> QED
        BY <2>2, <3>1, <3>2
    <2> QED
      BY <2>1, <2>2
  <1>6. f = [i \in D |-> body(f, i)]
    BY <1>4, <1>5 DEF Recursive
  <1> DEFINE u == CHOOSE e : e = [i \in D |-> body(e, i)]
  <1>7. Value(digits) = u[N]
    BY DEF Value, N
  <1>8. u = [i \in D |-> body(u, i)]
    BY <1>6
  <1> HIDE DEF u
  <1>9. \A i \in D : u[i] = body(u, i)
    BY <1>8
  <1> DEFINE P == {i \in Nat : i \in D => u[i] \in Nat}
  <1>10. ASSUME NEW i \in Nat, \A k \in Nat : k < i => k \in P
         PROVE  i \in P
    <2> SUFFICES ASSUME i \in D, i # 0 PROVE u[i] \in Nat
      BY <1>9, <1>1
    <2>1. i - 1 \in Nat /\ i - 1 < i /\ i - 1 \in D /\ i \in 1 .. N
      BY <1>1
    <2>2. u[i - 1] \in Nat
      BY <1>10, <2>1
    <2>3. Digit(digits[i]) \in Nat
      <3>1. digits[i] \in Digits
        BY <1>1, <2>1
      <3>2. Digit(digits[i]) \in 0 .. 9
        BY <3>1, NumeralsOfDigit
      <3> QED
        BY <3>2
    <2> QED
      BY <1>9, <2>2, <2>3
  <1> HIDE DEF P
  <1>11. \A i \in Nat : i \in P
    BY <1>10, Induction
  <1>12. u \in [D -> Nat]
    <2>1. \A i \in D : u[i] \in Nat
      BY <1>1, <1>11 DEF P
    <2> HIDE DEF D
    <2> QED
      BY <1>8, <2>1
  <1> QED
    BY <1>7, <1>9, <1>12 DEF N

LEMMA ValueOfAppend ==
  /\ Value(<<>>) = 0
  /\ \A s \in Seq(Digits) :
       /\ Value(s) \in Nat
       /\ \A c \in Digits : Value(Append(s, c)) = 10 * Value(s) + Digit(c)
  <1>1. Value(<<>>) = 0
    <2>1. <<>> \in Seq(Digits) /\ Len(<<>>) = 0
      OBVIOUS
    <2> DEFINE e == <<>>
    <2>2. e \in Seq(Digits) /\ Len(e) = 0
      BY <2>1
    <2> HIDE DEF e
    <2>3. Value(e) = 0
      <3>1. PICK u \in [0 .. Len(e) -> Nat] :
              /\ Value(e) = u[Len(e)]
              /\ \A i \in 0 .. Len(e) :
                   u[i] = IF i = 0 THEN 0 ELSE 10 * u[i - 1] + Digit(e[i])
        BY <2>2, ValueIs
      <3>2. 0 \in 0 .. Len(e)
        BY <2>2
      <3> QED
        BY <2>2, <3>1, <3>2
    <2> QED
      BY <2>3 DEF e
  <1>2. ASSUME NEW s \in Seq(Digits) PROVE Value(s) \in Nat
    <2>1. Len(s) \in 0 .. Len(s)
      OBVIOUS
    <2> QED
      BY <2>1, ValueIs
  <1>3. ASSUME NEW s \in Seq(Digits), NEW c \in Digits
        PROVE  Value(Append(s, c)) = 10 * Value(s) + Digit(c)
    <2> DEFINE t == Append(s, c)
               N == Len(s)
    <2>1. /\ t \in Seq(Digits) /\ Len(t) = N + 1 /\ t[N + 1] = c /\ N \in Nat
          /\ \A i \in 1 .. N : t[i] = s[i]
      BY AppendProperties
    <2> HIDE DEF t, N
    <2>2. PICK u \in [0 .. N -> Nat] :
            /\ Value(s) = u[N]
            /\ \A i \in 0 .. N : u[i] = IF i = 0 THEN 0 ELSE 10 * u[i - 1] + Digit(s[i])
      BY ValueIs DEF N
    <2>3. PICK v \in [0 .. Len(t) -> Nat] :
            /\ Value(t) = v[Len(t)]
            /\ \A i \in 0 .. Len(t) :
                 v[i] = IF i = 0 THEN 0 ELSE 10 * v[i - 1] + Digit(t[i])
      BY <2>1, ValueIs
    <2> DEFINE P == {i \in Nat : i \in 0 .. N => u[i] = v[i]}
    <2>4. ASSUME NEW i \in Nat, \A k \in Nat : k < i => k \in P
          PROVE  i \in P
      <3> SUFFICES ASSUME i \in 0 .. N PROVE u[i] = v[i]
        OBVIOUS
      <3>1. CASE i = 0
        BY <2>1, <2>2, <2>3, <3>1
      <3>2. CASE i # 0
        <4>1. i - 1 \in Nat /\ i - 1 < i /\ i \in 1 .. N /\ i - 1 \in 0 .. N
          BY <2>1, <3>2
        <4>2. u[i - 1] = v[i - 1]
          BY <2>4, <4>1
        <4> QED
          BY <2>1, <2>2, <2>3, <3>2, <4>1, <4>2
      <3> QED
        BY <3>1, <3>2
    <2> HIDE DEF P
    <2>5. \A i \in Nat : i \in P
      BY <2>4, Induction
    <2>6. u[N] = v[N]
      BY <2>1, <2>5 DEF P
    <2>7. v[N + 1] = 10 * v[N] + Digit(c)
      BY <2>1, <2>3
    <2> QED
      BY <2>1, <2>2, <2>3, <2>6, <2>7 DEF t
  <1> QED
    BY <1>1, <1>2, <1>3

-----------------------------------------------------------------------------
(* Value and Numeral are inverse to each other.                             *)

LEMMA AppendToEmpty == \A c : Append(<<>>, c) = <<c>>
  OBVIOUS

\* The number before its last digit, and the digit.
LEMMA LastDigit ==
  ASSUME NEW a \in Nat, NEW b \in 0 .. 9, NEW n, n = 10 * a + b
  PROVE  n \div 10 = a /\ n % 10 = b
  OBVIOUS

\* int() of a numeral is the number.
LEMMA ValueOfNumeral ==
  \A n \in Nat : Value(Numeral[n]) = n
  <1> DEFINE P == {n \in Nat : Value(Numeral[n]) = n}
  <1>1. ASSUME NEW n \in Nat, \A k \in Nat : k < n => k \in P
        PROVE  n \in P
    <2>1. CASE n < 10
      <3>1. n \in 0 .. 9
        BY <2>1
      <3>2. /\ Numeral[n] = Append(<<>>, Numerals[n + 1])
            /\ <<>> \in Seq(Digits) /\ Numerals[n + 1] \in Digits
        <4>1. Numeral[n] = <<Numerals[n + 1]>>
          BY <2>1, NumeralIs
        <4>2. <<>> \in Seq(Digits) /\ Numerals[n + 1] \in Digits
          BY <3>1, DigitOfNumerals
        <4> QED
          BY <4>1, <4>2, AppendToEmpty
      <3>3. Value(Numeral[n]) = (10 * Value(<<>>)) + Digit(Numerals[n + 1])
        BY <3>2, ValueOfAppend
      <3>4. Value(<<>>) = 0 /\ Digit(Numerals[n + 1]) = n
        BY <3>1, ValueOfAppend, DigitOfNumerals
      <3> QED
        BY <3>3, <3>4
    <2>2. CASE ~(n < 10)
      <3>1. /\ n \div 10 \in Nat /\ n \div 10 < n /\ n % 10 \in 0 .. 9
            /\ (10 * (n \div 10)) + (n % 10) = n
        BY <2>2
      <3>2. Value(Numeral[n \div 10]) = n \div 10 /\ Numeral[n \div 10] \in Seq(Digits)
        BY <1>1, <3>1, NumeralIs
      <3>3. Numeral[n] = Append(Numeral[n \div 10], Numerals[(n % 10) + 1])
        BY <2>2, NumeralIs
      <3>4. Numerals[(n % 10) + 1] \in Digits /\ Digit(Numerals[(n % 10) + 1]) = n % 10
        BY <3>1, DigitOfNumerals
      <3>5. Value(Numeral[n]) = (10 * (n \div 10)) + (n % 10)
        BY <3>2, <3>3, <3>4, ValueOfAppend
      <3> QED
        BY <3>1, <3>5
    <2> QED
      BY <2>1, <2>2
  <1> HIDE DEF P
  <1>2. \A n \in Nat : n \in P
    BY <1>1, Induction
  <1> QED
    BY <1>2 DEF P

\* A numeral has no leading zero, but that of zero.
LEMMA NumeralLeads ==
  \A n \in Nat : Numeral[n] # <<>> /\ (n > 0 => Numeral[n][1] # "0")
  <1> DEFINE P == {n \in Nat : Numeral[n] # <<>> /\ (n > 0 => Numeral[n][1] # "0")}
  <1>1. ASSUME NEW n \in Nat, \A k \in Nat : k < n => k \in P
        PROVE  n \in P
    <2>1. CASE n < 10
      <3>1. n \in 0 .. 9 /\ 0 \in 0 .. 9 /\ Numerals[0 + 1] = "0"
        BY <2>1 DEF Numerals
      <3>2. Numerals[n + 1] = "0" => n = 0
        BY <3>1, DigitOfNumerals
      <3>3. Numeral[n] = <<Numerals[n + 1]>>
        BY <2>1, NumeralIs
      <3> QED
        BY <3>2, <3>3
    <2>2. CASE ~(n < 10)
      <3> DEFINE m == n \div 10
                 t == Numeral[m]
                 c == Numerals[(n % 10) + 1]
      <3>1. m \in Nat /\ m < n /\ m > 0 /\ n % 10 \in 0 .. 9
        BY <2>2
      <3>2. t \in Seq(Digits) /\ t # <<>> /\ t[1] # "0"
        <4> HIDE DEF m
        <4> QED
          BY <1>1, <3>1, NumeralIs
      <3>3. Numeral[n] = Append(t, c) /\ c \in Digits
        BY <2>2, <3>1, NumeralIs, DigitOfNumerals
      <3> HIDE DEF t, c
      <3>4. 1 \in 1 .. Len(t)
        BY <3>2
      <3> QED
        BY <3>2, <3>3, <3>4, AppendProperties
    <2> QED
      BY <2>1, <2>2
  <1> HIDE DEF P
  <1>2. \A n \in Nat : n \in P
    BY <1>1, Induction
  <1> QED
    BY <1>2 DEF P

\* A text of digits without a leading zero is the numeral of its int().
LEMMA NumeralOfValue ==
  \A s \in Seq(Digits) :
    (s # <<>> /\ s[1] # "0") => Value(s) > 0 /\ Numeral[Value(s)] = s
  <1> DEFINE Good(s) == Value(s) > 0 /\ Numeral[Value(s)] = s
             P == {n \in Nat : \A s \in Seq(Digits) :
                     (Len(s) = n /\ s # <<>> /\ s[1] # "0") => Good(s)}
  <1>1. ASSUME NEW n \in Nat, \A k \in Nat : k < n => k \in P
        PROVE  n \in P
    <2> SUFFICES ASSUME NEW s \in Seq(Digits), Len(s) = n, s # <<>>, s[1] # "0"
                 PROVE  Good(s)
      OBVIOUS
    <2>1. PICK t \in Seq(Digits), c \in Digits : s = Append(t, c)
      BY SequenceEmptyOrAppend
    <2>2. Value(s) = 10 * Value(t) + Digit(c) /\ Value(t) \in Nat
      BY <2>1, ValueOfAppend
    <2>3. Digit(c) \in 0 .. 9 /\ Numerals[Digit(c) + 1] = c
      BY NumeralsOfDigit
    <2>4. CASE t = <<>>
      <3>1. s = <<c>> /\ Value(s) = Digit(c) /\ c # "0"
        BY <2>1, <2>2, <2>3, <2>4, ValueOfAppend
      <3>2. Numerals[0 + 1] = "0"
        BY DEF Numerals
      <3>3. Digit(c) # 0
        BY <2>3, <3>1, <3>2
      <3>4. Numeral[Value(s)] = <<Numerals[Value(s) + 1]>>
        <4>1. Value(s) \in Nat /\ Value(s) < 10
          BY <2>3, <3>1
        <4> QED
          BY <4>1, NumeralIs
      <3> QED
        BY <2>3, <3>1, <3>3, <3>4
    <2>5. CASE t # <<>>
      <3>1. 1 \in 1 .. Len(t) /\ Len(t) \in Nat /\ Len(t) < n
        BY <2>1, <2>5, AppendProperties
      <3>2. t[1] # "0"
        BY <2>1, <3>1, AppendProperties
      <3>3. Len(t) \in P
        BY <1>1, <3>1
      <3>4. Good(t)
        BY <2>5, <3>2, <3>3
      <3> DEFINE v == Value(s)
      <3>5. v \in Nat /\ ~(v < 10) /\ v \div 10 = Value(t) /\ v % 10 = Digit(c)
        <4>1. v \in Nat /\ ~(v < 10)
          BY <2>2, <2>3, <3>4
        <4> QED
          BY <2>2, <2>3, <4>1, LastDigit
      <3>6. Numeral[v] = Append(Numeral[v \div 10], Numerals[(v % 10) + 1])
        BY <3>5, NumeralIs
      <3> QED
        BY <2>1, <2>3, <3>4, <3>5, <3>6
    <2> QED
      BY <2>4, <2>5
  <1> HIDE DEF P
  <1>2. \A n \in Nat : n \in P
    BY <1>1, Induction
  <1>3. \A s \in Seq(Digits) : Len(s) \in Nat
    OBVIOUS
  <1> QED
    BY <1>2, <1>3 DEF P

\* A smaller number has no longer numeral.
LEMMA NumeralGrows ==
  \A n \in Nat : \A m \in 0 .. n : Len(Numeral[m]) <= Len(Numeral[n])
  <1> DEFINE P == {n \in Nat : \A m \in 0 .. n : Len(Numeral[m]) <= Len(Numeral[n])}
  <1>1. ASSUME NEW n \in Nat, \A k \in Nat : k < n => k \in P
        PROVE  n \in P
    <2> SUFFICES ASSUME NEW m \in 0 .. n
                 PROVE  Len(Numeral[m]) <= Len(Numeral[n])
      OBVIOUS
    <2>1. ASSUME NEW k \in Nat, k < 10 PROVE Len(Numeral[k]) = 1
      BY <2>1, NumeralIs
    <2>2. ASSUME NEW k \in Nat, ~(k < 10)
          PROVE  /\ k \div 10 \in Nat /\ Len(Numeral[k \div 10]) \in Nat
                 /\ Len(Numeral[k]) = Len(Numeral[k \div 10]) + 1
      <3>1. k \div 10 \in Nat /\ k % 10 \in 0 .. 9
        OBVIOUS
      <3>2. Numeral[k \div 10] \in Seq(Digits) /\ Numerals[(k % 10) + 1] \in Digits
        BY <3>1, NumeralIs, DigitOfNumerals
      <3>3. Numeral[k] = Append(Numeral[k \div 10], Numerals[(k % 10) + 1])
        BY <2>2, NumeralIs
      <3> QED
        BY <3>1, <3>2, <3>3, AppendProperties
    <2>3. m \in Nat
      OBVIOUS
    <2>4. CASE n < 10
      BY <2>1, <2>3, <2>4
    <2>5. CASE ~(n < 10) /\ m < 10
      <3>1. Len(Numeral[m]) = 1
        BY <2>1, <2>3, <2>5
      <3>2. Len(Numeral[n \div 10]) \in Nat /\ Len(Numeral[n]) = Len(Numeral[n \div 10]) + 1
        BY <2>2, <2>5
      <3> QED
        BY <3>1, <3>2
    <2>6. CASE ~(n < 10) /\ ~(m < 10)
      <3>1. n \div 10 \in Nat /\ n \div 10 < n /\ m \div 10 \in 0 .. (n \div 10)
        BY <2>3, <2>6
      <3>2. n \div 10 \in P
        BY <1>1, <3>1
      <3>3. Len(Numeral[m \div 10]) <= Len(Numeral[n \div 10])
        BY <3>1, <3>2
      <3>4. Len(Numeral[n \div 10]) \in Nat /\ Len(Numeral[n]) = Len(Numeral[n \div 10]) + 1
        BY <2>2, <2>6
      <3>5. Len(Numeral[m \div 10]) \in Nat /\ Len(Numeral[m]) = Len(Numeral[m \div 10]) + 1
        BY <2>2, <2>3, <2>6
      <3> QED
        BY <3>3, <3>4, <3>5
    <2> QED
      BY <2>4, <2>5, <2>6
  <1> HIDE DEF P
  <1>2. \A n \in Nat : n \in P
    BY <1>1, Induction
  <1> QED
    BY <1>2 DEF P

-----------------------------------------------------------------------------
(* Texts.                                                                   *)

Zeros(k) == [i \in 1 .. k |-> "0"]
Normal(s) == s # <<>> /\ (s = <<"0">> \/ s[1] # "0")

LEMMA DigitsAreNoSigns == "0" \in Digits /\ \A c \in Digits : c \notin Signs
  <1>1. ASSUME NEW i \in 1 .. 10 PROVE Numerals[i] \notin Signs
    <2>1. /\ Numerals[1] = "0" /\ Numerals[2] = "1" /\ Numerals[3] = "2"
          /\ Numerals[4] = "3" /\ Numerals[5] = "4" /\ Numerals[6] = "5"
          /\ Numerals[7] = "6" /\ Numerals[8] = "7" /\ Numerals[9] = "8"
          /\ Numerals[10] = "9"
      BY DEF Numerals
    <2>2. i = 1 \/ i = 2 \/ i = 3 \/ i = 4 \/ i = 5 \/ i = 6 \/ i = 7 \/ i = 8 \/ i = 9 \/ i = 10
      OBVIOUS
    <2> QED
      BY <2>1, <2>2 DEF Signs
  <1>2. Numerals[1] = "0"
    BY DEF Numerals
  <1> QED
    BY <1>1, <1>2 DEF Digits

LEMMA ZerosAreDigits ==
  ASSUME NEW k \in Nat
  PROVE  /\ Zeros(k) \in Seq(Digits) /\ Len(Zeros(k)) = k
         /\ \A i \in 1 .. k : Zeros(k)[i] = "0"
  BY DigitsAreNoSigns DEF Zeros

\* Zeros before a text of digits, one by one.
LEMMA AfterZeros ==
  ASSUME NEW k \in Nat, NEW s \in Seq(Digits)
  PROVE  /\ Zeros(k) \o s \in Seq(Digits)
         /\ Len(Zeros(k) \o s) = k + Len(s)
         /\ \A i \in 1 .. k + Len(s) :
              (Zeros(k) \o s)[i] = IF i <= k THEN "0" ELSE s[i - k]
  <1> DEFINE z == Zeros(k)
  <1>1. z \in Seq(Digits) /\ Len(z) = k /\ \A i \in 1 .. k : z[i] = "0"
    BY ZerosAreDigits
  <1>2. Len(s) \in Nat
    OBVIOUS
  <1> HIDE DEF z
  <1>3. /\ z \o s \in Seq(Digits) /\ Len(z \o s) = Len(z) + Len(s)
        /\ \A i \in 1 .. Len(z) + Len(s) :
             (z \o s)[i] = IF i <= Len(z) THEN z[i] ELSE s[i - Len(z)]
    BY <1>1, ConcatProperties
  <1>4. \A i \in 1 .. k + Len(s) : (z \o s)[i] = IF i <= k THEN "0" ELSE s[i - k]
    BY <1>1, <1>2, <1>3
  <1> QED
    BY <1>1, <1>3, <1>4 DEF z

\* lstrip("0") or "0" takes the leading zeros and leaves a normal text,
LEMMA Stripped ==
  ASSUME NEW s \in Seq(Digits), s # <<>>
  PROVE  /\ WithoutZeros(s) \in Seq(Digits) /\ Normal(WithoutZeros(s))
         /\ \E k \in 0 .. Len(s) : s = Zeros(k) \o WithoutZeros(s)
  <1> DEFINE kept == {i \in DOMAIN s : s[i] # "0"}
             N == Len(s)
  <1>1. N \in Nat \ {0} /\ DOMAIN s = 1 .. N /\ \A i \in 1 .. N : s[i] \in Digits
    BY LenProperties, EmptySeq
  <1>2. CASE kept = {}
    <2> DEFINE w == <<"0">>
    <2>1. WithoutZeros(s) = w
      BY <1>2 DEF WithoutZeros
    <2>2. w \in Seq(Digits) /\ Len(w) = 1 /\ w[1] = "0"
      BY DigitsAreNoSigns
    <2>3. N - 1 \in Nat /\ N - 1 \in 0 .. N
      BY <1>1
    <2> HIDE DEF w
    <2> DEFINE t == Zeros(N - 1) \o w
    <2>4. /\ t \in Seq(Digits) /\ Len(t) = N
          /\ \A i \in 1 .. N : t[i] = IF i <= N - 1 THEN "0" ELSE w[i - (N - 1)]
      <3> HIDE DEF N
      <3>1. (N - 1) + Len(w) = N
        BY <1>1, <2>2
      <3> QED
        BY <2>2, <2>3, <3>1, AfterZeros
    <2> HIDE DEF t
    <2>5. \A i \in 1 .. N : t[i] = s[i]
      BY <1>1, <1>2, <2>2, <2>4
    <2>6. t = s
      BY <2>4, <2>5, SeqEqual
    <2> QED
      BY <2>1, <2>2, <2>3, <2>6 DEF t, w, Normal
  <1>3. CASE kept # {}
    <2> DEFINE first == CHOOSE i \in kept : \A j \in kept : i <= j
               w == SubSeq(s, first, N)
               k == first - 1
    <2>1. first \in kept /\ \A j \in kept : first <= j
      <3>1. kept \subseteq Nat
        BY <1>1
      <3> HIDE DEF kept
      <3> QED
        BY <1>3, <3>1, Least
    <2>2. WithoutZeros(s) = w
      BY <1>3 DEF WithoutZeros
    <2> HIDE DEF first
    <2>3. /\ first \in 1 .. N /\ s[first] # "0"
          /\ \A i \in 1 .. N : i < first => s[i] = "0"
      BY <1>1, <2>1
    <2>4. /\ w \in Seq(Digits) /\ Len(w) = N - first + 1
          /\ \A i \in 1 .. N - first + 1 : w[i] = s[first + i - 1]
      <3>1. \A i \in first .. N : s[i] \in Digits
        BY <1>1, <2>3
      <3> HIDE DEF N
      <3> QED
        BY <1>1, <2>3, <3>1, SubSeqProperties
    <2> HIDE DEF w, N, kept
    <2>5. k \in Nat /\ k \in 0 .. N /\ k + Len(w) = N
      BY <1>1, <2>3, <2>4
    <2> DEFINE t == Zeros(k) \o w
    <2>6. /\ t \in Seq(Digits) /\ Len(t) = N
          /\ \A i \in 1 .. N : t[i] = IF i <= k THEN "0" ELSE w[i - k]
      BY <2>4, <2>5, AfterZeros
    <2> HIDE DEF t
    <2>7. \A i \in 1 .. N : t[i] = s[i]
      <3> SUFFICES ASSUME NEW i \in 1 .. N PROVE t[i] = s[i]
        OBVIOUS
      <3>1. CASE i < first
        BY <1>1, <2>3, <2>6, <3>1
      <3>2. CASE ~(i < first)
        <4>1. i - k \in 1 .. N - first + 1 /\ first + (i - k) - 1 = i
          BY <1>1, <2>3, <3>2
        <4>2. t[i] = w[i - k]
          BY <1>1, <2>3, <2>6, <3>2
        <4> QED
          BY <2>4, <4>1, <4>2
      <3> QED
        BY <3>1, <3>2
    <2>8. t = s
      BY <2>6, <2>7, SeqEqual DEF N
    <2>9. Normal(w)
      BY <1>1, <2>3, <2>4 DEF Normal
    <2> QED
      BY <2>2, <2>4, <2>5, <2>8, <2>9 DEF t, N
  <1> QED
    BY <1>2, <1>3

\* and gives a normal text back, whatever zeros are before it.
LEMMA StrippedZeros ==
  ASSUME NEW k \in Nat, NEW w \in Seq(Digits), Normal(w)
  PROVE  WithoutZeros(Zeros(k) \o w) = w
  <1> DEFINE s == Zeros(k) \o w
             N == Len(s)
             kept == {i \in DOMAIN s : s[i] # "0"}
  <1>1. Len(w) \in Nat \ {0}
    BY EmptySeq DEF Normal
  <1>2. /\ s \in Seq(Digits) /\ N = k + Len(w) /\ DOMAIN s = 1 .. N
        /\ \A i \in 1 .. N : s[i] = IF i <= k THEN "0" ELSE w[i - k]
    <2>1. /\ s \in Seq(Digits) /\ N = k + Len(w)
          /\ \A i \in 1 .. k + Len(w) : s[i] = IF i <= k THEN "0" ELSE w[i - k]
      BY AfterZeros
    <2> HIDE DEF s
    <2> QED
      BY <2>1
  <1> HIDE DEF s
  <1>3. CASE w = <<"0">>
    <2>1. kept = {}
      BY <1>2, <1>3
    <2> QED
      BY <1>3, <2>1 DEF WithoutZeros, s
  <1>4. CASE w[1] # "0"
    <2>1. k + 1 \in kept /\ \A i \in kept : k + 1 <= i
      BY <1>1, <1>2, <1>4
    <2> DEFINE first == CHOOSE i \in kept : \A j \in kept : i <= j
    <2>2. first = k + 1
      <3>1. first \in kept /\ first <= k + 1
        BY <2>1
      <3>2. first \in Nat
        BY <1>2, <3>1
      <3> HIDE DEF first, kept
      <3> QED
        BY <2>1, <3>1, <3>2
    <2>3. WithoutZeros(s) = SubSeq(s, first, N)
      BY <2>1 DEF WithoutZeros
    <2> HIDE DEF first, kept
    <2> DEFINE t == SubSeq(s, k + 1, N)
    <2>4. /\ t \in Seq(Digits) /\ Len(t) = Len(w)
          /\ \A i \in 1 .. Len(w) : t[i] = s[k + i]
      <3>1. \A i \in k + 1 .. N : s[i] \in Digits
        BY <1>2
      <3>2. k + 1 \in Int /\ N \in Int /\ N - (k + 1) + 1 = Len(w) /\ k + 1 <= N
        BY <1>1, <1>2
      <3>3. \A i \in 1 .. Len(w) : k + 1 + i - 1 = k + i
        OBVIOUS
      <3> HIDE DEF N
      <3> QED
        BY <3>1, <3>2, <3>3, SubSeqProperties
    <2> HIDE DEF t
    <2>5. \A i \in 1 .. Len(w) : t[i] = w[i]
      BY <1>1, <1>2, <2>4
    <2>6. t = w
      BY <2>4, <2>5, SeqEqual
    <2> QED
      BY <2>2, <2>3, <2>6 DEF t, s
  <1> QED
    BY <1>3, <1>4 DEF Normal

\* The numerals are the normal texts of digits.
LEMMA NormalIsNumeral ==
  /\ \A n \in Nat : Normal(Numeral[n]) /\ Numeral[n] \in Seq(Digits)
  /\ \A s \in Seq(Digits) : Normal(s) => Value(s) \in Nat /\ Numeral[Value(s)] = s
  <1>1. Numerals[0 + 1] = "0"
    BY DEF Numerals
  <1>2. Numeral[0] = <<"0">>
    BY <1>1, NumeralIs
  <1>3. ASSUME NEW n \in Nat PROVE Normal(Numeral[n]) /\ Numeral[n] \in Seq(Digits)
    BY <1>2, NumeralIs, NumeralLeads DEF Normal
  <1>4. Value(<<"0">>) = 0
    BY <1>2, ValueOfNumeral
  <1>5. ASSUME NEW s \in Seq(Digits), Normal(s)
        PROVE  Value(s) \in Nat /\ Numeral[Value(s)] = s
    BY <1>2, <1>4, <1>5, NumeralOfValue, ValueOfAppend DEF Normal
  <1> QED
    BY <1>3, <1>5

\* One element before a sequence, and the way back.
LEMMA AfterFirst ==
  ASSUME NEW S, NEW c \in S, NEW s \in Seq(S)
  PROVE  /\ <<c>> \o s \in Seq(S) /\ <<c>> \o s # <<>>
         /\ Head(<<c>> \o s) = c /\ Tail(<<c>> \o s) = s
  <1> DEFINE a == <<c>>
             t == a \o s
             r == Tail(t)
  <1>1. a \in Seq(S) /\ Len(a) = 1 /\ a[1] = c /\ Len(s) \in Nat
    OBVIOUS
  <1> HIDE DEF a
  <1>2. /\ t \in Seq(S) /\ Len(t) = Len(a) + Len(s)
        /\ \A i \in 1 .. Len(a) + Len(s) : t[i] = IF i <= Len(a) THEN a[i] ELSE s[i - Len(a)]
    BY <1>1, ConcatProperties
  <1> HIDE DEF t
  <1>3. t # <<>> /\ Head(t) = c
    BY <1>1, <1>2
  <1>4. r \in Seq(S) /\ Len(r) = Len(t) - 1 /\ \A i \in 1 .. Len(r) : r[i] = t[i + 1]
    BY <1>2, <1>3, HeadTailProperties
  <1> HIDE DEF r
  <1>5. Len(r) = Len(s)
    BY <1>1, <1>2, <1>4
  <1>6. ASSUME NEW i \in 1 .. Len(s) PROVE r[i] = s[i]
    <2>1. i + 1 \in 1 .. 1 + Len(s) /\ ~(i + 1 <= 1) /\ (i + 1) - 1 = i
      BY <1>1
    <2> QED
      BY <1>1, <1>2, <1>4, <1>5, <2>1
  <1>7. r = s
    BY <1>4, <1>5, <1>6, SeqEqual
  <1> QED
    BY <1>2, <1>3, <1>7 DEF a, t, r

LEMMA HeadBeforeTail ==
  ASSUME NEW S, NEW t \in Seq(S), t # <<>>
  PROVE  t = <<Head(t)>> \o Tail(t)
  <1> DEFINE a == <<Head(t)>>
             r == Tail(t)
             u == a \o r
  <1>1. /\ Head(t) \in S /\ r \in Seq(S) /\ Len(r) = Len(t) - 1 /\ Len(t) \in Nat \ {0}
        /\ \A i \in 1 .. Len(r) : r[i] = t[i + 1]
    BY HeadTailProperties, EmptySeq
  <1>2. a \in Seq(S) /\ Len(a) = 1 /\ a[1] = t[1]
    BY <1>1
  <1> HIDE DEF a, r
  <1>3. /\ u \in Seq(S) /\ Len(u) = Len(a) + Len(r)
        /\ \A i \in 1 .. Len(a) + Len(r) : u[i] = IF i <= Len(a) THEN a[i] ELSE r[i - Len(a)]
    BY <1>1, <1>2, ConcatProperties
  <1> HIDE DEF u
  <1>4. ASSUME NEW i \in 1 .. Len(t) PROVE u[i] = t[i]
    <2>1. CASE i = 1
      BY <1>1, <1>2, <1>3, <2>1
    <2>2. CASE i # 1
      <3>1. i - 1 \in 1 .. Len(r) /\ (i - 1) + 1 = i
        BY <1>1, <2>2
      <3>2. u[i] = r[i - 1]
        BY <1>1, <1>2, <1>3, <2>2
      <3> QED
        BY <1>1, <3>1, <3>2
    <2> QED
      BY <2>1, <2>2
  <1>5. u = t
    BY <1>1, <1>2, <1>3, <1>4, SeqEqual
  <1> QED
    BY <1>5 DEF u, a, r

-----------------------------------------------------------------------------
(* parse_id.                                                                *)

BigInt == -Limit .. (Limit - 1)
Abs(n) == IF n < 0 THEN -n ELSE n

\* What Denotes says, with the text put together from its sign and its digits.
LEMMA DenotesSplit ==
  ASSUME NEW text, NEW n \in Int
  PROVE  Denotes(text, n) <=>
           \E sign \in {<<>>, <<"+">>, <<"-">>}, k \in 0 .. Len(text) :
             /\ n < 0 => sign = <<"-">>
             /\ n > 0 => sign # <<"-">>
             /\ text = sign \o (Zeros(k) \o Numeral[Abs(n)])
  <1> DEFINE T == Digits \cup Signs
  <1>1. Abs(n) \in Nat
    BY DEF Abs
  <1>2. Numeral[Abs(n)] \in Seq(T)
    <2>1. Numeral[Abs(n)] \in Seq(Digits)
      BY <1>1, NormalIsNumeral
    <2> QED
      BY <2>1, SeqMonotonic
  <1>3. \A sign \in {<<>>, <<"+">>, <<"-">>}, k \in 0 .. Len(text) :
          (sign \o [i \in 1 .. k |-> "0"]) \o Numeral[Abs(n)]
            = sign \o (Zeros(k) \o Numeral[Abs(n)])
    <2> SUFFICES ASSUME NEW sign \in {<<>>, <<"+">>, <<"-">>}, NEW k \in 0 .. Len(text)
                 PROVE  (sign \o Zeros(k)) \o Numeral[Abs(n)]
                          = sign \o (Zeros(k) \o Numeral[Abs(n)])
      BY DEF Zeros
    <2>1. sign \in Seq(T)
      <3>1. "+" \in T /\ "-" \in T
        BY DEF Signs
      <3> HIDE DEF T
      <3>2. <<>> \in Seq(T) /\ <<"+">> \in Seq(T) /\ <<"-">> \in Seq(T)
        BY <3>1
      <3> QED
        BY <3>2
    <2>2. Zeros(k) \in Seq(T)
      <3>1. k \in Nat
        OBVIOUS
      <3>2. Zeros(k) \in Seq(Digits)
        BY <3>1, ZerosAreDigits
      <3> QED
        BY <3>2, SeqMonotonic
    <2> DEFINE z == Zeros(k)
               num == Numeral[Abs(n)]
    <2>3. num \in Seq(T) /\ z \in Seq(T)
      BY <1>2, <2>2
    <2> HIDE DEF T, z, num
    <2>4. (sign \o z) \o num = sign \o (z \o num)
      BY <2>1, <2>3, ConcatAssociative
    <2> QED
      BY <2>4 DEF z, num
  <1> QED
    BY <1>3 DEF Denotes, Abs

\* Whatever parse_id gives is in the range and denoted by the text.
LEMMA ParsedIsDenoted ==
  ASSUME NEW S, NEW text \in Seq(S), ParseId(text) # Invalid
  PROVE  ParseId(text) \in BigInt /\ Denotes(text, ParseId(text))
  <1> DEFINE u == Unsigned(text)
             w == WithoutZeros(u)
             n == Number(text, w)
  <1>1. SignedDecimal(text) /\ n \in BigInt /\ ParseId(text) = n
    <2>1. ParseId(text) = IF ~SignedDecimal(text) \/ Len(w) > MaxDigits \/ n \notin BigInt
                          THEN Invalid ELSE n
      BY Zenon DEF ParseId, BigInt
    <2> HIDE DEF n, w, u
    <2> QED
      BY <2>1
  <1> DEFINE signed == text # <<>> /\ Head(text) \in Signs
             sign == IF signed THEN <<Head(text)>> ELSE <<>>
  <1>2. text # <<>> /\ u # <<>> /\ u \in Seq(S) /\ Len(u) \in Nat /\ Len(u) <= Len(text)
    <2>1. u # <<>>
      BY <1>1 DEF SignedDecimal
    <2>2. text # <<>>
      BY <2>1 DEF Unsigned
    <2>3. CASE signed
      <3>1. u = Tail(text)
        BY <2>3 DEF Unsigned
      <3> QED
        BY <2>1, <2>2, <3>1, HeadTailProperties
    <2>4. CASE ~signed
      <3>1. u = text
        BY <2>4 DEF Unsigned
      <3> QED
        BY <2>1, <2>2, <3>1
    <2> QED
      BY <2>3, <2>4
  <1>3. u \in Seq(Digits)
    <2>1. \A i \in 1 .. Len(u) : u[i] \in Digits
      BY <1>1, <1>2 DEF SignedDecimal
    <2> HIDE DEF u
    <2> QED
      BY <1>2, <2>1
  <1>4. text = sign \o u
    <2>1. CASE signed
      <3>1. u = Tail(text) /\ sign = <<Head(text)>>
        BY <2>1 DEF Unsigned
      <3> QED
        BY <1>2, <3>1, HeadBeforeTail
    <2>2. CASE ~signed
      <3>1. u = text /\ sign = <<>>
        BY <2>2 DEF Unsigned
      <3> QED
        BY <3>1, ConcatEmptySeq
    <2> QED
      BY <2>1, <2>2
  <1> HIDE DEF u
  <1>5. w \in Seq(Digits) /\ Normal(w) /\ \E k \in 0 .. Len(u) : u = Zeros(k) \o w
    BY <1>2, <1>3, Stripped
  <1>6. PICK k \in 0 .. Len(u) : u = Zeros(k) \o w
    BY <1>5
  <1> HIDE DEF w
  <1>7. Value(w) \in Nat /\ Numeral[Value(w)] = w
    BY <1>5, NormalIsNumeral
  <1>8. sign \in {<<>>, <<"+">>, <<"-">>} /\ (sign = <<"-">> <=> Head(text) = "-")
    <2>1. CASE signed
      BY <2>1 DEF Signs
    <2>2. CASE ~signed
      BY <1>2, <2>2 DEF Signs
    <2> QED
      BY <2>1, <2>2
  <1>9. n = IF sign = <<"-">> THEN -Value(w) ELSE Value(w)
    BY <1>8 DEF Number
  <1> HIDE DEF n, sign
  <1>10. n \in Int /\ Abs(n) = Value(w) /\ (n < 0 => sign = <<"-">>) /\ (n > 0 => sign # <<"-">>)
    BY <1>7, <1>9 DEF Abs
  <1>11. k \in 0 .. Len(text)
    <2>1. Len(text) \in Nat
      OBVIOUS
    <2> QED
      BY <1>2, <1>6, <2>1
  <1>12. text = sign \o (Zeros(k) \o Numeral[Abs(n)])
    BY <1>4, <1>6, <1>7, <1>10
  <1>13. Denotes(text, n)
    BY <1>8, <1>10, <1>11, <1>12, DenotesSplit
  <1> QED
    BY <1>1, <1>13

\* Whatever number of the range a text denotes, parse_id gives.
LEMMA DenotedIsParsed ==
  ASSUME NEW text, NEW n \in BigInt, Denotes(text, n)
  PROVE  ParseId(text) = n
  <1> DEFINE num == Numeral[Abs(n)]
  <1>1. n \in Int /\ Abs(n) \in Nat /\ Abs(n) <= Limit /\ Limit \in Nat
    BY InputsAssumption DEF BigInt, Abs
  <1>2. PICK sign \in {<<>>, <<"+">>, <<"-">>}, k \in 0 .. Len(text) :
          /\ n < 0 => sign = <<"-">>
          /\ n > 0 => sign # <<"-">>
          /\ text = sign \o (Zeros(k) \o num)
    BY <1>1, DenotesSplit
  <1>3. /\ num \in Seq(Digits) /\ Normal(num) /\ Value(num) = Abs(n)
        /\ Len(num) <= Len(Numeral[Limit])
    BY <1>1, NormalIsNumeral, ValueOfNumeral, NumeralGrows
  <1> HIDE DEF num
  <1> DEFINE u == Zeros(k) \o num
  <1>4. k \in Nat
    OBVIOUS
  <1>5. u \in Seq(Digits) /\ u # <<>> /\ WithoutZeros(u) = num
    <2>1. Len(num) \in Nat \ {0}
      BY <1>3, EmptySeq DEF Normal
    <2>2. u \in Seq(Digits) /\ Len(u) = k + Len(num)
      BY <1>3, <1>4, AfterZeros
    <2>3. WithoutZeros(u) = num
      BY <1>3, <1>4, StrippedZeros
    <2> HIDE DEF u
    <2>4. u # <<>>
      BY <1>4, <2>1, <2>2, EmptySeq
    <2> QED
      BY <2>2, <2>3, <2>4
  <1> HIDE DEF u
  <1>6. text = sign \o u
    BY <1>2 DEF u
  <1>7. Unsigned(text) = u /\ (Head(text) = "-" <=> sign = <<"-">>)
    <2>1. CASE sign = <<>>
      <3>1. text = u
        BY <1>5, <1>6, <2>1, ConcatEmptySeq
      <3>2. Head(text) \in Digits
        BY <1>5, <3>1, HeadTailProperties
      <3>3. Head(text) \notin Signs
        BY <3>2, DigitsAreNoSigns
      <3> QED
        BY <2>1, <3>1, <3>3 DEF Unsigned, Signs
    <2>2. ASSUME NEW c \in Signs, sign = <<c>>
          PROVE  Unsigned(text) = u /\ Head(text) = c
      <3> DEFINE T == Digits \cup Signs
      <3>1. u \in Seq(T)
        BY <1>5, SeqMonotonic
      <3>2. c \in T
        OBVIOUS
      <3>3. text # <<>> /\ Head(text) = c /\ Tail(text) = u
        BY <1>6, <2>2, <3>1, <3>2, AfterFirst
      <3> QED
        BY <3>3 DEF Unsigned
    <2>3. CASE sign = <<"+">>
      <3>1. "+" \in Signs
        BY DEF Signs
      <3> QED
        BY <2>2, <2>3, <3>1
    <2>4. CASE sign = <<"-">>
      <3>1. "-" \in Signs
        BY DEF Signs
      <3> QED
        BY <2>2, <2>4, <3>1
    <2> QED
      BY <2>1, <2>3, <2>4
  <1>8. SignedDecimal(text)
    <2>1. \A i \in DOMAIN u : u[i] \in Digits
      BY <1>5
    <2> QED
      BY <1>5, <1>7, <2>1 DEF SignedDecimal
  <1>9. Number(text, num) = n
    <2>1. Number(text, num) = IF sign = <<"-">> THEN -Abs(n) ELSE Abs(n)
      BY <1>3, <1>7 DEF Number
    <2>2. CASE sign = <<"-">>
      <3>1. ~(n > 0)
        BY <1>2, <2>2
      <3> QED
        BY <1>1, <2>1, <2>2, <3>1 DEF Abs
    <2>3. CASE sign # <<"-">>
      <3>1. ~(n < 0)
        BY <1>2, <2>3
      <3> QED
        BY <1>1, <2>1, <2>3, <3>1 DEF Abs
    <2> QED
      BY <2>2, <2>3
  <1>10. ~(Len(num) > MaxDigits)
    <2>1. Numeral[Limit] \in Seq(Digits)
      BY <1>1, NormalIsNumeral
    <2> QED
      BY <1>3, <2>1, InputsAssumption
  <1> QED
    <2>1. ParseId(text) =
            IF \/ ~SignedDecimal(text)
               \/ Len(WithoutZeros(Unsigned(text))) > MaxDigits
               \/ Number(text, WithoutZeros(Unsigned(text))) \notin BigInt
            THEN Invalid ELSE Number(text, WithoutZeros(Unsigned(text)))
      BY Zenon DEF ParseId, BigInt
    <2> QED
      BY <1>5, <1>7, <1>8, <1>9, <1>10, <2>1

\* parse_id (app.py:15-28) gives a number of BIGINT's range exactly if the text
\* denotes it, for every text and every range whose bounds fit into the digits
\* that may be counted.
THEOREM ParseIdIsExact ==
  ASSUME NEW S, NEW text \in Seq(S), NEW n \in -Limit .. (Limit - 1)
  PROVE  ParseId(text) = n <=> Denotes(text, n)
  <1>1. ParseId(text) = n => ParseId(text) # Invalid
    BY InputsAssumption
  <1> QED
    BY <1>1, ParsedIsDenoted, DenotedIsParsed DEF BigInt

\* So a text is refused exactly if it denotes none: counting the digits before
\* converting them, after the zeros are gone, costs no valid id (app.py:19-22).
THEOREM EveryTextParsesExactly ==
  ASSUME NEW S
  PROVE  ParsesExactly(Seq(S))
  <1> SUFFICES ASSUME NEW text \in Seq(S)
               PROVE  IF \E n \in -Limit .. (Limit - 1) : Denotes(text, n)
                      THEN ParseId(text) # Invalid /\ Denotes(text, ParseId(text))
                      ELSE ParseId(text) = Invalid
    BY DEF ParsesExactly
  <1>1. CASE \E n \in -Limit .. (Limit - 1) : Denotes(text, n)
    <2>1. PICK n \in -Limit .. (Limit - 1) : Denotes(text, n)
      BY <1>1
    <2>2. ParseId(text) = n
      BY <2>1, ParseIdIsExact
    <2>3. n # Invalid
      BY InputsAssumption
    <2> QED
      BY <1>1, <2>1, <2>2, <2>3
  <1>2. CASE ~ \E n \in -Limit .. (Limit - 1) : Denotes(text, n)
    <2>1. ParseId(text) = Invalid
      BY <1>2, ParsedIsDenoted DEF BigInt
    <2> QED
      BY <1>2, <2>1
  <1> QED
    BY <1>1, <1>2
===============================================================================
