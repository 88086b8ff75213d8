---------------------------- MODULE FileJobs_proofs ----------------------------
(***************************************************************************)
(* Theorems about FileJobs, for any number of calls and descriptors, any   *)
(* contents and formats, any bytes in the file, and whatever fails.  The   *)
(* first half is about the operators of FileFormats, the second about the  *)
(* steps of a call.                                                        *)
(***************************************************************************)
EXTENDS FileJobs, FiniteSetTheorems, SequenceTheorems, TLAPS
-----------------------------------------------------------------------------
(* Induction over numbers, and functions that are defined by recursion over *)
(* them.  A set of numbers that lacks one lacks a least one, since the      *)
(* finite sets are well founded by inclusion.                               *)

LEMMA NumbersByInduction ==
  ASSUME NEW T \in SUBSET Nat, 0 \in T, \A n \in T : n + 1 \in T
  PROVE  T = Nat
<1> DEFINE F == {0 .. n : n \in Nat \ T}
<1>1. SUFFICES ASSUME Nat \ T # {} PROVE FALSE
  OBVIOUS
<1>2. F \subseteq FiniteSubsetsOf(Nat) /\ F # {}
  <2>1. \A n \in Nat : IsFiniteSet(0 .. n)
    BY FS_Interval
  <2> QED
    BY <2>1, <1>1 DEF FiniteSubsetsOf
<1>3. PICK X \in F : \A Y \in F : ~ (<<Y, X>> \in StrictSubsetOrdering(Nat))
  <2> HIDE DEF F
  <2> QED
    BY <1>2, FS_StrictSubsetOrderingWellFounded, WFMin
<1>4. PICK n \in Nat \ T : X = 0 .. n
  OBVIOUS
<1>5. n - 1 \in Nat \ T
  BY <1>4
<1>6. 0 .. (n - 1) \in F
  BY <1>5
<1>7. <<0 .. (n - 1), X>> \in StrictSubsetOrdering(Nat)
  <2>1. 0 .. (n - 1) \in SUBSET Nat /\ X \in SUBSET Nat
    BY <1>4
  <2>2. n \in X /\ n \notin 0 .. (n - 1) /\ 0 .. (n - 1) \subseteq X
    BY <1>4
  <2> QED
    BY <2>1, <2>2 DEF StrictSubsetOrdering
<1> QED
  BY <1>3, <1>6, <1>7

LEMMA NumbersByStrongInduction ==
  ASSUME NEW T \in SUBSET Nat, \A n \in Nat : (\A i \in Nat : i < n => i \in T) => n \in T
  PROVE  T = Nat
<1> DEFINE U == {n \in Nat : \A i \in Nat : i < n => i \in T}
<1>1. 0 \in U
  OBVIOUS
<1>2. \A n \in U : n + 1 \in U
  <2> TAKE n \in U
  <2>1. n \in T
    OBVIOUS
  <2>2. \A i \in Nat : i < n + 1 => i < n \/ i = n
    OBVIOUS
  <2> QED
    BY <2>1, <2>2
<1>3. U = Nat
  <2> HIDE DEF U
  <2>1. U \in SUBSET Nat
    BY DEF U
  <2> QED
    BY <1>1, <1>2, <2>1, NumbersByInduction
<1> QED
  BY <1>3

\* What a definition f[n \in 0 .. m] == IF n \in B THEN a[n] ELSE G[f[p[n]], n]
\* with p[n] < n says has a solution.
Earlier(m, B, p) == p \in [0 .. m -> Nat] /\ \A n \in 0 .. m : n \notin B => p[n] < n
Solutions(m, X, B, a, p, G) ==
  {f \in [0 .. m -> X] : \A n \in 0 .. m : f[n] = IF n \in B THEN a[n] ELSE G[<<f[p[n]], n>>]}

LEMMA RecursionHasSolution ==
  ASSUME NEW m \in Nat, NEW X, NEW B, NEW p, NEW a \in [0 .. m -> X], Earlier(m, B, p),
         NEW G \in [X \X (0 .. m) -> X]
  PROVE  \E f : f \in Solutions(m, X, B, a, p, G)
<1>0. p \in [0 .. m -> Nat] /\ \A n \in 0 .. m : n \notin B => p[n] < n
  BY DEF Earlier
<1> DEFINE Solves(f, n) == f[n] = IF n \in B THEN a[n] ELSE G[<<f[p[n]], n>>]
           T == {k \in Nat : k <= m => \E f \in [0 .. m -> X] : \A n \in 0 .. k : Solves(f, n)}
<1>1. 0 \in T
  <2>1. 0 \in B
    BY <1>0
  <2>2. \A n \in 0 .. 0 : Solves(a, n)
    BY <2>1
  <2> QED
    BY <2>2
<1>2. ASSUME NEW k \in T PROVE k + 1 \in T
  <2>1. SUFFICES ASSUME k + 1 <= m PROVE \E f \in [0 .. m -> X] : \A n \in 0 .. k + 1 : Solves(f, n)
    BY DEF T
  <2>2. \E f \in [0 .. m -> X] : \A n \in 0 .. k : Solves(f, n)
    <3> HIDE DEF Solves
    <3>1. k <= m
      BY <2>1
    <3> QED
      BY <1>2, <3>1
  <2>3. PICK f \in [0 .. m -> X] : \A n \in 0 .. k : Solves(f, n)
    BY <2>2
  <2> DEFINE v == IF k + 1 \in B THEN a[k + 1] ELSE G[<<f[p[k + 1]], k + 1>>]
             g == [f EXCEPT ![k + 1] = v]
  <2>4. k \in Nat /\ k + 1 \in 0 .. m
    BY <2>1
  <2>5. v \in X
    <3>1. k + 1 \notin B => p[k + 1] \in 0 .. m
      BY <1>0, <2>4
    <3> QED
      BY <2>4, <3>1
  <2>6. g \in [0 .. m -> X]
    BY <2>5
  <2>7. \A n \in 0 .. m : g[n] = IF n = k + 1 THEN v ELSE f[n]
    OBVIOUS
  <2> HIDE DEF g, v
  <2>8. ASSUME NEW n \in 0 .. k + 1 PROVE g[n] = IF n \in B THEN a[n] ELSE G[<<g[p[n]], n>>]
    <3>1. n \in 0 .. m /\ (n \notin B => p[n] \in 0 .. m /\ p[n] # k + 1)
      BY <1>0, <2>4
    <3>2. n \notin B => g[p[n]] = f[p[n]]
      BY <2>7, <3>1
    <3>3. CASE n = k + 1
      BY <2>7, <3>1, <3>2, <3>3 DEF v
    <3>4. CASE n \in 0 .. k
      <4>1. f[n] = IF n \in B THEN a[n] ELSE G[<<f[p[n]], n>>]
        BY <2>3, <3>4
      <4>2. g[n] = f[n]
        BY <2>4, <2>7, <3>1, <3>4
      <4> QED
        BY <3>2, <4>1, <4>2
    <3> QED
      BY <2>4, <3>3, <3>4
  <2>9. \A n \in 0 .. k + 1 : Solves(g, n)
    BY <2>8
  <2> QED
    BY <2>6, <2>9
<1>3. T = Nat
  <2> HIDE DEF T
  <2>1. T \in SUBSET Nat
    BY DEF T
  <2> QED
    BY <1>1, <1>2, <2>1, NumbersByInduction
<1>4. m \in T
  BY <1>3
<1>5. \E f \in [0 .. m -> X] : \A n \in 0 .. m : Solves(f, n)
  <2> HIDE DEF Solves
  <2> QED
    BY <1>4
<1> QED
  BY <1>5 DEF Solutions
-----------------------------------------------------------------------------
(* What the definitions of FileFormats yield.                               *)

LEMMA Constants ==
  /\ UINT32_MAX \in Nat /\ UINT32_MAX > 0
  /\ BUFFER_SIZE \in Nat /\ BUFFER_SIZE > 0
  /\ ValueRoom \in Nat /\ ValueRoom > 0
  /\ Base \in Nat /\ Base >= 2
  BY FormatsAssumption DEF FormatsAssumption

LEMMA DigitIsByte == \A d \in 0 .. Base - 1 : Digit(d) \in Byte
  BY DEF Byte

LEMMA Quotient == ASSUME NEW b \in Nat, b >= 2, NEW n \in Nat PROVE /\ n \div b \in 0 .. n /\ n % b \in 0 .. b - 1
                                                                   /\ n >= b => n \div b < n
                                                                   /\ n = b * (n \div b) + (n % b)
<1>1. n \div b \in Int /\ n % b \in 0 .. b - 1 /\ n = b * (n \div b) + (n % b)
  OBVIOUS
<1>2. \A q, r \in Int : r >= 0 /\ r < b /\ n = b * q + r => q >= 0
  <2>1. \A q \in Int : q <= -1 => b * q <= -b
    OBVIOUS
  <2> QED
    BY <2>1
<1>3. \A q, r \in Int : q >= 0 /\ r >= 0 /\ n = b * q + r => 2 * q <= n
  <2>1. \A q \in Int : q >= 0 => b * q >= 2 * q
    OBVIOUS
  <2> QED
    BY <2>1
<1>4. n \div b >= 0 /\ 2 * (n \div b) <= n
  BY <1>1, <1>2, <1>3
<1> QED
  BY <1>1, <1>4

LEMMA QuotientByBase ==
  ASSUME NEW n \in 0 .. UINT32_MAX
  PROVE  /\ n \div Base \in 0 .. UINT32_MAX /\ n % Base \in 0 .. Base - 1
         /\ n >= Base => n \div Base < n
<1>1. n \in Nat /\ n <= UINT32_MAX
  BY Constants
<1>2. n \div Base \in 0 .. n /\ n % Base \in 0 .. Base - 1 /\ (n >= Base => n \div Base < n)
  BY <1>1, Constants, Quotient
<1> QED
  BY <1>1, <1>2, Constants

LEMMA DecimalEquation ==
  ASSUME NEW v \in 0 .. UINT32_MAX
  PROVE  Decimal[v] = IF v < Base THEN <<Digit(v)>> ELSE Append(Decimal[v \div Base], Digit(v % Base))
<1> DEFINE X == Seq(Byte)
           B == {n \in Nat : n < Base}
           a == [n \in 0 .. UINT32_MAX |-> IF n < Base THEN <<Digit(n)>> ELSE <<>>]
           p == [n \in 0 .. UINT32_MAX |-> n \div Base]
           G == [xn \in X \X (0 .. UINT32_MAX) |-> Append(xn[1], Digit(xn[2] % Base))]
<1>1. a \in [0 .. UINT32_MAX -> X]
  BY Constants, DigitIsByte
<1>2. Earlier(UINT32_MAX, B, p)
  BY Constants, QuotientByBase DEF Earlier
<1>3. G \in [X \X (0 .. UINT32_MAX) -> X]
  <2> SUFFICES ASSUME NEW x \in X, NEW n \in 0 .. UINT32_MAX PROVE Append(x, Digit(n % Base)) \in X
    OBVIOUS
  <2>1. Digit(n % Base) \in Byte
    BY QuotientByBase, DigitIsByte
  <2> QED
    BY <2>1, AppendProperties
<1>4. \E f : f \in Solutions(UINT32_MAX, X, B, a, p, G)
  <2>1. UINT32_MAX \in Nat
    BY Constants
  <2> HIDE DEF X, B, a, p, G
  <2> QED
    BY <1>1, <1>2, <1>3, <2>1, RecursionHasSolution
<1>5. PICK f \in [0 .. UINT32_MAX -> X] : \A n \in 0 .. UINT32_MAX : f[n] = IF n \in B THEN a[n] ELSE G[<<f[p[n]], n>>]
  <2> HIDE DEF X, B, a, p, G
  <2> QED
    BY <1>4 DEF Solutions
<1>6. f = [n \in 0 .. UINT32_MAX |-> IF n < Base THEN <<Digit(n)>> ELSE Append(f[n \div Base], Digit(n % Base))]
  <2>1. ASSUME NEW n \in 0 .. UINT32_MAX
        PROVE  f[n] = IF n < Base THEN <<Digit(n)>> ELSE Append(f[n \div Base], Digit(n % Base))
    <3>1. n \in Nat /\ Base \in Nat
      BY Constants
    <3>4. n \div Base \in 0 .. UINT32_MAX
      BY QuotientByBase, Zenon
    <3>2. CASE n < Base
      BY <1>5, <3>1, <3>2
    <3>3. CASE ~(n < Base)
      <4>1. f[n] = G[<<f[n \div Base], n>>]
        BY <1>5, <3>1, <3>3
      <4>2. f[n \div Base] \in X
        BY <3>4
      <4> QED
        BY <3>3, <4>1, <4>2
    <3> QED
      BY <3>2, <3>3
  <2> QED
    BY <2>1
<1>7. Decimal = [n \in 0 .. UINT32_MAX |->
                   IF n < Base THEN <<Digit(n)>> ELSE Append(Decimal[n \div Base], Digit(n % Base))]
  <2> HIDE DEF X, B, a, p, G
  <2> QED
    BY ONLY <1>6 DEF Decimal
<1> QED
  BY ONLY <1>7, v \in 0 .. UINT32_MAX

LEMMA DecimalIsDigits ==
  \A v \in 0 .. UINT32_MAX : Decimal[v] \in Seq(Byte) /\ Decimal[v] # <<>>
<1> DEFINE T == {v \in Nat : v <= UINT32_MAX => Decimal[v] \in Seq(Byte) /\ Decimal[v] # <<>>}
<1>1. ASSUME NEW v \in Nat, \A i \in Nat : i < v => i \in T PROVE v \in T
  <2> SUFFICES ASSUME v <= UINT32_MAX PROVE Decimal[v] \in Seq(Byte) /\ Decimal[v] # <<>>
    OBVIOUS
  <2>1. v \in 0 .. UINT32_MAX /\ Base \in Nat
    BY Constants
  <2>4. /\ v \div Base \in 0 .. UINT32_MAX /\ v % Base \in 0 .. Base - 1
        /\ v >= Base => v \div Base < v
    BY <2>1, QuotientByBase, Zenon
  <2>2. CASE v < Base
    <3>1. Digit(v) \in Byte
      BY <2>2, DigitIsByte, Constants
    <3>2. Decimal[v] = <<Digit(v)>>
      BY <2>1, <2>2, DecimalEquation
    <3> QED
      BY <2>2, <3>1, <3>2
  <2>3. CASE ~(v < Base)
    <3>1. Decimal[v \div Base] \in Seq(Byte)
      <4>1. v \div Base \in Nat /\ v \div Base < v /\ v \div Base <= UINT32_MAX
        BY <2>1, <2>3, <2>4, Constants
      <4>2. v \div Base \in T
        BY <1>1, <4>1
      <4> QED
        BY <4>1, <4>2
    <3>2. Decimal[v] = Append(Decimal[v \div Base], Digit(v % Base))
      BY <2>1, <2>3, DecimalEquation, Zenon
    <3>3. Digit(v % Base) \in Byte
      BY <2>4, DigitIsByte
    <3> QED
      BY <3>1, <3>2, <3>3, AppendProperties
  <2> QED
    BY <2>2, <2>3
<1>2. T = Nat
  <2> HIDE DEF T
  <2>1. T \in SUBSET Nat
    BY DEF T
  <2> QED
    BY <1>1, <2>1, NumbersByStrongInduction
<1> QED
  BY <1>2, Constants

LEMMA DigitBytes == ASSUME NEW c \in Byte, IsDigit(c) PROVE \E d \in 0 .. Base - 1 : c = Digit(d)
<1>1. CASE c \in {<<s>> : s \in Symbol}
  <2>1. PICK s \in Symbol : c = <<s>>
    BY <1>1
  <2>2. c[1] = s
    BY <2>1
  <2>3. s # "digit"
    BY DEF Symbol
  <2> QED
    BY <2>2, <2>3 DEF IsDigit
<1>2. CASE c \in {"value"} \X (0 .. UINT32_MAX) \X {1, 2}
  BY <1>2 DEF IsDigit
<1>3. CASE c \in BinaryFormat \X Contents \X {1, 2}
  BY <1>3 DEF IsDigit, BinaryFormat
<1> QED
  BY <1>1, <1>2, <1>3 DEF Byte

LEMMA TakenIsNumbers == ASSUME NEW p \in Parsing PROVE Taken(p) \in SUBSET (0 .. UINT32_MAX)
<1>1. p.value \in Nat /\ p.found \in SUBSET (0 .. UINT32_MAX)
  BY Constants DEF Parsing
<1> QED
  BY <1>1, Constants DEF Taken

LEMMA ParseCharType == ASSUME NEW p \in Parsing, NEW c \in Byte PROVE ParseChar(p, c) \in Parsing
<1>1. /\ p.value \in 0 .. Base * UINT32_MAX + Base /\ p.found \in SUBSET (0 .. UINT32_MAX)
      /\ p.isNegative \in BOOLEAN /\ Taken(p) \in SUBSET (0 .. UINT32_MAX)
  BY TakenIsNumbers DEF Parsing
<1>2. Base * UINT32_MAX + Base \in Nat
  BY Constants
<1>3. CASE IsDigit(c) /\ p.value <= UINT32_MAX
  <2>1. PICK d \in 0 .. Base - 1 : c = Digit(d)
    BY <1>3, DigitBytes
  <2>2. \A b, m, v, e \in Nat : v <= m /\ e <= b - 1 => b * v + e \in 0 .. b * m + b
    <3>1. \A b, m, v \in Nat : v <= m => b * v <= b * m
      OBVIOUS
    <3> QED
      BY <3>1
  <2>3. p.value \in Nat /\ d \in Nat /\ d <= Base - 1 /\ UINT32_MAX \in Nat /\ Base \in Nat
    BY <1>1, <1>2, Constants
  <2>4. Base * p.value + d \in 0 .. Base * UINT32_MAX + Base
    BY ONLY <1>3, <2>2, <2>3, Zenon
  <2>5. c[2] = d
    BY <2>1 DEF Digit
  <2> HIDE DEF Parsing
  <2>6. ParseChar(p, c) = [p EXCEPT !.value = Base * p.value + d, !.hasValue = TRUE]
    <3>1. p.value <= UINT32_MAX /\ ~(p.value > UINT32_MAX)
      BY <1>3, <2>3
    <3> QED
      BY <1>3, <2>5, <3>1 DEF ParseChar
  <2> QED
    BY <2>4, <2>6 DEF Parsing
<1>4. CASE IsDigit(c) /\ p.value > UINT32_MAX
  <2>1. ~(p.value <= UINT32_MAX)
    BY <1>1, <1>2, <1>4, Constants
  <2> QED
    BY <1>4, <2>1 DEF ParseChar
<1>5. CASE ~IsDigit(c)
  <2>1. ParseChar(p, c) = [value |-> 0, hasValue |-> FALSE, isNegative |-> c = <<"-">>, found |-> Taken(p)]
    BY <1>5 DEF ParseChar
  <2>2. (c = <<"-">>) \in BOOLEAN
    OBVIOUS
  <2> HIDE DEF Taken
  <2>3. 0 \in 0 .. Base * UINT32_MAX + Base
    BY <1>2
  <2> QED
    BY <1>1, <2>1, <2>2, <2>3 DEF Parsing
<1>6. p.value <= UINT32_MAX \/ p.value > UINT32_MAX
  BY <1>1, <1>2, Constants
<1> QED
  BY <1>3, <1>4, <1>5, <1>6

\* The states of the parser, and the one that Parse returns.
Parses(p, text, after) ==
  /\ after \in [0 .. Len(text) -> Parsing]
  /\ after[0] = p
  /\ \A n \in 1 .. Len(text) : after[n] = ParseChar(after[n - 1], text[n])
  /\ Parse(p, text) = after[Len(text)]

LEMMA ParseHasStates == ASSUME NEW p \in Parsing, NEW text \in Seq(Byte) PROVE \E after : Parses(p, text, after)
<1> DEFINE m == Len(text)
           B == {0}
           a == [n \in 0 .. m |-> p]
           q == [n \in 0 .. m |-> IF n = 0 THEN 0 ELSE n - 1]
           G == [xn \in Parsing \X (0 .. m) |-> IF xn[2] = 0 THEN p ELSE ParseChar(xn[1], text[xn[2]])]
           Follows(f) == f = [n \in 0 .. m |-> IF n = 0 THEN p ELSE ParseChar(f[n - 1], text[n])]
<1>1. m \in Nat /\ \A n \in 1 .. m : text[n] \in Byte
  OBVIOUS
<1>2. a \in [0 .. m -> Parsing] /\ Earlier(m, B, q)
  BY <1>1 DEF Earlier
<1>3. G \in [Parsing \X (0 .. m) -> Parsing]
  <2> SUFFICES ASSUME NEW x \in Parsing, NEW n \in 0 .. m, n # 0 PROVE ParseChar(x, text[n]) \in Parsing
    OBVIOUS
  <2>1. text[n] \in Byte
    BY <1>1
  <2> QED
    BY <2>1, ParseCharType
<1>4. \E f : f \in Solutions(m, Parsing, B, a, q, G)
  <2> HIDE DEF m, B, a, q, G
  <2> QED
    BY <1>1, <1>2, <1>3, RecursionHasSolution
<1>5. PICK f \in [0 .. m -> Parsing] : \A n \in 0 .. m : f[n] = IF n \in B THEN a[n] ELSE G[<<f[q[n]], n>>]
  <2> HIDE DEF m, B, a, q, G
  <2> QED
    BY <1>4 DEF Solutions
<1>6. Follows(f)
  <2>1. ASSUME NEW n \in 0 .. m PROVE f[n] = IF n = 0 THEN p ELSE ParseChar(f[n - 1], text[n])
    <3>1. CASE n = 0
      BY <1>1, <1>5, <3>1
    <3>2. CASE n # 0
      <4>1. n \notin B /\ q[n] = n - 1 /\ n - 1 \in 0 .. m
        BY <1>1, <3>2
      <4>2. f[n - 1] \in Parsing /\ f[n] = G[<<f[n - 1], n>>]
        <5> HIDE DEF m, B, q, a, G
        <5> QED
          BY <1>5, <4>1
      <4> QED
        BY <3>2, <4>2
    <3> QED
      BY <3>1, <3>2
  <2> QED
    BY <2>1
<1> DEFINE after == CHOOSE g : Follows(g)
<1>7. Follows(after)
  <2> HIDE DEF Follows
  <2> QED
    BY <1>6
<1>8. Parse(p, text) = after[m]
  BY DEF Parse
<1> HIDE DEF after
<1>9. /\ DOMAIN after = 0 .. m /\ after[0] = p
      /\ \A n \in 1 .. m : after[n] = ParseChar(after[n - 1], text[n])
  <2> HIDE DEF m
  <2> QED
    BY <1>1, <1>7
<1>10. \A n \in 0 .. m : after[n] \in Parsing
  <2> DEFINE T == {n \in Nat : n <= m => after[n] \in Parsing}
  <2>1. 0 \in T
    BY <1>9
  <2>2. ASSUME NEW n \in T PROVE n + 1 \in T
    <3> SUFFICES ASSUME n + 1 <= m PROVE after[n + 1] \in Parsing
      BY <1>1
    <3>1. n \in Nat /\ n <= m /\ n + 1 \in 1 .. m /\ (n + 1) - 1 = n
      BY <1>1
    <3>2. after[n] \in Parsing
      BY <2>2, <3>1
    <3>3. after[n + 1] = ParseChar(after[n], text[n + 1])
      BY <1>9, <3>1
    <3> QED
      BY <1>1, <3>1, <3>2, <3>3, ParseCharType
  <2>3. T = Nat
    <3> HIDE DEF T
    <3>1. T \in SUBSET Nat
      BY DEF T
    <3> QED
      BY <2>1, <2>2, <3>1, NumbersByInduction
  <2> QED
    BY <1>1, <2>3
<1>11. after = [n \in 0 .. m |-> after[n]]
  BY <1>7
<1>12. after \in [0 .. m -> Parsing]
  BY <1>10, <1>11
<1> QED
  BY <1>8, <1>9, <1>12 DEF Parses

LEMMA ParseType == ASSUME NEW p \in Parsing, NEW text \in Seq(Byte) PROVE Parse(p, text) \in Parsing
<1>1. PICK after : Parses(p, text, after)
  BY ParseHasStates
<1>2. Len(text) \in 0 .. Len(text)
  OBVIOUS
<1> QED
  BY <1>1, <1>2 DEF Parses

LEMMA MaxOfTwo == \A a, b \in Int : Max({a, b}) = IF a >= b THEN a ELSE b
<1> SUFFICES ASSUME NEW a \in Int, NEW b \in Int PROVE Max({a, b}) = IF a >= b THEN a ELSE b
  OBVIOUS
<1> DEFINE m == IF a >= b THEN a ELSE b
<1>1. m \in {a, b} /\ \A y \in {a, b} : m >= y
  OBVIOUS
<1>2. \A x \in {a, b} : (\A y \in {a, b} : x >= y) => x = m
  OBVIOUS
<1> QED
  BY <1>1, <1>2 DEF Max

LEMMA MinOfTwo == \A a, b \in Int : Min({a, b}) = IF a <= b THEN a ELSE b
<1> SUFFICES ASSUME NEW a \in Int, NEW b \in Int PROVE Min({a, b}) = IF a <= b THEN a ELSE b
  OBVIOUS
<1> DEFINE m == IF a <= b THEN a ELSE b
<1>1. m \in {a, b} /\ \A y \in {a, b} : m <= y
  OBVIOUS
<1>2. \A x \in {a, b} : (\A y \in {a, b} : x <= y) => x = m
  OBVIOUS
<1> QED
  BY <1>1, <1>2 DEF Min

LEMMA ZeroIsByte == Zero \in Byte
  BY DEF Zero, Byte, Symbol

LEMMA FunctionIsSequence ==
  ASSUME NEW n \in Nat, NEW S, NEW s, DOMAIN s = 1 .. n, s = [i \in 1 .. n |-> s[i]], \A i \in 1 .. n : s[i] \in S
  PROVE  s \in Seq(S) /\ Len(s) = n
<1>1. s \in [1 .. n -> S]
  OBVIOUS
<1> QED
  BY <1>1, IsASeq, LenProperties

LEMMA WrittenAtType ==
  ASSUME NEW bytes \in Seq(Byte), NEW more \in Seq(Byte), NEW pos \in Nat
  PROVE  /\ WrittenAt(bytes, pos, more) \in Seq(Byte)
         /\ Len(WrittenAt(bytes, pos, more)) = IF Len(bytes) >= pos + Len(more) THEN Len(bytes) ELSE pos + Len(more)
<1> DEFINE n == Max({Len(bytes), pos + Len(more)})
           byte(i) == IF i > pos /\ i <= pos + Len(more) THEN more[i - pos] ELSE IF i <= Len(bytes) THEN bytes[i] ELSE Zero
           s == [i \in 1 .. n |-> byte(i)]
<1>1. Len(bytes) \in Nat /\ Len(more) \in Nat /\ pos + Len(more) \in Int
  OBVIOUS
<1>2. n = IF Len(bytes) >= pos + Len(more) THEN Len(bytes) ELSE pos + Len(more)
  BY <1>1, MaxOfTwo
<1>3. n \in Nat
  BY <1>1, <1>2
<1>4. ASSUME NEW i \in 1 .. n PROVE byte(i) \in Byte
  <2>1. i \in Nat /\ i >= 1
    BY <1>3
  <2>2. CASE i > pos /\ i <= pos + Len(more)
    <3>1. i - pos \in 1 .. Len(more)
      BY <1>1, <2>1, <2>2
    <3> QED
      BY <2>2, <3>1
  <2>3. CASE ~(i > pos /\ i <= pos + Len(more)) /\ i <= Len(bytes)
    BY <2>1, <2>3
  <2>4. CASE ~(i > pos /\ i <= pos + Len(more)) /\ ~(i <= Len(bytes))
    BY <2>4, ZeroIsByte
  <2> QED
    BY <2>2, <2>3, <2>4
<1>5. DOMAIN s = 1 .. n /\ s = [i \in 1 .. n |-> s[i]] /\ \A i \in 1 .. n : s[i] \in Byte
  <2> HIDE DEF n
  <2>1. \A i \in 1 .. n : s[i] = byte(i)
    OBVIOUS
  <2> HIDE DEF byte
  <2> QED
    BY <1>4, <2>1
<1>6. WrittenAt(bytes, pos, more) = s
  BY DEF WrittenAt
<1>7. s \in Seq(Byte) /\ Len(s) = n
  <2> HIDE DEF s, n
  <2> QED
    BY <1>3, <1>5, FunctionIsSequence
<1> HIDE DEF s, n
<1> QED
  BY <1>2, <1>6, <1>7

LEMMA ResizedType ==
  ASSUME NEW bytes \in Seq(Byte), NEW size \in Nat
  PROVE  Resized(bytes, size) \in Seq(Byte) /\ Len(Resized(bytes, size)) = size
<1> DEFINE byte(i) == IF i <= Len(bytes) THEN bytes[i] ELSE Zero
           s == [i \in 1 .. size |-> byte(i)]
<1>1. \A i \in 1 .. size : byte(i) \in Byte
  BY ZeroIsByte
<1>2. DOMAIN s = 1 .. size /\ s = [i \in 1 .. size |-> s[i]] /\ \A i \in 1 .. size : s[i] \in Byte
  BY <1>1
<1>3. Resized(bytes, size) = s
  BY DEF Resized
<1> HIDE DEF s
<1> QED
  BY <1>2, <1>3, FunctionIsSequence

\* A finite set of numbers has an element of every rank.
LEMMA RanksAreTaken ==
  ASSUME NEW S \in SUBSET Nat, IsFiniteSet(S), NEW k \in 0 .. Cardinality(S) - 1
  PROVE  \E v \in S : Smaller(S, v) = k
<1> DEFINE n == Cardinality(S)
           rank == [v \in S |-> Smaller(S, v)]
           Below(v) == {w \in S : w < v}
<1>1. n \in Nat /\ \A v \in S : IsFiniteSet(Below(v)) /\ Cardinality(Below(v)) \in Nat
  <2>1. \A v \in S : Below(v) \in SUBSET S
    OBVIOUS
  <2> QED
    BY <2>1, FS_Subset, FS_CardinalityType
<1>2. ASSUME NEW v \in S, NEW u \in S, v < u PROVE Smaller(S, v) < Smaller(S, u)
  <2>1. Below(v) \cup {v} \in SUBSET Below(u) /\ v \notin Below(v)
    <3>1. \A w \in S : w < v => w < u
      BY <1>2
    <3>2. ~(v < v)
      OBVIOUS
    <3> QED
      BY <1>2, <3>1, <3>2
  <2> HIDE DEF Below
  <2>2. Cardinality(Below(v) \cup {v}) = Cardinality(Below(v)) + 1
    BY <1>1, <2>1, FS_AddElement
  <2>3. Cardinality(Below(v) \cup {v}) <= Cardinality(Below(u))
    BY <1>1, <2>1, FS_Subset
  <2>4. Cardinality(Below(v)) < Cardinality(Below(u))
    BY <1>1, <2>2, <2>3
  <2> QED
    BY <2>4 DEF Smaller, Below
<1>3. ASSUME NEW v \in S PROVE Smaller(S, v) \in 0 .. n - 1
  <2>1. Below(v) \in SUBSET (S \ {v})
    OBVIOUS
  <2> HIDE DEF Below
  <2>2. IsFiniteSet(S \ {v}) /\ Cardinality(S \ {v}) = n - 1
    BY FS_RemoveElement
  <2>3. Cardinality(Below(v)) <= n - 1
    BY <2>1, <2>2, FS_Subset
  <2>4. Cardinality(Below(v)) \in 0 .. n - 1
    BY <1>1, <2>3
  <2> QED
    BY <2>4 DEF Smaller, Below
<1>4. rank \in Injection(S, 0 .. n - 1)
  <2>1. rank \in [S -> 0 .. n - 1]
    BY <1>3
  <2>2. ASSUME NEW v \in S, NEW u \in S, rank[v] = rank[u] PROVE v = u
    <3>1. rank[v] = Smaller(S, v) /\ rank[u] = Smaller(S, u)
      OBVIOUS
    <3>2. Smaller(S, v) \in Int /\ Smaller(S, u) \in Int /\ Smaller(S, v) = Smaller(S, u)
      BY <1>1, <1>3, <2>2, <3>1
    <3>3. ~(v < u) /\ ~(u < v)
      BY <1>2, <3>2
    <3> QED
      BY <3>3
  <2> QED
    BY <2>1, <2>2, Zenon DEF Injection, IsInjective
<1>5. IsFiniteSet(0 .. n - 1) /\ Cardinality(0 .. n - 1) = n
  BY <1>1, FS_Interval
<1>6. rank \in Surjection(S, 0 .. n - 1)
  <2> HIDE DEF rank, n
  <2> QED
    BY <1>4, <1>5, FS_Injection DEF n
<1>7. \E v \in S : rank[v] = k
  <2> HIDE DEF rank, n
  <2> QED
    BY <1>6 DEF Surjection, n
<1> QED
  BY <1>7

LEMMA ContentsAreFinite ==
  ASSUME NEW S \in Contents
  PROVE  S \in SUBSET Nat /\ S \subseteq 0 .. UINT32_MAX /\ IsFiniteSet(S) /\ Cardinality(S) \in Nat
<1>1. S \in SUBSET (0 .. UINT32_MAX)
  BY FormatsAssumption DEF FormatsAssumption
<1>2. IsFiniteSet(0 .. UINT32_MAX) /\ 0 .. UINT32_MAX \in SUBSET Nat
  BY Constants, FS_Interval
<1>3. IsFiniteSet(S)
  BY <1>1, <1>2, FS_Subset
<1>4. Cardinality(S) \in Nat
  BY <1>3, FS_CardinalityType
<1> QED
  BY <1>1, <1>2, <1>3, <1>4

LEMMA AscendingType ==
  ASSUME NEW S \in Contents
  PROVE  /\ Ascending[S] \in [1 .. Cardinality(S) -> S]
         /\ \A i \in 1 .. Cardinality(S) : Smaller(S, Ascending[S][i]) = i - 1
<1>1. /\ S \in SUBSET Nat /\ IsFiniteSet(S) /\ Cardinality(S) \in Nat
  BY ContentsAreFinite
<1>2. Ascending[S] = [i \in 1 .. Cardinality(S) |-> CHOOSE v \in S : Smaller(S, v) = i - 1]
  BY DEF Ascending
<1>3. ASSUME NEW i \in 1 .. Cardinality(S)
      PROVE  Ascending[S][i] \in S /\ Smaller(S, Ascending[S][i]) = i - 1
  <2>1. i - 1 \in 0 .. Cardinality(S) - 1
    BY <1>1
  <2>2. \E v \in S : Smaller(S, v) = i - 1
    BY <1>1, <2>1, RanksAreTaken
  <2>3. Ascending[S][i] = CHOOSE v \in S : Smaller(S, v) = i - 1
    BY <1>2
  <2> QED
    BY <2>2, <2>3
<1> QED
  BY <1>2, <1>3

LEMMA ImageType ==
  ASSUME NEW S \in Contents, NEW format \in BinaryFormat
  PROVE  Image[S][format] \in Seq(Byte)
<1>1. CASE format = "uint32_array"
  <2> DEFINE n == Cardinality(S)
             byte(i) == <<"value", Ascending[S][(i + 1) \div 2], IF i % 2 = 1 THEN 1 ELSE 2>>
             s == [i \in 1 .. 2 * n |-> byte(i)]
  <2>1. Image[S][format] = s
    BY <1>1 DEF Image
  <2>2. n \in Nat /\ Ascending[S] \in [1 .. n -> S] /\ S \subseteq 0 .. UINT32_MAX
    BY ContentsAreFinite, AscendingType
  <2>3. ASSUME NEW i \in 1 .. 2 * n PROVE byte(i) \in Byte
    <3> HIDE DEF n
    <3>1. (i + 1) \div 2 \in 1 .. n
      BY <2>2
    <3>2. Ascending[S][(i + 1) \div 2] \in 0 .. UINT32_MAX
      BY <2>2, <3>1
    <3> QED
      BY <3>2 DEF Byte
  <2>4. DOMAIN s = 1 .. 2 * n /\ s = [i \in 1 .. 2 * n |-> s[i]] /\ \A i \in 1 .. 2 * n : s[i] \in Byte
    <3> HIDE DEF n
    <3>1. \A i \in 1 .. 2 * n : s[i] = byte(i)
      OBVIOUS
    <3> HIDE DEF byte
    <3> QED
      BY <2>3, <3>1
  <2>5. 2 * n \in Nat
    BY <2>2
  <2> HIDE DEF s, n
  <2> QED
    BY <2>1, <2>4, <2>5, FunctionIsSequence
<1>2. CASE format # "uint32_array"
  <2>1. Image[S][format] = <<<<format, S, 1>>, <<format, S, 2>>>>
    BY <1>2 DEF Image
  <2>2. <<format, S, 1>> \in Byte /\ <<format, S, 2>> \in Byte
    BY DEF Byte
  <2>3. \A a, b \in Byte : <<a, b>> \in Seq(Byte)
    OBVIOUS
  <2> QED
    BY <2>1, <2>2, <2>3
<1> QED
  BY <1>1, <1>2

LEMMA SeparatorIsByte == \A format \in TextFormat : Separator(format) \in Byte
  BY DEF TextFormat, Separator, Byte, Symbol

LEMMA EndsAreBytes ==
  \A format \in TextFormat : Opening(format) \in Seq(Byte) /\ Closing(format) \in Seq(Byte)
<1>1. <<"[">> \in Byte /\ <<"]">> \in Byte /\ <<"newline">> \in Byte
  BY DEF Byte, Symbol
<1>2. \A b \in Byte : <<b>> \in Seq(Byte)
  OBVIOUS
<1> QED
  BY <1>1, <1>2 DEF TextFormat, Opening, Closing

\* The text of the first n numbers of a set.
LEMMA JoinedEquations ==
  ASSUME NEW S \in Contents, NEW format \in TextFormat
  PROVE  /\ \A n \in 0 .. Cardinality(S) : Joined(S, format, n) \in Seq(Byte)
         /\ Joined(S, format, 0) = <<>>
         /\ \A n \in 1 .. Cardinality(S) :
                Joined(S, format, n) =
                    Joined(S, format, n - 1) \o (IF n > 1 THEN <<Separator(format)>> ELSE <<>>) \o Decimal[Ascending[S][n]]
<1> DEFINE m == Cardinality(S)
           number(n) == Decimal[Ascending[S][n]]
           next(t, n) == IF n = 0 THEN <<>>
                         ELSE t \o (IF n > 1 THEN <<Separator(format)>> ELSE <<>>) \o Decimal[Ascending[S][n]]
           B == {0}
           a == [n \in 0 .. m |-> <<>>]
           q == [n \in 0 .. m |-> IF n = 0 THEN 0 ELSE n - 1]
           G == [xn \in Seq(Byte) \X (0 .. m) |-> next(xn[1], xn[2])]
           Follows(f) == f = [n \in 0 .. m |-> next(f[n - 1], n)]
<1>1. m \in Nat
  BY ContentsAreFinite
<1>2. ASSUME NEW n \in 1 .. m PROVE number(n) \in Seq(Byte)
  <2>1. Ascending[S][n] \in 0 .. UINT32_MAX
    BY ContentsAreFinite, AscendingType
  <2> QED
    BY <2>1, DecimalIsDigits
<1>3. <<Separator(format)>> \in Seq(Byte)
  <2>1. \A b \in Byte : <<b>> \in Seq(Byte)
    OBVIOUS
  <2> QED
    BY <2>1, SeparatorIsByte
<1>4. a \in [0 .. m -> Seq(Byte)] /\ Earlier(m, B, q)
  <2> HIDE DEF m
  <2> QED
    BY <1>1 DEF Earlier
<1>5. ASSUME NEW t \in Seq(Byte), NEW n \in 0 .. m PROVE next(t, n) \in Seq(Byte)
  <2>1. CASE n = 0
    BY <2>1
  <2>2. CASE n # 0
    <3>1. n \in 1 .. m
      BY <1>1, <2>2
    <3>2. next(t, n) = t \o (IF n > 1 THEN <<Separator(format)>> ELSE <<>>) \o number(n)
      BY <2>2
    <3>3. (IF n > 1 THEN <<Separator(format)>> ELSE <<>>) \in Seq(Byte)
      BY <1>3
    <3>4. \A r, s \in Seq(Byte) : t \o r \o s \in Seq(Byte)
      OBVIOUS
    <3> HIDE DEF number, next
    <3> QED
      BY <1>2, <3>1, <3>2, <3>3, <3>4, Zenon
  <2> QED
    BY <2>1, <2>2
<1>6. G \in [Seq(Byte) \X (0 .. m) -> Seq(Byte)]
  <2> HIDE DEF next, m
  <2> QED
    BY <1>5
<1>7. \E f : f \in Solutions(m, Seq(Byte), B, a, q, G)
  <2> HIDE DEF m, B, a, q, G
  <2> QED
    BY <1>1, <1>4, <1>6, RecursionHasSolution
<1>8. PICK f \in [0 .. m -> Seq(Byte)] : \A n \in 0 .. m : f[n] = IF n \in B THEN a[n] ELSE G[<<f[q[n]], n>>]
  <2> HIDE DEF m, B, a, q, G
  <2> QED
    BY <1>7 DEF Solutions
<1>9. ASSUME NEW n \in 0 .. m PROVE f[n] = next(f[n - 1], n)
  <2>1. CASE n = 0
    <3>1. f[n] = <<>>
      <4> HIDE DEF m, G
      <4> QED
        BY <1>8, <2>1
    <3> QED
      BY <2>1, <3>1
  <2>2. CASE n # 0
    <3>1. n \notin B /\ q[n] = n - 1 /\ n - 1 \in 0 .. m
      <4> HIDE DEF m
      <4> QED
        BY <1>1, <2>2
    <3>2. f[n - 1] \in Seq(Byte) /\ f[n] = G[<<f[n - 1], n>>]
      <4> HIDE DEF m, B, q, a, G
      <4> QED
        BY <1>8, <3>1
    <3> HIDE DEF next, m
    <3> QED
      BY <3>2
  <2> QED
    BY <2>1, <2>2
<1>10. Follows(f)
  <2> HIDE DEF next, m
  <2> QED
    BY <1>9
<1> DEFINE text == CHOOSE g : Follows(g)
<1>11. Follows(text)
  <2> HIDE DEF Follows
  <2> QED
    BY <1>10
<1>12. \A n : Joined(S, format, n) = text[n]
  BY DEF Joined
<1> HIDE DEF text
<1>13. DOMAIN text = 0 .. m /\ text = [n \in 0 .. m |-> text[n]] /\ \A n \in 0 .. m : text[n] = next(text[n - 1], n)
  <2> HIDE DEF next, m
  <2> QED
    BY <1>11
<1>14. \A n \in 0 .. m : text[n] \in Seq(Byte)
  <2> DEFINE T == {n \in Nat : n <= m => text[n] \in Seq(Byte)}
  <2> HIDE DEF next
  <2>1. 0 \in T
    <3>1. text[0] = next(text[0 - 1], 0)
      <4> HIDE DEF m
      <4> QED
        BY <1>1, <1>13
    <3>2. text[0] = <<>>
      BY <3>1 DEF next
    <3>3. <<>> \in Seq(Byte)
      OBVIOUS
    <3> QED
      BY <3>2, <3>3
  <2>2. ASSUME NEW n \in T PROVE n + 1 \in T
    <3> HIDE DEF m
    <3> SUFFICES ASSUME n + 1 <= m PROVE text[n + 1] \in Seq(Byte)
      BY <1>1
    <3>1. n \in Nat /\ n <= m /\ n + 1 \in 0 .. m /\ (n + 1) - 1 = n
      BY <1>1
    <3>2. text[n] \in Seq(Byte)
      BY <2>2, <3>1
    <3>3. text[n + 1] = next(text[n], n + 1)
      BY <1>13, <3>1
    <3> QED
      BY <1>5, <3>1, <3>2, <3>3
  <2>3. T = Nat
    <3> HIDE DEF T
    <3>1. T \in SUBSET Nat
      BY DEF T
    <3> QED
      BY <2>1, <2>2, <3>1, NumbersByInduction
  <2> HIDE DEF m
  <2> QED
    BY <1>1, <2>3
<1>15. text[0] = <<>>
  <2>1. text[0] = next(text[0 - 1], 0)
    <3> HIDE DEF m, next
    <3> QED
      BY <1>1, <1>13
  <2> QED
    BY <2>1
<1>16. ASSUME NEW n \in 1 .. m
       PROVE  text[n] = text[n - 1] \o (IF n > 1 THEN <<Separator(format)>> ELSE <<>>) \o Decimal[Ascending[S][n]]
  <2>1. n \in 0 .. m /\ n \in Nat /\ n # 0
    <3> HIDE DEF m
    <3> QED
      BY <1>1
  <2>2. text[n] = next(text[n - 1], n)
    <3> HIDE DEF m, next
    <3> QED
      BY <1>13, <2>1
  <2> QED
    BY <2>1, <2>2
<1> QED
  BY <1>12, <1>14, <1>15, <1>16

LEMMA TextType ==
  ASSUME NEW S \in Contents, NEW format \in TextFormat
  PROVE  /\ Text[S][format] = Opening(format) \o Joined(S, format, Cardinality(S)) \o Closing(format)
         /\ Text[S][format] \in Seq(Byte)
<1>1. Text[S][format] = Opening(format) \o Joined(S, format, Cardinality(S)) \o Closing(format)
  BY DEF Text
<1>2. Cardinality(S) \in 0 .. Cardinality(S)
  BY ContentsAreFinite
<1>3. Joined(S, format, Cardinality(S)) \in Seq(Byte)
  BY <1>2, JoinedEquations
<1>4. \A r, s, t \in Seq(Byte) : r \o s \o t \in Seq(Byte)
  OBVIOUS
<1> QED
  BY <1>1, <1>3, <1>4, EndsAreBytes

LEMMA WrittenType ==
  ASSUME NEW S \in Contents, NEW format \in TextFormat \cup BinaryFormat
  PROVE  Written(S, format) \in Seq(Byte)
  BY TextType, ImageType DEF Written

LEMMA ValueBytes == ASSUME NEW c \in Byte, c[1] = "value" PROVE c[2] \in 0 .. UINT32_MAX
<1>1. CASE c \in {<<s>> : s \in Symbol}
  <2>1. PICK s \in Symbol : c = <<s>>
    BY <1>1
  <2>2. c[1] = s
    BY <2>1
  <2>3. s # "value"
    BY DEF Symbol
  <2> QED
    BY <2>2, <2>3
<1>2. CASE c \in {Digit(d) : d \in 0 .. Base - 1}
  BY <1>2 DEF Digit
<1>3. CASE c \in BinaryFormat \X Contents \X {1, 2}
  BY <1>3 DEF BinaryFormat
<1>4. CASE c \in {"value"} \X (0 .. UINT32_MAX) \X {1, 2}
  BY <1>4
<1> QED
  BY <1>1, <1>2, <1>3, <1>4 DEF Byte

LEMMA DecodedType ==
  ASSUME NEW bytes \in Seq(Byte), NEW format \in BinaryFormat, NEW S \in Decoded(bytes, format)
  PROVE  S \in SUBSET (0 .. UINT32_MAX)
<1>1. CASE format = "portable"
  BY <1>1, ContentsAreFinite DEF Decoded
<1>2. CASE format = "unsafe_frozen_croaring"
  BY <1>2, ContentsAreFinite DEF Decoded
<1>3. CASE format = "uint32_array"
  <2> DEFINE value(i) == IF /\ bytes[i][1] = "value" /\ bytes[i + 1][1] = "value"
                            /\ bytes[i][2] = bytes[i + 1][2] /\ bytes[i][3] < bytes[i + 1][3]
                         THEN bytes[i][2] ELSE 0
  <2>1. Len(bytes) % 2 = 0 /\ S = {value(2 * i - 1) : i \in 1 .. Len(bytes) \div 2}
    BY <1>3 DEF Decoded
  <2>2. ASSUME NEW i \in 1 .. Len(bytes) \div 2 PROVE value(2 * i - 1) \in 0 .. UINT32_MAX
    <3>1. 2 * i - 1 \in 1 .. Len(bytes)
      <4>1. Len(bytes) \in Nat
        OBVIOUS
      <4> QED
        BY <4>1
    <3>2. bytes[2 * i - 1] \in Byte
      BY <3>1
    <3>3. bytes[2 * i - 1][1] = "value" => bytes[2 * i - 1][2] \in 0 .. UINT32_MAX
      BY <3>2, ValueBytes
    <3>4. 0 \in 0 .. UINT32_MAX
      BY Constants
    <3> QED
      BY <3>3, <3>4, Zenon
  <2> HIDE DEF value
  <2> QED
    BY <2>1, <2>2
<1> QED
  BY <1>1, <1>2, <1>3 DEF BinaryFormat

-----------------------------------------------------------------------------
(* What is left to append, and what is appended.                            *)

Item == [kind : {"char"}, of : Byte] \cup [kind : {"value"}, of : 0 .. UINT32_MAX]

LEMMA ToAppendType ==
  ASSUME NEW S \in Contents, NEW format \in TextFormat
  PROVE  ToAppend(S, format) \in Seq(Item)
<1> DEFINE items(kind, s) == [i \in 1 .. Len(s) |-> [kind |-> kind, of |-> s[i]]]
<1>1. ASSUME NEW s \in Seq(Byte) PROVE items("char", s) \in Seq(Item)
  <2>1. \A i \in 1 .. Len(s) : [kind |-> "char", of |-> s[i]] \in Item
    BY DEF Item
  <2>2. Len(s) \in Nat
    OBVIOUS
  <2> DEFINE t == items("char", s)
  <2>3. DOMAIN t = 1 .. Len(s) /\ t = [i \in 1 .. Len(s) |-> t[i]] /\ \A i \in 1 .. Len(s) : t[i] \in Item
    BY <2>1
  <2> HIDE DEF t
  <2>4. t \in Seq(Item)
    BY <2>2, <2>3, FunctionIsSequence
  <2> QED
    BY <2>4 DEF t
<1>2. items("value", Ascending[S]) \in Seq(Item)
  <2>1. /\ Ascending[S] \in [1 .. Cardinality(S) -> 0 .. UINT32_MAX]
        /\ Cardinality(S) \in Nat
    BY ContentsAreFinite, AscendingType
  <2>2. Len(Ascending[S]) = Cardinality(S)
    BY <2>1
  <2> DEFINE t == items("value", Ascending[S])
  <2>3. \A i \in 1 .. Cardinality(S) : [kind |-> "value", of |-> Ascending[S][i]] \in Item
    BY <2>1 DEF Item
  <2>4. /\ DOMAIN t = 1 .. Cardinality(S) /\ t = [i \in 1 .. Cardinality(S) |-> t[i]]
        /\ \A i \in 1 .. Cardinality(S) : t[i] \in Item
    BY <2>2, <2>3
  <2> HIDE DEF t
  <2>5. t \in Seq(Item)
    BY <2>1, <2>4, FunctionIsSequence
  <2> QED
    BY <2>5 DEF t
<1>3. ToAppend(S, format) = items("char", Opening(format)) \o items("value", Ascending[S]) \o items("char", Closing(format))
  BY DEF ToAppend
<1>4. \A r, s, t \in Seq(Item) : r \o s \o t \in Seq(Item)
  OBVIOUS
<1> HIDE DEF items
<1> QED
  BY <1>1, <1>2, <1>3, <1>4, EndsAreBytes

LEMMA CharactersFit ==
  ASSUME NEW j, NEW item \in Item, job[j].format \in TextFormat
  PROVE  /\ Characters(j, item) \in Seq(Byte)
         /\ Len(Characters(j, item)) <= Room(item)
         /\ Room(item) \in Nat
<1>1. Separator(job[j].format) \in Byte
  BY SeparatorIsByte
<1>2. CASE item.kind = "char"
  <2>1. item.of \in Byte
    BY <1>2 DEF Item
  <2>2. Characters(j, item) = <<item.of>> /\ Room(item) = 1
    BY <1>2 DEF Characters, Room
  <2> QED
    BY <2>1, <2>2
<1>3. CASE item.kind # "char"
  <2>1. item.of \in 0 .. UINT32_MAX
    BY <1>3 DEF Item
  <2> DEFINE d == Decimal[item.of]
             s == IF job[j].separate THEN <<Separator(job[j].format)>> ELSE <<>>
  <2>2. d \in Seq(Byte) /\ Len(d) < ValueRoom
    BY <2>1, DecimalIsDigits, RoomAssumption DEF RoomAssumption
  <2>3. s \in Seq(Byte) /\ Len(s) <= 1
    BY <1>1
  <2>4. Characters(j, item) = s \o d /\ Room(item) = ValueRoom
    BY <1>3 DEF Characters, Room
  <2> HIDE DEF s, d
  <2>5. s \o d \in Seq(Byte) /\ Len(s \o d) = Len(s) + Len(d) /\ Len(s) \in Nat /\ Len(d) \in Nat
    BY <2>2, <2>3
  <2> QED
    BY <2>2, <2>3, <2>4, <2>5, Constants
<1> QED
  BY <1>2, <1>3

-----------------------------------------------------------------------------
(* Text, as it is read.                                                      *)

LEMMA UpTo ==
  ASSUME NEW m \in Nat, NEW T, 0 \in T, \A n \in 0 .. m - 1 : n \in T => n + 1 \in T
  PROVE  \A n \in 0 .. m : n \in T
<1> DEFINE U == {n \in Nat : n <= m => n \in T}
<1>1. 0 \in U
  OBVIOUS
<1>2. ASSUME NEW n \in U PROVE n + 1 \in U
  OBVIOUS
<1>3. U = Nat
  <2> HIDE DEF U
  <2>1. U \in SUBSET Nat
    BY DEF U
  <2> QED
    BY <1>1, <1>2, <2>1, NumbersByInduction
<1> QED
  BY <1>3

\* What was read of a text does not depend on the rest of it.
LEMMA StatesOfPrefix ==
  ASSUME NEW p, NEW s, NEW t, NEW f, NEW g, Parses(p, s, f), Parses(p, t, g),
         NEW m \in Nat, m <= Len(s), m <= Len(t), Len(s) \in Nat, Len(t) \in Nat,
         \A i \in 1 .. m : s[i] = t[i]
  PROVE  f[m] = g[m]
<1> DEFINE T == {n \in Nat : f[n] = g[n]}
<1>1. 0 \in T
  BY DEF Parses
<1>2. ASSUME NEW n \in 0 .. m - 1, n \in T PROVE n + 1 \in T
  <2>1. n + 1 \in 1 .. Len(s) /\ n + 1 \in 1 .. Len(t) /\ n + 1 \in 1 .. m /\ (n + 1) - 1 = n /\ n + 1 \in Nat
    OBVIOUS
  <2>2. f[n + 1] = ParseChar(f[n], s[n + 1]) /\ g[n + 1] = ParseChar(g[n], t[n + 1])
    BY <2>1 DEF Parses
  <2>3. f[n] = g[n] /\ s[n + 1] = t[n + 1]
    BY <1>2, <2>1
  <2> QED
    BY <2>1, <2>2, <2>3
<1>3. \A n \in 0 .. m : n \in T
  <2> HIDE DEF T
  <2> QED
    BY <1>1, <1>2, UpTo
<1> QED
  BY <1>3

LEMMA ParseOfPrefix ==
  ASSUME NEW p \in Parsing, NEW text \in Seq(Byte), NEW after, Parses(p, text, after),
         NEW n \in 0 .. Len(text)
  PROVE  after[n] = Parse(p, SubSeq(text, 1, n))
<1>1. n \in Nat /\ n <= Len(text) /\ Len(text) \in Nat
  OBVIOUS
<1> DEFINE s == SubSeq(text, 1, n)
<1>2. s \in Seq(Byte) /\ Len(s) = n /\ \A i \in 1 .. n : s[i] = text[i]
  BY <1>1
<1> HIDE DEF s
<1>3. PICK g : Parses(p, s, g)
  BY <1>2, ParseHasStates
<1>4. g[n] = after[n]
  BY <1>1, <1>2, <1>3, StatesOfPrefix
<1>5. Parse(p, s) = g[n]
  BY <1>2, <1>3 DEF Parses
<1> QED
  BY <1>4, <1>5 DEF s

\* Text can be read in pieces.
LEMMA ParseInPieces ==
  ASSUME NEW p \in Parsing, NEW a \in Seq(Byte), NEW b \in Seq(Byte)
  PROVE  Parse(p, a \o b) = Parse(Parse(p, a), b)
<1> DEFINE t == a \o b
           q == Parse(p, a)
           k == Len(a)
<1>1. /\ t \in Seq(Byte) /\ k \in Nat /\ Len(b) \in Nat /\ Len(t) = k + Len(b)
      /\ \A i \in 1 .. k : t[i] = a[i]
      /\ \A i \in 1 .. Len(b) : t[k + i] = b[i]
  OBVIOUS
<1>2. q \in Parsing
  BY ParseType
<1>3. PICK f : Parses(p, t, f)
  BY <1>1, ParseHasStates
<1>4. PICK g : Parses(p, a, g)
  BY ParseHasStates
<1>5. PICK h : Parses(q, b, h)
  BY <1>2, ParseHasStates
<1> HIDE DEF t, q, k
<1>6. f[k] = q
  <2>1. g[k] = q
    BY <1>4 DEF Parses, k, q
  <2>2. k <= Len(a) /\ k <= Len(t) /\ Len(a) \in Nat /\ Len(t) \in Nat
    BY <1>1 DEF k
  <2>3. f[k] = g[k]
    BY <1>1, <1>3, <1>4, <2>2, StatesOfPrefix
  <2> QED
    BY <2>1, <2>3
<1> DEFINE T == {n \in Nat : f[k + n] = h[n]}
<1>7. 0 \in T
  BY <1>1, <1>5, <1>6 DEF Parses
<1>8. ASSUME NEW n \in 0 .. Len(b) - 1, n \in T PROVE n + 1 \in T
  <2>1. /\ n + 1 \in 1 .. Len(b) /\ (n + 1) - 1 = n /\ n + 1 \in Nat
        /\ k + (n + 1) \in 1 .. Len(t) /\ (k + (n + 1)) - 1 = k + n
    BY <1>1
  <2>2. h[n + 1] = ParseChar(h[n], b[n + 1])
    BY <1>5, <2>1 DEF Parses
  <2>3. f[k + (n + 1)] = ParseChar(f[k + n], t[k + (n + 1)])
    BY <1>3, <2>1 DEF Parses
  <2>4. t[k + (n + 1)] = b[n + 1] /\ f[k + n] = h[n]
    BY <1>1, <1>8, <2>1
  <2> QED
    BY <2>1, <2>2, <2>3, <2>4
<1>9. \A n \in 0 .. Len(b) : n \in T
  <2> HIDE DEF T
  <2> QED
    BY <1>1, <1>7, <1>8, UpTo
<1>10. f[k + Len(b)] = h[Len(b)]
  BY <1>1, <1>9
<1>11. Parse(p, t) = f[k + Len(b)] /\ Parse(q, b) = h[Len(b)]
  BY <1>1, <1>3, <1>5 DEF Parses
<1> QED
  BY <1>10, <1>11 DEF t, q

LEMMA ParseOfNothing == ASSUME NEW p \in Parsing PROVE Parse(p, <<>>) = p
<1>1. <<>> \in Seq(Byte) /\ Len(<<>>) = 0
  OBVIOUS
<1>2. PICK f : Parses(p, <<>>, f)
  BY <1>1, ParseHasStates
<1> QED
  BY <1>1, <1>2 DEF Parses

LEMMA ParseOfCharacter == ASSUME NEW p \in Parsing, NEW c \in Byte PROVE Parse(p, <<c>>) = ParseChar(p, c)
<1>1. <<c>> \in Seq(Byte) /\ Len(<<c>>) = 1 /\ <<c>>[1] = c
  OBVIOUS
<1>2. PICK f : Parses(p, <<c>>, f)
  BY <1>1, ParseHasStates
<1> QED
  BY <1>1, <1>2 DEF Parses

\* The parser inside a number, and between numbers.
Inside(v, F) == [value |-> v, hasValue |-> TRUE, isNegative |-> FALSE, found |-> F]
Between(F) == [value |-> 0, hasValue |-> FALSE, isNegative |-> FALSE, found |-> F]

LEMMA StatesOfReading ==
  ASSUME NEW F \in SUBSET (0 .. UINT32_MAX), NEW v \in 0 .. UINT32_MAX
  PROVE  /\ Inside(v, F) \in Parsing /\ Between(F) \in Parsing
         /\ Taken(Inside(v, F)) = F \cup {v} /\ Taken(Between(F)) = F
         /\ \A d \in 0 .. Base - 1 :
                /\ ParseChar(Between(F), Digit(d)) = Inside(d, F)
                /\ ParseChar(Inside(v, F), Digit(d)) = Inside(Base * v + d, F)
<1>1. v \in Nat /\ v <= UINT32_MAX /\ UINT32_MAX \in Nat /\ Base \in Nat /\ Base >= 2
  BY Constants
<1>2. v \in 0 .. Base * UINT32_MAX + Base /\ 0 \in 0 .. Base * UINT32_MAX + Base
  <2>1. \A b, m, n \in Nat : b >= 2 /\ n <= m => n <= b * m + b
    <3>1. \A b, m \in Nat : b >= 2 => m <= b * m
      OBVIOUS
    <3> QED
      BY <3>1
  <2>2. v <= Base * UINT32_MAX + Base /\ Base * UINT32_MAX + Base \in Nat
    BY <1>1, <2>1
  <2> QED
    BY <1>1, <2>2
<1>3. Inside(v, F) \in Parsing /\ Between(F) \in Parsing
  BY <1>2 DEF Inside, Between, Parsing
<1>4. Taken(Inside(v, F)) = F \cup {v} /\ Taken(Between(F)) = F
  BY <1>1 DEF Inside, Between, Taken
<1>5. ASSUME NEW d \in 0 .. Base - 1
      PROVE  /\ ParseChar(Between(F), Digit(d)) = Inside(d, F)
             /\ ParseChar(Inside(v, F), Digit(d)) = Inside(Base * v + d, F)
  <2>1. IsDigit(Digit(d)) /\ Digit(d)[2] = d
    BY DEF IsDigit, Digit
  <2>2. Base * 0 + d = d /\ 0 <= UINT32_MAX
    BY <1>1
  <2>3. ParseChar(Between(F), Digit(d)) = [Between(F) EXCEPT !.value = Base * 0 + d, !.hasValue = TRUE]
    <3>1. Between(F).value = 0
      BY DEF Between
    <3>2. 0 <= UINT32_MAX /\ ~(0 > UINT32_MAX)
      BY <1>1
    <3> HIDE DEF Digit
    <3> DEFINE p == Between(F)
    <3>3. ParseChar(p, Digit(d)) = [p EXCEPT !.value = Base * p.value + Digit(d)[2], !.hasValue = TRUE]
      <4> HIDE DEF p
      <4>1. p.value = 0
        BY <3>1 DEF p
      <4> QED
        BY <2>1, <3>2, <4>1 DEF ParseChar
    <3> QED
      BY <2>1, <3>1, <3>3
  <2>4. ParseChar(Inside(v, F), Digit(d)) = [Inside(v, F) EXCEPT !.value = Base * v + d, !.hasValue = TRUE]
    BY <1>1, <2>1 DEF ParseChar, Inside
  <2> QED
    BY <2>2, <2>3, <2>4 DEF Inside, Between
<1> QED
  BY <1>3, <1>4, <1>5

LEMMA SymbolEndsNumber ==
  ASSUME NEW p, NEW c, ~IsDigit(c), c # <<"-">>
  PROVE  ParseChar(p, c) = Between(Taken(p))
<1>1. (c = <<"-">>) = FALSE
  OBVIOUS
<1> QED
  BY <1>1 DEF ParseChar, Between

LEMMA DecimalIsRead ==
  ASSUME NEW F \in SUBSET (0 .. UINT32_MAX)
  PROVE  \A v \in 0 .. UINT32_MAX : Parse(Between(F), Decimal[v]) = Inside(v, F)
<1> DEFINE T == {v \in Nat : v <= UINT32_MAX => Parse(Between(F), Decimal[v]) = Inside(v, F)}
<1>1. ASSUME NEW v \in Nat, \A i \in Nat : i < v => i \in T PROVE v \in T
  <2> SUFFICES ASSUME v <= UINT32_MAX PROVE Parse(Between(F), Decimal[v]) = Inside(v, F)
    OBVIOUS
  <2>1. v \in 0 .. UINT32_MAX /\ 0 \in 0 .. UINT32_MAX /\ Base \in Nat
    BY Constants
  <2>2. CASE v < Base
    <3>1. v \in 0 .. Base - 1 /\ Digit(v) \in Byte
      BY <2>1, <2>2, DigitIsByte
    <3>2. Decimal[v] = <<Digit(v)>>
      BY <2>1, <2>2, DecimalEquation
    <3>3. Parse(Between(F), <<Digit(v)>>) = ParseChar(Between(F), Digit(v))
      BY <2>1, <3>1, StatesOfReading, ParseOfCharacter
    <3>4. ParseChar(Between(F), Digit(v)) = Inside(v, F)
      BY <2>1, <3>1, StatesOfReading
    <3> QED
      BY <3>2, <3>3, <3>4
  <2>3. CASE ~(v < Base)
    <3> DEFINE q == v \div Base
               d == v % Base
    <3>1. q \in 0 .. UINT32_MAX /\ d \in 0 .. Base - 1 /\ q < v
      BY <2>1, <2>3, QuotientByBase
    <3>2. v = Base * q + d
      BY <2>1, Constants, Quotient
    <3>3. Decimal[v] = Append(Decimal[q], Digit(d))
      BY <2>1, <2>3, DecimalEquation
    <3> HIDE DEF q, d
    <3>4. Parse(Between(F), Decimal[q]) = Inside(q, F)
      <4>1. q \in Nat /\ q <= UINT32_MAX /\ q < v
        BY <2>1, <3>1, Constants
      <4>2. q \in T
        BY <1>1, <4>1
      <4> QED
        BY <4>1, <4>2
    <3>5. Digit(d) \in Byte /\ Decimal[q] \in Seq(Byte)
      BY <3>1, DigitIsByte, DecimalIsDigits
    <3>6. Append(Decimal[q], Digit(d)) = Decimal[q] \o <<Digit(d)>> /\ <<Digit(d)>> \in Seq(Byte)
      BY <3>5
    <3>7. Between(F) \in Parsing /\ Inside(q, F) \in Parsing
      BY <3>1, StatesOfReading
    <3>8. Parse(Between(F), Decimal[v]) = Parse(Inside(q, F), <<Digit(d)>>)
      <4>1. Parse(Between(F), Decimal[q] \o <<Digit(d)>>) = Parse(Parse(Between(F), Decimal[q]), <<Digit(d)>>)
        BY <3>5, <3>6, <3>7, ParseInPieces
      <4> QED
        BY <3>3, <3>4, <3>6, <4>1
    <3>9. Parse(Inside(q, F), <<Digit(d)>>) = ParseChar(Inside(q, F), Digit(d))
      BY <3>5, <3>7, ParseOfCharacter
    <3>10. ParseChar(Inside(q, F), Digit(d)) = Inside(Base * q + d, F)
      BY <3>1, StatesOfReading
    <3> QED
      BY <3>2, <3>8, <3>9, <3>10
  <2> QED
    BY <2>2, <2>3
<1>2. T = Nat
  <2> HIDE DEF T
  <2>1. T \in SUBSET Nat
    BY DEF T
  <2> QED
    BY <1>1, <2>1, NumbersByStrongInduction
<1>3. \A v \in 0 .. UINT32_MAX : v \in T /\ v \in Nat /\ v <= UINT32_MAX
  BY <1>2, Constants
<1> QED
  BY <1>3

LEMMA EndsAreSymbols ==
  ASSUME NEW format \in TextFormat
  PROVE  /\ ~IsDigit(Separator(format)) /\ Separator(format) # <<"-">>
         /\ Opening(format) = <<>> \/ \E c \in Byte : Opening(format) = <<c>> /\ ~IsDigit(c) /\ c # <<"-">>
         /\ Closing(format) = <<>> \/ \E c \in Byte : Closing(format) = <<c>> /\ ~IsDigit(c) /\ c # <<"-">>
<1>1. <<"[">> \in Byte /\ <<"]">> \in Byte /\ <<"newline">> \in Byte
  BY DEF Byte, Symbol
<1>2. \A s \in {",", "tab", "newline", "[", "]"} : ~IsDigit(<<s>>) /\ <<s>> # <<"-">>
  BY DEF IsDigit
<1>3. /\ Separator(format) \in {<<",">>, <<"tab">>, <<"newline">>}
      /\ Opening(format) \in {<<>>, <<<<"[">>>>}
      /\ Closing(format) \in {<<>>, <<<<"]">>>>, <<<<"newline">>>>}
  BY DEF TextFormat, Separator, Opening, Closing
<1> QED
  BY <1>1, <1>2, <1>3

LEMMA JoinedIsRead ==
  ASSUME NEW S \in Contents, NEW format \in TextFormat
  PROVE  \A n \in 0 .. Cardinality(S) :
            Parse(Between({}), Joined(S, format, n)) =
                IF n = 0 THEN Between({}) ELSE Inside(Ascending[S][n], {Ascending[S][i] : i \in 1 .. n - 1})
<1> DEFINE m == Cardinality(S)
           v(n) == Ascending[S][n]
           F(n) == {v(i) : i \in 1 .. n}
           q(n) == IF n = 0 THEN Between({}) ELSE Inside(v(n), F(n - 1))
           T == {n \in Nat : Parse(Between({}), Joined(S, format, n)) = q(n)}
<1>1. m \in Nat /\ \A n \in 1 .. m : v(n) \in 0 .. UINT32_MAX
  BY ContentsAreFinite, AscendingType
<1>2. 0 \in 0 .. UINT32_MAX /\ {} \in SUBSET (0 .. UINT32_MAX) /\ Between({}) \in Parsing
  <2>1. 0 \in 0 .. UINT32_MAX /\ {} \in SUBSET (0 .. UINT32_MAX)
    BY Constants
  <2> QED
    BY <2>1, StatesOfReading
<1>3. 0 \in T
  <2>1. Joined(S, format, 0) = <<>>
    BY JoinedEquations
  <2>2. Parse(Between({}), <<>>) = Between({})
    BY <1>2, ParseOfNothing
  <2> QED
    BY <2>1, <2>2
<1>4. ASSUME NEW n \in 0 .. m - 1, n \in T PROVE n + 1 \in T
  <2> HIDE DEF m
  <2>1. n \in 0 .. m /\ n + 1 \in 1 .. m /\ (n + 1) - 1 = n /\ n \in Nat /\ n + 1 \in Nat /\ n + 1 # 0
    BY <1>1
  <2> DEFINE sep == IF n + 1 > 1 THEN <<Separator(format)>> ELSE <<>>
             d == Decimal[v(n + 1)]
             t == Joined(S, format, n)
  <2>2. /\ Joined(S, format, n + 1) = t \o sep \o d /\ t \in Seq(Byte)
    BY <2>1, JoinedEquations DEF m
  <2>3. d \in Seq(Byte)
    BY <1>1, <2>1, DecimalIsDigits
  <2>4. sep \in Seq(Byte) /\ Separator(format) \in Byte
    <3>1. \A b \in Byte : <<b>> \in Seq(Byte)
      OBVIOUS
    <3> QED
      BY <3>1, SeparatorIsByte
  <2>5. F(n) \in SUBSET (0 .. UINT32_MAX) /\ v(n + 1) \in 0 .. UINT32_MAX
    BY <1>1, <2>1
  <2>6. Parse(Between({}), t) = q(n)
    BY <1>4
  <2>7. q(n) \in Parsing /\ Parse(q(n), sep) = Between(F(n))
    <3>1. CASE n = 0
      <4>1. F(n) = {}
        BY <3>1
      <4>2. sep = <<>> /\ q(n) = Between({})
        BY <3>1
      <4> QED
        BY <1>2, <4>1, <4>2, ParseOfNothing
    <3>2. CASE n # 0
      <4>1. n \in 1 .. m /\ n + 1 > 1 /\ n - 1 \in Nat
        BY <2>1, <3>2
      <4>2. q(n) = Inside(v(n), F(n - 1)) /\ sep = <<Separator(format)>>
        BY <3>2, <4>1
      <4>3. F(n - 1) \in SUBSET (0 .. UINT32_MAX) /\ v(n) \in 0 .. UINT32_MAX /\ F(n) = F(n - 1) \cup {v(n)}
        <5>1. \A i \in 1 .. n - 1 : i \in 1 .. m
          BY <1>1, <4>1
        <5>2. F(n - 1) \in SUBSET (0 .. UINT32_MAX) /\ v(n) \in 0 .. UINT32_MAX
          BY <1>1, <4>1, <5>1
        <5>3. 1 .. n = (1 .. n - 1) \cup {n}
          BY <4>1
        <5> HIDE DEF v
        <5> QED
          BY <5>2, <5>3
      <4>4. q(n) \in Parsing /\ Taken(q(n)) = F(n)
        <5> HIDE DEF F, v, q
        <5> QED
          BY <4>2, <4>3, StatesOfReading
      <4>5. Parse(q(n), <<Separator(format)>>) = ParseChar(q(n), Separator(format))
        <5> HIDE DEF q
        <5> QED
          BY <2>4, <4>4, ParseOfCharacter
      <4>6. ParseChar(q(n), Separator(format)) = Between(Taken(q(n)))
        BY EndsAreSymbols, SymbolEndsNumber
      <4> HIDE DEF q, F, sep
      <4> QED
        BY <4>2, <4>4, <4>5, <4>6
    <3> QED
      BY <3>1, <3>2
  <2>8. Parse(Between(F(n)), d) = Inside(v(n + 1), F(n))
    <3> HIDE DEF F, v
    <3> QED
      BY <2>5, DecimalIsRead DEF v
  <2> HIDE DEF sep, d, t, q, F, v
  <2>9. /\ (t \o sep) \in Seq(Byte)
        /\ Parse(Between({}), (t \o sep) \o d) = Parse(Parse(Between({}), t \o sep), d)
        /\ Parse(Between({}), t \o sep) = Parse(Parse(Between({}), t), sep)
    <3>1. (t \o sep) \in Seq(Byte)
      BY <2>2, <2>4
    <3> QED
      BY <1>2, <2>2, <2>3, <2>4, <3>1, ParseInPieces
  <2>10. Parse(Between({}), Joined(S, format, n + 1)) = Inside(v(n + 1), F(n))
    BY <2>2, <2>6, <2>7, <2>8, <2>9
  <2>11. q(n + 1) = Inside(v(n + 1), F(n))
    BY <2>1 DEF q
  <2> QED
    BY <2>1, <2>10, <2>11
<1>5. \A n \in 0 .. m : n \in T
  <2> HIDE DEF T, m
  <2> QED
    BY <1>1, <1>3, <1>4, UpTo
<1> QED
  BY <1>5

\* Every value of a set has its place in it.
LEMMA AscendingHasAll ==
  ASSUME NEW S \in Contents
  PROVE  {Ascending[S][i] : i \in 1 .. Cardinality(S)} = S
<1> DEFINE m == Cardinality(S)
           Below(v) == {w \in S : w < v}
<1>1. S \in SUBSET Nat /\ IsFiniteSet(S) /\ m \in Nat
  BY ContentsAreFinite
<1>2. /\ \A i \in 1 .. m : Ascending[S][i] \in S
      /\ \A i \in 1 .. m : Smaller(S, Ascending[S][i]) = i - 1
  BY AscendingType
<1>3. ASSUME NEW v \in S PROVE \E i \in 1 .. m : Ascending[S][i] = v
  <2>1. IsFiniteSet(Below(v)) /\ Cardinality(Below(v)) \in Nat /\ Cardinality(Below(v)) <= m - 1
    <3>1. Below(v) \in SUBSET (S \ {v})
      BY <1>1
    <3> HIDE DEF Below
    <3>2. IsFiniteSet(S \ {v}) /\ Cardinality(S \ {v}) = m - 1
      BY <1>1, FS_RemoveElement
    <3> QED
      BY <3>1, <3>2, FS_Subset, FS_CardinalityType
  <2> DEFINE i == Smaller(S, v) + 1
  <2>2. Smaller(S, v) = Cardinality(Below(v))
    BY DEF Smaller
  <2>3. i \in 1 .. m /\ i - 1 = Smaller(S, v)
    <3> HIDE DEF m, Below
    <3> QED
      BY <1>1, <2>1, <2>2
  <2> HIDE DEF i, m
  <2> DEFINE u == Ascending[S][i]
  <2>4. u \in S /\ Smaller(S, u) = Smaller(S, v)
    BY <1>2, <2>3
  <2> HIDE DEF u
  <2>5. ASSUME NEW a \in S, NEW b \in S, a < b PROVE Smaller(S, a) # Smaller(S, b)
    <3>1. \A w \in S : w < a => w < b
      BY <1>1, <2>5
    <3>2. ~(a < a)
      BY <1>1
    <3>3. Below(a) \cup {a} \in SUBSET Below(b) /\ a \notin Below(a) /\ Below(b) \in SUBSET S /\ Below(a) \in SUBSET S
      BY <2>5, <3>1, <3>2
    <3> HIDE DEF Below
    <3>4. IsFiniteSet(Below(b)) /\ IsFiniteSet(Below(a))
      BY <1>1, <3>3, FS_Subset
    <3>5. Cardinality(Below(a) \cup {a}) = Cardinality(Below(a)) + 1
      BY <3>3, <3>4, FS_AddElement
    <3>6. Cardinality(Below(a) \cup {a}) <= Cardinality(Below(b))
      BY <3>3, <3>4, FS_Subset
    <3>7. Cardinality(Below(a)) \in Nat /\ Cardinality(Below(b)) \in Nat
      BY <3>4, FS_CardinalityType
    <3>8. Cardinality(Below(a)) # Cardinality(Below(b))
      BY <3>5, <3>6, <3>7
    <3> QED
      BY <3>8 DEF Smaller, Below
  <2>6. u = v
    <3>1. u \in Nat /\ v \in Nat
      BY <1>1, <2>4
    <3>2. ~(u < v) /\ ~(v < u)
      BY <2>4, <2>5
    <3> QED
      BY <3>1, <3>2
  <2> QED
    BY <2>3, <2>6 DEF u
<1> HIDE DEF m
<1>4. \A v \in S : v \in {Ascending[S][i] : i \in 1 .. m}
  BY <1>3
<1>5. \A v \in {Ascending[S][i] : i \in 1 .. m} : v \in S
  BY <1>2
<1> QED
  BY <1>4, <1>5 DEF m

\* Reading undoes writing, of text: what the parser takes of the text of a set,
\* in any of the formats, is the set.
THEOREM TextIsRead ==
  ASSUME NEW S \in Contents, NEW format \in TextFormat
  PROVE  Taken(Parse(ParseInit, Text[S][format])) = S
<1> DEFINE m == Cardinality(S)
           o == Opening(format)
           c == Closing(format)
           t == Joined(S, format, m)
           F == {Ascending[S][i] : i \in 1 .. m - 1}
           q == Parse(Between({}), t)
<1>1. ParseInit = Between({})
  BY DEF ParseInit, Between
<1>2. 0 \in 0 .. UINT32_MAX /\ {} \in SUBSET (0 .. UINT32_MAX)
  BY Constants
<1>3. m \in Nat /\ \A n \in 1 .. m : Ascending[S][n] \in 0 .. UINT32_MAX
  BY ContentsAreFinite, AscendingType
<1>4. /\ Between({}) \in Parsing /\ Taken(Between({})) = {}
  BY <1>2, StatesOfReading
<1>5. m \in 0 .. m
  BY <1>3
<1>6. t \in Seq(Byte) /\ o \in Seq(Byte) /\ c \in Seq(Byte) /\ Text[S][format] = o \o t \o c
  BY <1>5, JoinedEquations, EndsAreBytes, TextType
<1>7. Parse(Between({}), o) = Between({})
  <2>1. CASE o = <<>>
    BY <1>4, <2>1, ParseOfNothing
  <2>2. CASE o # <<>>
    <3>1. PICK b \in Byte : o = <<b>> /\ ~IsDigit(b) /\ b # <<"-">>
      BY <2>2, EndsAreSymbols
    <3>2. Parse(Between({}), <<b>>) = ParseChar(Between({}), b)
      BY <1>4, ParseOfCharacter
    <3> QED
      BY <1>4, <3>1, <3>2, SymbolEndsNumber
  <2> QED
    BY <2>1, <2>2
<1>8. q \in Parsing /\ Taken(q) = S
  <2>1. {Ascending[S][i] : i \in 1 .. m} = S
    BY AscendingHasAll
  <2>2. q = IF m = 0 THEN Between({}) ELSE Inside(Ascending[S][m], F)
    BY <1>5, JoinedIsRead
  <2>3. CASE m = 0
    <3>1. 1 .. m = {}
      <4> HIDE DEF m
      <4> QED
        BY <2>3
    <3>2. S = {}
      <4> HIDE DEF m
      <4> QED
        BY <2>1, <3>1
    <3> QED
      BY <1>4, <2>2, <2>3, <3>2
  <2>4. CASE m # 0
    <3> HIDE DEF m, q
    <3>1. m \in 1 .. m /\ 1 .. m = (1 .. m - 1) \cup {m}
      BY <1>3, <2>4
    <3>2. F \cup {Ascending[S][m]} = S /\ Ascending[S][m] \in 0 .. UINT32_MAX
      BY <1>3, <2>1, <3>1
    <3>3. F \in SUBSET (0 .. UINT32_MAX)
      BY <1>3, <3>1
    <3> HIDE DEF F
    <3> QED
      BY <2>2, <2>4, <3>2, <3>3, StatesOfReading
  <2> QED
    BY <2>3, <2>4
<1>9. Taken(Parse(q, c)) = Taken(q)
  <2> HIDE DEF q
  <2>1. CASE c = <<>>
    BY <1>8, <2>1, ParseOfNothing
  <2>2. CASE c # <<>>
    <3>1. PICK b \in Byte : c = <<b>> /\ ~IsDigit(b) /\ b # <<"-">>
      BY <2>2, EndsAreSymbols
    <3>2. Parse(q, <<b>>) = ParseChar(q, b)
      BY <1>8, ParseOfCharacter
    <3>3. Parse(q, c) = Between(Taken(q))
      BY <3>1, <3>2, SymbolEndsNumber
    <3>4. Taken(q) \in SUBSET (0 .. UINT32_MAX)
      BY <1>8, ContentsAreFinite
    <3> QED
      BY <1>2, <3>3, <3>4, StatesOfReading
  <2> QED
    BY <2>1, <2>2
<1> HIDE DEF o, t, c
<1>10. Parse(Between({}), o \o t \o c) = Parse(q, c)
  <2>1. (o \o t) \in Seq(Byte) /\ o \o t \o c = (o \o t) \o c
    BY <1>6
  <2>2. Parse(Between({}), (o \o t) \o c) = Parse(Parse(Between({}), o \o t), c)
    BY <1>4, <1>6, <2>1, ParseInPieces
  <2>3. Parse(Between({}), o \o t) = Parse(Parse(Between({}), o), t)
    BY <1>4, <1>6, ParseInPieces
  <2> QED
    BY <1>7, <2>1, <2>2, <2>3
<1> QED
  BY <1>1, <1>6, <1>8, <1>9, <1>10

-----------------------------------------------------------------------------
(* What the parser finds is what the text means.                             *)

Runs(text) ==
  {r \in (1 .. Len(text)) \X (1 .. Len(text)) :
      /\ r[1] <= r[2]
      /\ \A i \in r[1] .. r[2] : IsDigit(text[i])
      /\ r[1] > 1 => ~IsDigit(text[r[1] - 1]) /\ text[r[1] - 1] # <<"-">>
      /\ r[2] < Len(text) => ~IsDigit(text[r[2] + 1])}
Numbers(text, e) ==
  /\ e \in [0 .. Len(text) -> Nat] /\ e[0] = 0
  /\ \A n \in 1 .. Len(text) : e[n] = IF IsDigit(text[n]) THEN Base * e[n - 1] + text[n][2] ELSE 0

LEMMA TextHasNumbers ==
  ASSUME NEW text \in Seq(Byte)
  PROVE  \E e : Numbers(text, e) /\ TextValues(text) = {e[r[2]] : r \in Runs(text)} \cap (0 .. UINT32_MAX)
<1> DEFINE m == Len(text)
           next(x, n) == IF n = 0 THEN 0 ELSE IF IsDigit(text[n]) THEN Base * x + text[n][2] ELSE 0
           B == {0}
           a == [n \in 0 .. m |-> 0]
           q == [n \in 0 .. m |-> IF n = 0 THEN 0 ELSE n - 1]
           G == [xn \in Nat \X (0 .. m) |-> next(xn[1], xn[2])]
           Follows(f) == f = [n \in 0 .. m |-> next(f[n - 1], n)]
<1>1. m \in Nat /\ \A n \in 1 .. m : text[n] \in Byte
  OBVIOUS
<1>2. a \in [0 .. m -> Nat] /\ Earlier(m, B, q)
  <2> HIDE DEF m
  <2> QED
    BY <1>1 DEF Earlier
<1>3. ASSUME NEW x \in Nat, NEW n \in 0 .. m PROVE next(x, n) \in Nat
  <2>1. CASE n # 0 /\ IsDigit(text[n])
    <3>1. n \in 1 .. m
      BY <1>1, <2>1
    <3>2. PICK d \in 0 .. Base - 1 : text[n] = Digit(d)
      BY <1>1, <2>1, <3>1, DigitBytes
    <3>3. text[n][2] = d /\ d \in Nat
      BY <3>2, Constants DEF Digit
    <3>4. Base * x + d \in Nat
      BY <3>3, Constants
    <3> QED
      BY <2>1, <3>3, <3>4
  <2>2. CASE ~(n # 0 /\ IsDigit(text[n]))
    BY <2>2
  <2> QED
    BY <2>1, <2>2
<1>4. G \in [Nat \X (0 .. m) -> Nat]
  <2> HIDE DEF next, m
  <2> QED
    BY <1>3
<1>5. \E f : f \in Solutions(m, Nat, B, a, q, G)
  <2> HIDE DEF m, B, a, q, G
  <2> QED
    BY <1>1, <1>2, <1>4, RecursionHasSolution
<1>6. PICK f \in [0 .. m -> Nat] : \A n \in 0 .. m : f[n] = IF n \in B THEN a[n] ELSE G[<<f[q[n]], n>>]
  <2> HIDE DEF m, B, a, q, G
  <2> QED
    BY <1>5 DEF Solutions
<1>7. ASSUME NEW n \in 0 .. m PROVE f[n] = next(f[n - 1], n)
  <2>1. CASE n = 0
    <3>1. f[n] = 0
      <4> HIDE DEF m, G
      <4> QED
        BY <1>6, <2>1
    <3> QED
      BY <2>1, <3>1
  <2>2. CASE n # 0
    <3>1. n \notin B /\ q[n] = n - 1 /\ n - 1 \in 0 .. m
      <4> HIDE DEF m
      <4> QED
        BY <1>1, <2>2
    <3>2. f[n - 1] \in Nat /\ f[n] = G[<<f[n - 1], n>>]
      <4> HIDE DEF m, B, q, a, G
      <4> QED
        BY <1>6, <3>1
    <3> HIDE DEF next, m
    <3> QED
      BY <3>2
  <2> QED
    BY <2>1, <2>2
<1>8. Follows(f)
  <2> HIDE DEF next, m
  <2> QED
    BY <1>7
<1> DEFINE e == CHOOSE g : Follows(g)
<1>9. Follows(e)
  <2> HIDE DEF Follows
  <2> QED
    BY <1>8
<1>10. TextValues(text) = {e[r[2]] : r \in Runs(text)} \cap (0 .. UINT32_MAX)
  BY DEF TextValues, Runs
<1> HIDE DEF e
<1>11. DOMAIN e = 0 .. m /\ e = [n \in 0 .. m |-> e[n]] /\ \A n \in 0 .. m : e[n] = next(e[n - 1], n)
  <2> HIDE DEF next, m
  <2> QED
    BY <1>9
<1>12. e[0] = 0
  <2>1. (\A x : next(x, 0) = 0) /\ 0 \in 0 .. m
    BY <1>1
  <2> HIDE DEF m, next
  <2> QED
    BY <1>11, <2>1, Zenon
<1>13. ASSUME NEW n \in 1 .. m PROVE e[n] = IF IsDigit(text[n]) THEN Base * e[n - 1] + text[n][2] ELSE 0
  <2>1. n \in 0 .. m /\ n # 0
    <3> HIDE DEF m
    <3> QED
      BY <1>1
  <2>2. e[n] = next(e[n - 1], n)
    <3> HIDE DEF m, next
    <3> QED
      BY <1>11, <2>1
  <2> QED
    BY <2>1, <2>2
<1>14. \A n \in 0 .. m : e[n] \in Nat
  <2> DEFINE T == {n \in Nat : e[n] \in Nat}
  <2>1. 0 \in T
    BY <1>12
  <2>2. ASSUME NEW n \in 0 .. m - 1, n \in T PROVE n + 1 \in T
    <3> HIDE DEF m, next
    <3>1. n \in Nat /\ n + 1 \in 0 .. m /\ (n + 1) - 1 = n /\ n + 1 \in Nat
      BY <1>1
    <3>2. e[n + 1] = next(e[n], n + 1) /\ e[n] \in Nat
      BY <1>11, <2>2, <3>1
    <3> QED
      BY <1>3, <3>1, <3>2
  <2> HIDE DEF T, m
  <2>3. \A n \in 0 .. m : n \in T
    BY <1>1, <2>1, <2>2, UpTo
  <2> QED
    BY <2>3 DEF T
<1>15. Numbers(text, e)
  BY <1>11, <1>12, <1>13, <1>14 DEF Numbers
<1> QED
  BY <1>10, <1>15

\* What a reader knows after n characters, with e the numbers that end there.
Ended(text, e, n) == {e[r[2]] : r \in {r \in Runs(text) : r[2] < n}} \cap (0 .. UINT32_MAX)
Number(text, e, p, n, first) ==
  /\ first \in 1 .. n
  /\ \A i \in first .. n : IsDigit(text[i])
  /\ first > 1 => ~IsDigit(text[first - 1])
  /\ p.isNegative <=> first > 1 /\ text[first - 1] = <<"-">>
  /\ p.value <= UINT32_MAX => e[n] = p.value
  /\ p.value > UINT32_MAX => e[n] > UINT32_MAX
Known(text, e, p, n) ==
  /\ p \in Parsing
  /\ p.found = Ended(text, e, n)
  /\ p.hasValue <=> n >= 1 /\ IsDigit(text[n])
  /\ p.hasValue => \E first : Number(text, e, p, n, first)
  /\ ~p.hasValue => /\ p.value = 0 /\ e[n] = 0
                    /\ p.isNegative <=> n >= 1 /\ text[n] = <<"-">>

LEMMA MinusIsNoDigit == ~IsDigit(<<"-">>)
  BY DEF IsDigit

LEMMA NoRunEnds ==
  ASSUME NEW text, NEW e, NEW n \in Nat, \A r \in Runs(text) : r[2] # n, Len(text) \in Nat
  PROVE  Ended(text, e, n + 1) = Ended(text, e, n)
<1>1. \A r \in Runs(text) : r[2] < n + 1 <=> r[2] < n
  <2>1. \A r \in Runs(text) : r[2] \in Nat
    BY DEF Runs
  <2> QED
    BY <2>1
<1>2. {r \in Runs(text) : r[2] < n + 1} = {r \in Runs(text) : r[2] < n}
  BY <1>1
<1> QED
  BY <1>2 DEF Ended

LEMMA RunEnds ==
  ASSUME NEW text, NEW e, NEW n \in Nat, NEW s \in Runs(text), s[2] = n, Len(text) \in Nat
  PROVE  Ended(text, e, n + 1) = Ended(text, e, n) \cup ({e[n]} \cap (0 .. UINT32_MAX))
<1>1. \A r \in Runs(text) : r[2] < n + 1 <=> r[2] < n \/ r[2] = n
  <2>1. \A r \in Runs(text) : r[2] \in Nat
    BY DEF Runs
  <2> QED
    BY <2>1
<1> DEFINE X == {r \in Runs(text) : r[2] < n}
           Y == {r \in Runs(text) : r[2] < n + 1}
<1>2. Y = X \cup {r \in Runs(text) : r[2] = n}
  BY <1>1
<1>3. {e[r[2]] : r \in Y} = {e[r[2]] : r \in X} \cup {e[n]}
  <2>1. \A r \in Y : r \in X \/ e[r[2]] = e[n]
    BY <1>2
  <2>2. s \in Y /\ e[s[2]] = e[n] /\ X \subseteq Y
    BY <1>1
  <2> HIDE DEF X, Y
  <2> QED
    BY <2>1, <2>2
<1> HIDE DEF X, Y
<1>4. Ended(text, e, n + 1) = {e[r[2]] : r \in Y} \cap (0 .. UINT32_MAX) /\ Ended(text, e, n) = {e[r[2]] : r \in X} \cap (0 .. UINT32_MAX)
  BY DEF Ended, X, Y
<1> QED
  BY <1>3, <1>4

\* At the end of a text, and where no digit follows, a number is complete.
LEMMA NumberIsTaken ==
  ASSUME NEW text \in Seq(Byte), NEW e, Numbers(text, e), NEW n \in 0 .. Len(text), NEW p,
         Known(text, e, p, n), n < Len(text) => ~IsDigit(text[n + 1])
  PROVE  Taken(p) = Ended(text, e, n + 1)
<1>1. n \in Nat /\ Len(text) \in Nat /\ n <= Len(text)
  OBVIOUS
<1>2. p \in Parsing /\ p.found = Ended(text, e, n)
  BY DEF Known
<1>3. p.hasValue \in BOOLEAN /\ p.isNegative \in BOOLEAN /\ p.value \in Nat
  BY <1>2, Constants DEF Parsing
<1>4. CASE ~p.hasValue
  <2>1. \A r \in Runs(text) : r[2] # n
    <3> SUFFICES ASSUME NEW r \in Runs(text), r[2] = n PROVE FALSE
      OBVIOUS
    <3>1. r[2] \in r[1] .. r[2] /\ n >= 1
      BY DEF Runs
    <3>2. IsDigit(text[n])
      BY <3>1 DEF Runs
    <3> QED
      BY <1>4, <3>1, <3>2 DEF Known
  <2>2. Taken(p) = p.found
    BY <1>4 DEF Taken
  <2> QED
    BY <1>1, <1>2, <2>1, <2>2, NoRunEnds
<1>5. CASE p.hasValue
  <2>1. PICK a : Number(text, e, p, n, a)
    BY <1>5 DEF Known
  <2>2. a \in 1 .. n /\ (\A i \in a .. n : IsDigit(text[i])) /\ (a > 1 => ~IsDigit(text[a - 1]))
    BY <2>1 DEF Number
  <2>3. CASE p.isNegative
    <3>1. a > 1 /\ text[a - 1] = <<"-">> /\ ~IsDigit(text[a - 1])
      BY <2>1, <2>3, MinusIsNoDigit DEF Number
    <3>2. \A r \in Runs(text) : r[2] # n
      <4> SUFFICES ASSUME NEW r \in Runs(text), r[2] = n PROVE FALSE
        OBVIOUS
      <4>1. /\ r[1] \in 1 .. n /\ \A i \in r[1] .. n : IsDigit(text[i])
            /\ r[1] > 1 => ~IsDigit(text[r[1] - 1]) /\ text[r[1] - 1] # <<"-">>
        BY DEF Runs
      <4>2. ~(r[1] < a)
        <5>1. SUFFICES ASSUME r[1] < a PROVE FALSE
          OBVIOUS
        <5>2. a - 1 \in r[1] .. n
          BY <1>1, <2>2, <4>1, <5>1
        <5> QED
          BY <3>1, <4>1, <5>2
      <4>3. ~(r[1] > a)
        <5>1. SUFFICES ASSUME r[1] > a PROVE FALSE
          OBVIOUS
        <5>2. r[1] - 1 \in a .. n /\ r[1] > 1
          BY <1>1, <2>2, <4>1, <5>1
        <5> QED
          BY <2>2, <4>1, <5>2
      <4>4. r[1] = a
        BY <2>2, <4>1, <4>2, <4>3
      <4> QED
        BY <3>1, <4>1, <4>4
    <3>3. Taken(p) = p.found
      BY <2>3 DEF Taken
    <3> QED
      BY <1>1, <1>2, <3>2, <3>3, NoRunEnds
  <2>4. CASE ~p.isNegative
    <3> DEFINE r == <<a, n>>
    <3>1. a > 1 => text[a - 1] # <<"-">>
      BY <2>1, <2>4 DEF Number
    <3>2. r \in (1 .. Len(text)) \X (1 .. Len(text)) /\ r[1] = a /\ r[2] = n /\ a <= n
      BY <1>1, <2>2
    <3> HIDE DEF r
    <3>3. r \in Runs(text)
      BY <2>2, <3>1, <3>2 DEF Runs
    <3>8. n \in Nat /\ Len(text) \in Nat /\ r \in Runs(text) /\ r[2] = n
      BY <1>1, <3>2, <3>3
    <3>4. Ended(text, e, n + 1) = Ended(text, e, n) \cup ({e[n]} \cap (0 .. UINT32_MAX))
      BY ONLY <3>8, RunEnds
    <3>5. e[n] \in Nat
      BY <1>1 DEF Numbers
    <3>6. CASE p.value <= UINT32_MAX
      <4>1. e[n] = p.value /\ e[n] \in 0 .. UINT32_MAX
        BY <2>1, <3>5, <3>6, Constants DEF Number
      <4>2. Taken(p) = p.found \cup {p.value}
        BY <1>5, <2>4, <3>6 DEF Taken
      <4> QED
        BY <1>2, <3>4, <4>1, <4>2
    <3>7. CASE p.value > UINT32_MAX
      <4>1. e[n] \notin 0 .. UINT32_MAX /\ ~(p.value <= UINT32_MAX)
        BY <1>3, <2>1, <3>5, <3>7, Constants DEF Number
      <4>2. Taken(p) = p.found
        BY <4>1 DEF Taken
      <4> QED
        BY <1>2, <3>4, <4>1, <4>2
    <3> QED
      BY <1>3, <3>6, <3>7, Constants
  <2> QED
    BY <2>3, <2>4
<1> QED
  BY <1>4, <1>5

LEMMA NextIsKnown ==
  ASSUME NEW text \in Seq(Byte), NEW e, Numbers(text, e), NEW n \in 0 .. Len(text) - 1, NEW p,
         Known(text, e, p, n)
  PROVE  Known(text, e, ParseChar(p, text[n + 1]), n + 1)
<1> DEFINE c == text[n + 1]
           s == ParseChar(p, c)
<1>1. /\ n \in Nat /\ Len(text) \in Nat /\ n < Len(text) /\ n \in 0 .. Len(text) /\ n + 1 \in 1 .. Len(text)
      /\ n + 1 \in 0 .. Len(text) /\ (n + 1) - 1 = n /\ n + 1 >= 1
  OBVIOUS
<1>2. p \in Parsing /\ c \in Byte
  BY <1>1 DEF Known
<1>3. s \in Parsing
  BY <1>2, ParseCharType
<1>4. p.hasValue \in BOOLEAN /\ p.isNegative \in BOOLEAN /\ p.value \in Nat
  BY <1>2, Constants DEF Parsing
<1>5. /\ e[n] \in Nat /\ e[n + 1] \in Nat
      /\ e[n + 1] = IF IsDigit(c) THEN Base * e[n] + c[2] ELSE 0
  BY <1>1 DEF Numbers
<1>6. CASE ~IsDigit(c)
  <2>1. s = [value |-> 0, hasValue |-> FALSE, isNegative |-> (c = <<"-">>), found |-> Taken(p)]
    BY <1>6 DEF ParseChar
  <2>2. Taken(p) = Ended(text, e, n + 1)
    BY <1>1, <1>6, NumberIsTaken
  <2>3. s.value = 0 /\ ~s.hasValue /\ s.found = Ended(text, e, n + 1)
    BY <2>1, <2>2
  <2>4. s.isNegative <=> c = <<"-">>
    <3> HIDE DEF c, s
    <3> QED
      BY <2>1, Zenon
  <2>5. e[n + 1] = 0
    BY <1>5, <1>6
  <2>6. s.hasValue <=> n + 1 >= 1 /\ IsDigit(text[n + 1])
    BY <1>6, <2>3
  <2>7. s.isNegative <=> n + 1 >= 1 /\ text[n + 1] = <<"-">>
    BY <1>1, <2>4
  <2> HIDE DEF s
  <2>8. Known(text, e, s, n + 1)
    BY <1>3, <2>3, <2>5, <2>6, <2>7, Zenon DEF Known
  <2> QED
    BY <2>8 DEF s
<1>7. CASE IsDigit(c)
  <2>1. Ended(text, e, n + 1) = Ended(text, e, n)
    <3>1. \A r \in Runs(text) : r[2] # n
      BY <1>1, <1>7 DEF Runs
    <3> QED
      BY <1>1, <3>1, NoRunEnds
  <2>2. PICK d \in 0 .. Base - 1 : c = Digit(d)
    BY <1>2, <1>7, DigitBytes
  <2>3. c[2] = d /\ d \in Nat /\ UINT32_MAX \in Nat /\ Base \in Nat /\ Base >= 2
    BY <2>2, Constants DEF Digit
  <2>4. e[n + 1] = Base * e[n] + d
    BY <1>5, <1>7, <2>3
  <2>5. CASE p.value <= UINT32_MAX
    <3>1. s = [p EXCEPT !.value = Base * p.value + d, !.hasValue = TRUE]
      <4>1. ~(p.value > UINT32_MAX)
        BY <1>4, <2>3, <2>5
      <4> HIDE DEF c
      <4> QED
        BY <1>7, <2>3, <2>5, <4>1 DEF ParseChar
    <3>2. s.value = Base * p.value + d /\ s.hasValue /\ (s.isNegative <=> p.isNegative) /\ s.found = p.found
      BY <1>2, <3>1 DEF Parsing
    <3> HIDE DEF s
    <3>3. e[n] = p.value
      BY <1>4, <2>5 DEF Known, Number
    <3>4. s.value = e[n + 1]
      BY <2>4, <3>2, <3>3
    <3>5. s.value > UINT32_MAX => e[n + 1] > UINT32_MAX
      BY <3>4
    <3>6. \E a : Number(text, e, s, n + 1, a)
      <4>1. CASE p.hasValue
        <5>1. PICK a : Number(text, e, p, n, a)
          BY <4>1 DEF Known
        <5>2. a \in 1 .. n + 1 /\ \A i \in a .. n + 1 : IsDigit(text[i])
          <6>1. \A i \in a .. n + 1 : i \in a .. n \/ i = n + 1
            BY <1>1, <5>1 DEF Number
          <6>2. a \in 1 .. n /\ \A i \in a .. n : IsDigit(text[i])
            BY <5>1 DEF Number
          <6> QED
            BY <1>1, <1>7, <6>1, <6>2
        <5>3. Number(text, e, s, n + 1, a)
          BY <3>2, <3>4, <3>5, <5>1, <5>2 DEF Number
        <5> QED
          BY <5>3
      <4>2. CASE ~p.hasValue
        <5>1. n >= 1 => ~IsDigit(text[n])
          BY <4>2 DEF Known
        <5>2. s.isNegative <=> n >= 1 /\ text[n] = <<"-">>
          BY <3>2, <4>2 DEF Known
        <5>3. n + 1 \in 1 .. n + 1 /\ (\A i \in n + 1 .. n + 1 : i = n + 1) /\ (n + 1 > 1 <=> n >= 1)
          BY <1>1
        <5>4. Number(text, e, s, n + 1, n + 1)
          BY <1>1, <1>7, <3>4, <3>5, <5>1, <5>2, <5>3 DEF Number
        <5> QED
          BY <5>4
      <4> QED
        BY <4>1, <4>2
    <3>7. s.found = Ended(text, e, n + 1)
      BY <2>1, <3>2 DEF Known
    <3>8. s.hasValue <=> n + 1 >= 1 /\ IsDigit(text[n + 1])
      BY <1>1, <1>7, <3>2
    <3>9. Known(text, e, s, n + 1)
      BY <1>3, <3>2, <3>6, <3>7, <3>8, Zenon DEF Known
    <3> QED
      BY <3>9 DEF s
  <2>6. CASE p.value > UINT32_MAX
    <3>1. s = p
      <4>1. ~(p.value <= UINT32_MAX)
        BY <1>4, <2>3, <2>6
      <4> HIDE DEF c
      <4> QED
        BY <1>7, <2>6, <4>1 DEF ParseChar
    <3> HIDE DEF s
    <3>2. p.hasValue
      BY <1>4, <2>3, <2>6 DEF Known
    <3>3. PICK a : Number(text, e, p, n, a)
      BY <3>2 DEF Known
    <3>4. a \in 1 .. n + 1 /\ \A i \in a .. n + 1 : IsDigit(text[i])
      <4>1. \A i \in a .. n + 1 : i \in a .. n \/ i = n + 1
        BY <1>1, <3>3 DEF Number
      <4>2. a \in 1 .. n /\ \A i \in a .. n : IsDigit(text[i])
        BY <3>3 DEF Number
      <4> QED
        BY <1>1, <1>7, <4>1, <4>2
    <3>5. e[n + 1] > UINT32_MAX
      <4>1. e[n] > UINT32_MAX
        BY <2>6, <3>3 DEF Number
      <4>2. \A b, x, y, m \in Nat : b >= 2 /\ x > m => b * x + y > m
        <5>1. \A b, x \in Nat : b >= 2 => b * x >= x /\ b * x \in Nat
          OBVIOUS
        <5> QED
          BY <5>1
      <4> QED
        BY <1>5, <2>3, <2>4, <4>1, <4>2, Zenon
    <3>8. ~(p.value <= UINT32_MAX)
      BY <1>4, <2>3, <2>6
    <3>6. Number(text, e, p, n + 1, a)
      BY <3>3, <3>4, <3>5, <3>8 DEF Number
    <3>7. p.found = Ended(text, e, n + 1)
      BY <2>1 DEF Known
    <3>9. p.hasValue <=> n + 1 >= 1 /\ IsDigit(text[n + 1])
      BY <1>1, <1>7, <3>2
    <3>10. Known(text, e, p, n + 1)
      BY <1>2, <3>2, <3>6, <3>7, <3>9, Zenon DEF Known
    <3> QED
      BY <3>1, <3>10 DEF s
  <2> QED
    BY <1>4, <2>3, <2>5, <2>6
<1> QED
  BY <1>6, <1>7

\* The loop over the characters, which looks at each of them once, finds the
\* numbers of the text, whatever the text is.
THEOREM ParserIsRight ==
  ASSUME NEW text \in Seq(Byte)
  PROVE  Taken(Parse(ParseInit, text)) = TextValues(text)
<1> DEFINE m == Len(text)
<1>1. m \in Nat /\ m \in 0 .. m
  OBVIOUS
<1>2. ParseInit = Between({}) /\ ParseInit \in Parsing
  <2>1. ParseInit = Between({})
    BY DEF ParseInit, Between
  <2>2. {} \in SUBSET (0 .. UINT32_MAX) /\ 0 \in 0 .. UINT32_MAX
    BY Constants
  <2> QED
    BY <2>1, <2>2, StatesOfReading
<1>3. PICK after : Parses(ParseInit, text, after)
  BY <1>2, ParseHasStates
<1>4. PICK e : Numbers(text, e) /\ TextValues(text) = {e[r[2]] : r \in Runs(text)} \cap (0 .. UINT32_MAX)
  BY TextHasNumbers
<1> DEFINE T == {n \in Nat : Known(text, e, after[n], n)}
<1>5. 0 \in T
  <2>1. after[0] = Between({})
    BY <1>2, <1>3 DEF Parses
  <2>2. Ended(text, e, 0) = {}
    <3>1. {r \in Runs(text) : r[2] < 0} = {}
      BY DEF Runs
    <3> QED
      BY <3>1 DEF Ended
  <2>3. e[0] = 0
    BY <1>4 DEF Numbers
  <2>4. Known(text, e, Between({}), 0)
    BY <1>2, <2>2, <2>3 DEF Known, Between
  <2> QED
    BY <2>1, <2>4
<1>6. ASSUME NEW n \in 0 .. m - 1, n \in T PROVE n + 1 \in T
  <2>1. n + 1 \in 1 .. m /\ (n + 1) - 1 = n /\ n + 1 \in Nat
    BY <1>1
  <2>2. after[n + 1] = ParseChar(after[n], text[n + 1])
    BY <1>3, <2>1 DEF Parses
  <2>3. Known(text, e, after[n + 1], n + 1)
    BY <1>4, <1>6, <2>2, NextIsKnown
  <2> QED
    BY <2>1, <2>3
<1>7. Known(text, e, after[m], m)
  <2> HIDE DEF T, m
  <2>1. m \in T
    BY <1>1, <1>5, <1>6, UpTo
  <2> QED
    BY <2>1 DEF T
<1>8. Taken(after[m]) = Ended(text, e, m + 1)
  BY <1>1, <1>4, <1>7, NumberIsTaken
<1>9. Ended(text, e, m + 1) = TextValues(text)
  <2>1. \A r \in Runs(text) : r[2] < m + 1
    BY <1>1 DEF Runs
  <2>2. {r \in Runs(text) : r[2] < m + 1} = Runs(text)
    BY <2>1
  <2> QED
    BY <1>4, <2>2 DEF Ended
<1>10. Parse(ParseInit, text) = after[m]
  BY <1>3 DEF Parses
<1> QED
  BY <1>8, <1>9, <1>10

-----------------------------------------------------------------------------
(* Files and images.                                                         *)

LEMMA SequencesEqual ==
  ASSUME NEW X, NEW s \in Seq(X), NEW t \in Seq(X), Len(s) = Len(t), \A i \in 1 .. Len(s) : s[i] = t[i]
  PROVE  s = t
  OBVIOUS

LEMMA WrittenAtEnd ==
  ASSUME NEW bytes \in Seq(Byte), NEW more \in Seq(Byte)
  PROVE  WrittenAt(bytes, Len(bytes), more) = bytes \o more
<1> DEFINE k == Len(bytes)
           w == WrittenAt(bytes, k, more)
           byte(i) == IF i > k /\ i <= k + Len(more) THEN more[i - k] ELSE IF i <= Len(bytes) THEN bytes[i] ELSE Zero
<1>1. k \in Nat /\ Len(more) \in Nat
  OBVIOUS
<1>2. Max({k, k + Len(more)}) = k + Len(more)
  BY <1>1, MaxOfTwo
<1>3. w = [i \in 1 .. k + Len(more) |-> byte(i)]
  BY <1>2 DEF WrittenAt
<1>4. w \in Seq(Byte) /\ Len(w) = k + Len(more)
  <2>1. w \in Seq(Byte) /\ Len(w) = IF Len(bytes) >= k + Len(more) THEN Len(bytes) ELSE k + Len(more)
    BY WrittenAtType
  <2> QED
    BY <1>1, <2>1
<1>5. /\ (bytes \o more) \in Seq(Byte) /\ Len(bytes \o more) = k + Len(more)
      /\ \A i \in 1 .. k + Len(more) : (bytes \o more)[i] = IF i <= k THEN bytes[i] ELSE more[i - k]
  OBVIOUS
<1>6. \A i \in 1 .. k + Len(more) : w[i] = IF i <= k THEN bytes[i] ELSE more[i - k]
  <2> HIDE DEF w
  <2> QED
    BY <1>1, <1>3
<1> HIDE DEF w
<1>7. Len(w) = Len(bytes \o more) /\ \A i \in 1 .. Len(w) : w[i] = (bytes \o more)[i]
  <2> HIDE DEF k
  <2> QED
    BY <1>4, <1>5, <1>6
<1>8. w = bytes \o more
  BY <1>4, <1>5, <1>7, SequencesEqual
<1> QED
  BY <1>8 DEF w

LEMMA WrittenOver ==
  ASSUME NEW bytes \in Seq(Byte), NEW more \in Seq(Byte), Len(bytes) = Len(more)
  PROVE  WrittenAt(bytes, 0, more) = more
<1> DEFINE k == Len(more)
           w == WrittenAt(bytes, 0, more)
           byte(i) == IF i > 0 /\ i <= 0 + Len(more) THEN more[i - 0] ELSE IF i <= Len(bytes) THEN bytes[i] ELSE Zero
<1>1. k \in Nat /\ Max({Len(bytes), 0 + Len(more)}) = k
  <2>1. k \in Nat
    OBVIOUS
  <2> QED
    BY <2>1, MaxOfTwo
<1>2. w = [i \in 1 .. k |-> byte(i)]
  BY <1>1 DEF WrittenAt
<1>3. w \in Seq(Byte) /\ Len(w) = k
  <2>1. w \in Seq(Byte) /\ Len(w) = IF Len(bytes) >= 0 + Len(more) THEN Len(bytes) ELSE 0 + Len(more)
    BY WrittenAtType
  <2> QED
    BY <1>1, <2>1
<1>4. \A i \in 1 .. k : w[i] = more[i]
  <2> HIDE DEF w
  <2> QED
    BY <1>1, <1>2
<1> HIDE DEF w
<1>5. w = more
  BY <1>3, <1>4, SequencesEqual
<1> QED
  BY <1>5 DEF w

LEMMA ResizedToNothing == ASSUME NEW bytes \in Seq(Byte) PROVE Resized(bytes, 0) = <<>>
<1>1. Resized(bytes, 0) \in Seq(Byte) /\ Len(Resized(bytes, 0)) = 0
  BY ResizedType
<1> QED
  BY <1>1

\* Reading undoes writing, of images: nothing else than the set that was written
\* can be decoded from its image, in any of the binary formats.
THEOREM ImageIsRead ==
  ASSUME NEW S \in Contents, NEW format \in BinaryFormat, NEW X \in Decoded(Image[S][format], format)
  PROVE  X = S
<1>1. ASSUME NEW R \in Contents, format # "uint32_array", Image[R][format][1] = Image[S][format][1]
      PROVE  R = S
  <2>1. Image[R][format] = <<<<format, R, 1>>, <<format, R, 2>>>> /\ Image[S][format] = <<<<format, S, 1>>, <<format, S, 2>>>>
    BY <1>1 DEF Image
  <2>2. <<format, R, 1>> = <<format, S, 1>>
    BY <1>1, <2>1
  <2> QED
    BY <2>2
<1>2. ASSUME NEW R \in Contents, format # "uint32_array"
      PROVE  Image[R][format] \in Seq(Byte) /\ Len(Image[R][format]) = 2
  <2>1. Image[R][format] = <<<<format, R, 1>>, <<format, R, 2>>>>
    BY <1>2 DEF Image
  <2> QED
    BY <2>1, ImageType
<1>3. CASE format = "portable"
  <2>1. X \in Contents /\ IsPrefix(Image[X][format], Image[S][format])
    BY <1>3 DEF Decoded
  <2>2. Image[X][format][1] = Image[S][format][1]
    <3> DEFINE a == Image[X][format]
               b == Image[S][format]
    <3>1. a \in Seq(Byte) /\ b \in Seq(Byte) /\ Len(a) = 2 /\ Len(b) = 2
      BY <1>2, <1>3, <2>1
    <3>2. SubSeq(a, 1, Len(a)) = SubSeq(b, 1, Len(a))
      BY <2>1 DEF IsPrefix
    <3> HIDE DEF a, b
    <3>3. SubSeq(a, 1, 2)[1] = a[1] /\ SubSeq(b, 1, 2)[1] = b[1]
      BY <3>1
    <3>4. a[1] = b[1]
      BY <3>1, <3>2, <3>3
    <3> QED
      BY <3>4 DEF a, b
  <2> QED
    BY <1>1, <1>3, <2>1, <2>2
<1>4. CASE format = "unsafe_frozen_croaring"
  <2>1. X \in Contents /\ Image[S][format] = Image[X][format]
    BY <1>4 DEF Decoded
  <2> QED
    BY <1>1, <1>4, <2>1
<1>5. CASE format = "uint32_array"
  <2> DEFINE n == Cardinality(S)
             bytes == Image[S][format]
             value(i) == IF /\ bytes[i][1] = "value" /\ bytes[i + 1][1] = "value"
                            /\ bytes[i][2] = bytes[i + 1][2] /\ bytes[i][3] < bytes[i + 1][3]
                         THEN bytes[i][2] ELSE 0
             byte(i) == <<"value", Ascending[S][(i + 1) \div 2], IF i % 2 = 1 THEN 1 ELSE 2>>
  <2>1. n \in Nat
    BY ContentsAreFinite
  <2>2. bytes = [i \in 1 .. 2 * n |-> byte(i)]
    BY <1>5 DEF Image
  <2>3. bytes \in Seq(Byte)
    BY ImageType
  <2> HIDE DEF bytes, n
  <2>4. Len(bytes) = 2 * n
    <3>1. DOMAIN bytes = 1 .. 2 * n
      BY <2>2
    <3>2. DOMAIN bytes = 1 .. Len(bytes) /\ Len(bytes) \in Nat /\ 2 * n \in Nat
      BY <2>1, <2>3
    <3> QED
      BY <3>1, <3>2
  <2>5. Len(bytes) % 2 = 0 /\ Len(bytes) \div 2 = n
    BY <2>1, <2>4
  <2>6. ASSUME NEW i \in 1 .. n PROVE value(2 * i - 1) = Ascending[S][i]
    <3>1. /\ 2 * i - 1 \in 1 .. 2 * n /\ 2 * i \in 1 .. 2 * n /\ (2 * i - 1) + 1 = 2 * i
          /\ ((2 * i - 1) + 1) \div 2 = i /\ (2 * i + 1) \div 2 = i
          /\ (2 * i - 1) % 2 = 1 /\ (2 * i) % 2 = 0
      BY <2>1
    <3>2. bytes[2 * i - 1] = <<"value", Ascending[S][i], 1>>
      BY <2>2, <3>1
    <3>3. bytes[2 * i] = <<"value", Ascending[S][i], 2>>
      BY <2>2, <3>1
    <3> QED
      BY <3>1, <3>2, <3>3
  <2>7. X = {value(2 * i - 1) : i \in 1 .. Len(bytes) \div 2}
    BY <1>5, <2>5 DEF Decoded, bytes
  <2> HIDE DEF value
  <2>8. X = {Ascending[S][i] : i \in 1 .. n}
    BY <2>5, <2>6, <2>7
  <2> QED
    BY <2>8, AscendingHasAll DEF n
<1> QED
  BY <1>3, <1>4, <1>5 DEF BinaryFormat

-----------------------------------------------------------------------------
(* What of a text is written after m of its items were appended.            *)

Appended(S, format, m) ==
  IF m < Len(Opening(format)) THEN <<>>
  ELSE IF m <= Len(Opening(format)) + Cardinality(S)
  THEN Opening(format) \o Joined(S, format, m - Len(Opening(format)))
  ELSE Text[S][format]
Items(kind, s) == [i \in 1 .. Len(s) |-> [kind |-> kind, of |-> s[i]]]

LEMMA EndsAreShort ==
  ASSUME NEW format \in TextFormat
  PROVE  /\ Opening(format) \in Seq(Byte) /\ Closing(format) \in Seq(Byte)
         /\ Len(Opening(format)) \in 0 .. 1 /\ Len(Closing(format)) \in 0 .. 1
         /\ Len(Opening(format)) = 0 => Opening(format) = <<>>
         /\ Len(Opening(format)) = 1 => Opening(format) = <<Opening(format)[1]>>
         /\ Len(Closing(format)) = 0 => Closing(format) = <<>>
         /\ Len(Closing(format)) = 1 => Closing(format) = <<Closing(format)[1]>>
<1>1. ASSUME NEW s \in Seq(Byte), Len(s) \in 0 .. 1
      PROVE  /\ Len(s) = 0 => s = <<>>
             /\ Len(s) = 1 => s = <<s[1]>>
  OBVIOUS
<1>2. Len(Opening(format)) \in 0 .. 1 /\ Len(Closing(format)) \in 0 .. 1
  <2>1. Len(<<>>) = 0 /\ \A b \in Byte : Len(<<b>>) = 1
    OBVIOUS
  <2>2. Opening(format) = <<>> \/ \E b \in Byte : Opening(format) = <<b>>
    BY EndsAreSymbols
  <2>3. Closing(format) = <<>> \/ \E b \in Byte : Closing(format) = <<b>>
    BY EndsAreSymbols
  <2>4. Len(Opening(format)) \in {0, 1} /\ Len(Closing(format)) \in {0, 1}
    BY <2>1, <2>2, <2>3, Zenon
  <2> QED
    BY <2>4
<1>3. Opening(format) \in Seq(Byte) /\ Closing(format) \in Seq(Byte)
  BY EndsAreBytes
<1> QED
  BY <1>1, <1>2, <1>3

AreItems(t, kind, s, X) ==
  /\ t \in Seq([kind : {kind}, of : X]) /\ Len(t) = Len(s)
  /\ \A i \in 1 .. Len(s) : t[i] = [kind |-> kind, of |-> s[i]]
LEMMA ItemsType ==
  ASSUME NEW kind, NEW X, NEW s \in Seq(X)
  PROVE  AreItems(Items(kind, s), kind, s, X)
<1>1. Len(s) \in Nat /\ \A i \in 1 .. Len(s) : s[i] \in X
  OBVIOUS
<1> DEFINE t == Items(kind, s)
<1>2. /\ DOMAIN t = 1 .. Len(s) /\ t = [i \in 1 .. Len(s) |-> t[i]]
      /\ \A i \in 1 .. Len(s) : t[i] = [kind |-> kind, of |-> s[i]]
  BY DEF Items
<1> HIDE DEF t
<1>3. \A i \in 1 .. Len(s) : t[i] \in [kind : {kind}, of : X]
  BY <1>1, <1>2
<1>4. t \in Seq([kind : {kind}, of : X]) /\ Len(t) = Len(s)
  BY <1>1, <1>2, <1>3, FunctionIsSequence
<1> QED
  BY <1>2, <1>4 DEF t, AreItems

ItemsInPlace(S, format, o, c, k) ==
  /\ o \in 0 .. 1 /\ c \in Nat /\ k \in 0 .. 1
  /\ Len(ToAppend(S, format)) = o + c + k
  /\ \A i \in 1 .. o : ToAppend(S, format)[i] = [kind |-> "char", of |-> Opening(format)[i]]
  /\ \A i \in 1 .. c : ToAppend(S, format)[o + i] = [kind |-> "value", of |-> Ascending[S][i]]
  /\ \A i \in 1 .. k : ToAppend(S, format)[o + c + i] = [kind |-> "char", of |-> Closing(format)[i]]
LEMMA ItemsOfToAppend ==
  ASSUME NEW S \in Contents, NEW format \in TextFormat
  PROVE  ItemsInPlace(S, format, Len(Opening(format)), Cardinality(S), Len(Closing(format)))
<1> DEFINE o == Len(Opening(format))
           c == Cardinality(S)
           k == Len(Closing(format))
<1>1. o \in 0 .. 1 /\ k \in 0 .. 1 /\ Opening(format) \in Seq(Byte) /\ Closing(format) \in Seq(Byte)
  BY EndsAreShort
<1>2. c \in Nat /\ Ascending[S] \in [1 .. c -> 0 .. UINT32_MAX]
  BY ContentsAreFinite, AscendingType
<1>3. Ascending[S] \in Seq(0 .. UINT32_MAX) /\ Len(Ascending[S]) = c
  <2>1. c \in Nat /\ Ascending[S] \in [1 .. c -> 0 .. UINT32_MAX]
    BY <1>2
  <2>2. Ascending[S] \in Seq(0 .. UINT32_MAX)
    <3>1. /\ DOMAIN Ascending[S] = 1 .. c /\ Ascending[S] = [i \in 1 .. c |-> Ascending[S][i]]
          /\ \A i \in 1 .. c : Ascending[S][i] \in 0 .. UINT32_MAX
      BY ONLY <2>1
    <3> QED
      BY ONLY <2>1, <3>1, FunctionIsSequence
  <2> QED
    BY ONLY <2>1, <2>2, LenProperties
<1> DEFINE a == Items("char", Opening(format))
           b == Items("value", Ascending[S])
           d == Items("char", Closing(format))
<1>5. /\ a \in Seq([kind : {"char"}, of : Byte]) /\ Len(a) = o
      /\ \A i \in 1 .. o : a[i] = [kind |-> "char", of |-> Opening(format)[i]]
  <2>1. AreItems(a, "char", Opening(format), Byte)
    BY <1>1, <1>3, ItemsType
  <2> HIDE DEF a
  <2> QED
    BY <1>3, <2>1 DEF AreItems
<1>6. /\ b \in Seq([kind : {"value"}, of : 0 .. UINT32_MAX]) /\ Len(b) = c
      /\ \A i \in 1 .. c : b[i] = [kind |-> "value", of |-> Ascending[S][i]]
  <2>1. AreItems(b, "value", Ascending[S], 0 .. UINT32_MAX)
    BY <1>1, <1>3, ItemsType
  <2> HIDE DEF b
  <2> QED
    BY <1>3, <2>1 DEF AreItems
<1>7. /\ d \in Seq([kind : {"char"}, of : Byte]) /\ Len(d) = k
      /\ \A i \in 1 .. k : d[i] = [kind |-> "char", of |-> Closing(format)[i]]
  <2>1. AreItems(d, "char", Closing(format), Byte)
    BY <1>1, <1>3, ItemsType
  <2> HIDE DEF d
  <2> QED
    BY <1>3, <2>1 DEF AreItems
<1>8. ToAppend(S, format) = a \o b \o d
  BY DEF ToAppend, Items
<1> HIDE DEF a, b, d
<1>9. a \in Seq(Item) /\ b \in Seq(Item) /\ d \in Seq(Item)
  <2>1. [kind : {"char"}, of : Byte] \subseteq Item /\ [kind : {"value"}, of : 0 .. UINT32_MAX] \subseteq Item
    BY DEF Item
  <2>2. \A X, Y : X \subseteq Y => Seq(X) \subseteq Seq(Y)
    OBVIOUS
  <2> QED
    BY <1>5, <1>6, <1>7, <2>1, <2>2
<1> DEFINE t == a \o b \o d
<1>10. /\ Len(t) = Len(a) + Len(b) + Len(d)
       /\ \A i \in 1 .. Len(a) : t[i] = a[i]
       /\ \A i \in 1 .. Len(b) : t[Len(a) + i] = b[i]
       /\ \A i \in 1 .. Len(d) : t[Len(a) + Len(b) + i] = d[i]
  BY <1>9
<1> HIDE DEF t
<1>11. ToAppend(S, format) = t
  BY <1>8 DEF t
<1> HIDE DEF o, c, k
<1>12. ItemsInPlace(S, format, o, c, k)
  BY <1>1, <1>2, <1>5, <1>6, <1>7, <1>10, <1>11 DEF ItemsInPlace
<1> QED
  BY <1>12 DEF o, c, k

\* What one more item adds.
AppendedBy(S, format, m, item) ==
  /\ item.kind = "char" =>
       Appended(S, format, m + 1) = Appended(S, format, m) \o <<item.of>>
  /\ item.kind # "char" =>
       /\ m <= Len(Opening(format)) + Cardinality(S)
       /\ Appended(S, format, m + 1) =
            Appended(S, format, m) \o ((IF m > Len(Opening(format)) THEN <<Separator(format)>> ELSE <<>>)
                                       \o Decimal[item.of])
  /\ m + 1 <= Len(Opening(format)) + Cardinality(S)
       => (item.kind = "value" <=> m + 1 > Len(Opening(format)))
LEMMA AppendedNext ==
  ASSUME NEW S \in Contents, NEW format \in TextFormat, NEW m \in 0 .. Len(ToAppend(S, format)) - 1
  PROVE  AppendedBy(S, format, m, ToAppend(S, format)[m + 1])
<1> SUFFICES ASSUME NEW item, item = ToAppend(S, format)[m + 1] PROVE AppendedBy(S, format, m, item)
  OBVIOUS
<1> DEFINE o == Len(Opening(format))
           c == Cardinality(S)
           k == Len(Closing(format))
           O == Opening(format)
           C == Closing(format)
           J(n) == Joined(S, format, n)
<1>1. /\ o \in 0 .. 1 /\ c \in Nat /\ k \in 0 .. 1
      /\ Len(ToAppend(S, format)) = o + c + k
      /\ \A i \in 1 .. o : ToAppend(S, format)[i] = [kind |-> "char", of |-> Opening(format)[i]]
      /\ \A i \in 1 .. c : ToAppend(S, format)[o + i] = [kind |-> "value", of |-> Ascending[S][i]]
      /\ \A i \in 1 .. k : ToAppend(S, format)[o + c + i] = [kind |-> "char", of |-> Closing(format)[i]]
  <2>1. ItemsInPlace(S, format, o, c, k)
    BY ItemsOfToAppend
  <2> HIDE DEF o, c, k
  <2> QED
    BY <2>1 DEF ItemsInPlace
<1>2. m \in Nat /\ m + 1 <= o + c + k
  BY <1>1
<1>3. /\ O \in Seq(Byte) /\ C \in Seq(Byte)
      /\ o = 1 => O = <<O[1]>>
      /\ k = 1 => C = <<C[1]>>
  BY EndsAreShort
<1>4. J(0) = <<>> /\ \A n \in 0 .. c : J(n) \in Seq(Byte)
  BY JoinedEquations
<1>5. Text[S][format] = O \o J(c) \o C
  BY TextType
<1>6. CASE m < o
  <2> HIDE DEF o, c, k
  <2>1. m = 0 /\ o = 1 /\ m + 1 = 1 /\ ~(m + 1 < o) /\ m + 1 <= o + c /\ (m + 1) - o = 0 /\ ~(m + 1 > o)
    BY <1>1, <1>2, <1>6
  <2>2. item = [kind |-> "char", of |-> O[1]]
    BY <1>1, <2>1
  <2>3. Appended(S, format, m) = <<>>
    BY <1>6 DEF Appended, o
  <2>4. Appended(S, format, m + 1) = O \o J(0)
    BY <2>1 DEF Appended, o, c
  <2>5. O \o J(0) = <<>> \o <<O[1]>>
    <3>1. O \o <<>> = O /\ <<>> \o O = O
      BY <1>3
    <3> QED
      BY <1>3, <1>4, <2>1, <3>1
  <2>6. item.kind = "char" /\ item.of = O[1]
    BY <2>2
  <2> QED
    BY <2>1, <2>3, <2>4, <2>5, <2>6 DEF AppendedBy, o, c
<1>7. CASE m >= o /\ m < o + c
  <2> HIDE DEF o, c, k, J
  <2> DEFINE n == m + 1 - o
  <2>1. /\ n \in 1 .. c /\ n - 1 = m - o /\ (n > 1 <=> m > o) /\ m + 1 = o + n /\ n \in Nat
        /\ ~(m < o) /\ m <= o + c /\ ~(m + 1 < o) /\ m + 1 <= o + c /\ m + 1 > o /\ n - 1 \in 0 .. c
    BY <1>1, <1>2, <1>7
  <2>2. item = [kind |-> "value", of |-> Ascending[S][n]]
    <3> HIDE DEF n
    <3> QED
      BY <1>1, <2>1
  <2>3. item.kind = "value" /\ item.of = Ascending[S][n]
    BY <2>2
  <2>4. Appended(S, format, m) = O \o J(n - 1)
    <3> HIDE DEF n
    <3> QED
      BY <2>1 DEF Appended, o, c, J
  <2>5. Appended(S, format, m + 1) = O \o J(n)
    BY <2>1 DEF Appended, o, c, J
  <2> HIDE DEF n
  <2> DEFINE sep == IF n > 1 THEN <<Separator(format)>> ELSE <<>>
             d == Decimal[Ascending[S][n]]
  <2>6. J(n) = J(n - 1) \o sep \o d
    BY <2>1, JoinedEquations DEF J, c
  <2>7. d \in Seq(Byte) /\ sep \in Seq(Byte) /\ J(n - 1) \in Seq(Byte)
    <3>1. Ascending[S][n] \in 0 .. UINT32_MAX
      BY <2>1, ContentsAreFinite, AscendingType DEF c
    <3>2. \A b \in Byte : <<b>> \in Seq(Byte)
      OBVIOUS
    <3> QED
      BY <1>4, <2>1, <3>1, <3>2, DecimalIsDigits, SeparatorIsByte
  <2> HIDE DEF d
  <2>8. sep = IF m > o THEN <<Separator(format)>> ELSE <<>>
    BY <2>1
  <2> HIDE DEF sep
  <2>9. O \o (J(n - 1) \o sep \o d) = (O \o J(n - 1)) \o (sep \o d)
    <3> HIDE DEF O
    <3>1. (J(n - 1) \o sep) \o d = J(n - 1) \o (sep \o d) /\ (sep \o d) \in Seq(Byte)
      BY <2>7
    <3> DEFINE p == J(n - 1)
               q == sep \o d
    <3>3. O \in Seq(Byte) /\ p \in Seq(Byte) /\ q \in Seq(Byte)
      BY <1>3, <2>7, <3>1
    <3> HIDE DEF p, q
    <3>4. (O \o p) \o q = O \o (p \o q)
      BY ONLY <3>3, ConcatAssociative
    <3>2. O \o (J(n - 1) \o (sep \o d)) = (O \o J(n - 1)) \o (sep \o d)
      BY <3>4 DEF p, q
    <3> QED
      BY <3>1, <3>2
  <2>10. Appended(S, format, m + 1) = Appended(S, format, m) \o (sep \o Decimal[item.of])
    BY <2>3, <2>4, <2>5, <2>6, <2>9 DEF d
  <2>11. item.kind # "char"
    BY <2>3
  <2> QED
    BY <2>1, <2>3, <2>8, <2>10, <2>11 DEF AppendedBy, o, c
<1>8. CASE m >= o + c
  <2> HIDE DEF o, c, k, J
  <2>1. m = o + c /\ k = 1 /\ ~(m < o) /\ m <= o + c /\ m - o = c /\ ~(m + 1 < o) /\ ~(m + 1 <= o + c) /\ c \in 0 .. c
    BY <1>1, <1>2, <1>8
  <2>2. item = [kind |-> "char", of |-> C[1]]
    BY <1>1, <2>1
  <2>3. item.kind = "char" /\ item.of = C[1]
    BY <2>2
  <2>4. Appended(S, format, m) = O \o J(c)
    BY <2>1 DEF Appended, o, c, J
  <2>5. Appended(S, format, m + 1) = Text[S][format]
    BY <2>1 DEF Appended, o, c
  <2>6. Text[S][format] = (O \o J(c)) \o <<item.of>>
    BY <1>3, <1>5, <2>1, <2>3
  <2> QED
    BY <2>1, <2>3, <2>4, <2>5, <2>6 DEF AppendedBy, o, c
<1>9. m < o \/ (m >= o /\ m < o + c) \/ m >= o + c
  <2> HIDE DEF o, c
  <2> QED
    BY <1>1, <1>2
<1> QED
  BY <1>6, <1>7, <1>8, <1>9, Zenon

LEMMA AppendedEnds ==
  ASSUME NEW S \in Contents, NEW format \in TextFormat
  PROVE  Appended(S, format, 0) = <<>> /\ Appended(S, format, Len(ToAppend(S, format))) = Text[S][format]
<1> DEFINE o == Len(Opening(format))
           c == Cardinality(S)
           k == Len(Closing(format))
           O == Opening(format)
           C == Closing(format)
           J(n) == Joined(S, format, n)
<1>1. o \in 0 .. 1 /\ c \in Nat /\ k \in 0 .. 1 /\ Len(ToAppend(S, format)) = o + c + k
  <2>1. ItemsInPlace(S, format, o, c, k)
    BY ItemsOfToAppend
  <2> HIDE DEF o, c, k
  <2> QED
    BY <2>1 DEF ItemsInPlace
<1>2. O \in Seq(Byte) /\ C \in Seq(Byte) /\ (o = 0 => O = <<>>) /\ (k = 0 => C = <<>>)
  BY EndsAreShort
<1>3. J(0) = <<>> /\ \A n \in 0 .. c : J(n) \in Seq(Byte)
  BY JoinedEquations
<1>4. Text[S][format] = O \o J(c) \o C
  BY TextType
<1> HIDE DEF o, c, k, J
<1>5. Appended(S, format, 0) = <<>>
  <2>1. CASE o = 1
    BY <2>1 DEF Appended, o
  <2>2. CASE o = 0
    <3>1. Appended(S, format, 0) = O \o J(0)
      <4>1. ~(0 < o) /\ 0 <= o + c /\ 0 - o = 0
        BY <1>1, <2>2
      <4> QED
        BY <4>1 DEF Appended, o, c, J
    <3>2. <<>> \o <<>> = <<>>
      OBVIOUS
    <3> QED
      BY <1>2, <1>3, <2>2, <3>1, <3>2
  <2> QED
    BY <1>1, <2>1, <2>2
<1>6. Appended(S, format, o + c + k) = Text[S][format]
  <2>1. CASE k = 1
    <3>1. ~(o + c + k < o) /\ ~(o + c + k <= o + c)
      BY <1>1, <2>1
    <3> QED
      BY <3>1 DEF Appended, o, c
  <2>2. CASE k = 0
    <3>1. o + c + k = o + c /\ ~(o + c < o) /\ o + c <= o + c /\ (o + c) - o = c /\ c \in 0 .. c
      BY <1>1, <2>2
    <3>2. Appended(S, format, o + c) = O \o J(c)
      BY <3>1 DEF Appended, o, c, J
    <3>3. (O \o J(c)) \o <<>> = O \o J(c)
      BY <1>2, <1>3, <3>1
    <3> QED
      BY <1>2, <1>4, <2>2, <3>1, <3>2, <3>3
  <2> QED
    BY <1>1, <2>1, <2>2
<1> QED
  BY <1>1, <1>5, <1>6

-----------------------------------------------------------------------------
(* Where a call holds no descriptor.  That it holds one everywhere else is  *)
(* what DescriptorsClosed needs to be inductive.                            *)

Idle == {"unused", "open", "workDone", "settled"}

Fields ==
  {"at", "op", "format", "values", "fd", "pos", "size", "buf", "todo", "separate",
   "parse", "mapped", "roaring", "frozenBuffer", "ok", "cut", "alone"}

Shaped == DOMAIN job = Job /\ \A j \in Job : DOMAIN job[j] = Fields

Closed ==
  /\ Shaped
  /\ DescriptorsClosed
  /\ \A j \in Job : job[j].fd = None <=> job[j].at \in Idle

LEMMA InitClosed == Init => Closed
<1> SUFFICES ASSUME Init PROVE Closed
  OBVIOUS
<1>1. DOMAIN job = Job /\ \A j \in Job : job[j] = Unused
  BY DEF Init
<1>2. DOMAIN Unused = Fields /\ Unused.fd = None /\ Unused.at = "unused"
  BY DEF Unused, Fields
<1>3. Held = {}
  BY <1>1, <1>2 DEF Held
<1>4. open = {} /\ leaked = {}
  BY DEF Init
<1> QED
  BY <1>1, <1>2, <1>3, <1>4 DEF Closed, Shaped, DescriptorsClosed, Idle

-----------------------------------------------------------------------------
(* Descriptors.  What a step does with them is one of the following.        *)

Others(j) == \A k \in Job \ {j} : job'[k].fd = job[k].fd /\ job'[k].at = job[k].at

\* None is opened or closed.
Keeps(j) ==
  /\ Shaped' /\ Others(j) /\ job'[j].fd = job[j].fd
  /\ job[j].at \in Idle <=> job'[j].at \in Idle
  /\ UNCHANGED <<open, leaked>>

\* The call gets one that nobody has.
Gets(j) ==
  /\ Shaped' /\ Others(j) /\ job[j].at \in Idle /\ job'[j].at \notin Idle
  /\ job'[j].fd # None /\ job'[j].fd \notin open
  /\ open' = open \cup {job'[j].fd} /\ UNCHANGED leaked

\* The call closes the one it has, or ends without that.
Gives(j) ==
  /\ Shaped' /\ Others(j) /\ job[j].at \notin Idle /\ job'[j].at \in Idle
  /\ job'[j].fd = None
  /\ \/ open' = open \ {job[j].fd} /\ UNCHANGED leaked
     \/ leaked' = leaked \cup {job[j].fd} /\ UNCHANGED open

LEMMA KeepsClosed == ASSUME Closed, NEW j \in Job, Keeps(j) PROVE Closed'
<1>1. \A k \in Job : /\ job'[k].fd = job[k].fd
                     /\ job'[k].at \in Idle <=> job[k].at \in Idle
  BY DEF Keeps, Others
<1>2. Held' = Held /\ open' = open /\ leaked' = leaked /\ Shaped'
  BY <1>1 DEF Held, Keeps
<1>3. \A k \in Job : job'[k].fd = None <=> job'[k].at \in Idle
  BY <1>1 DEF Closed
<1>4. DescriptorsClosed'
  <2>1. open' = Held' \cup leaked' /\ Held' \cap leaked' = {}
    BY <1>2 DEF Closed, DescriptorsClosed
  <2>2. \A k, l \in Job : job'[k].fd = job'[l].fd /\ job'[k].fd # None => k = l
    BY <1>1 DEF Closed, DescriptorsClosed
  <2> QED
    BY <1>3, <2>1, <2>2 DEF DescriptorsClosed, Idle
<1> QED
  BY <1>2, <1>3, <1>4 DEF Closed

LEMMA GetsClosed == ASSUME Closed, NEW j \in Job, Gets(j) PROVE Closed'
<1> DEFINE fd == job'[j].fd
<1>1. /\ \A k \in Job \ {j} : job'[k].fd = job[k].fd /\ job'[k].at = job[k].at
      /\ job[j].fd = None /\ job'[j].at \notin Idle /\ fd # None /\ fd \notin open
      /\ open' = open \cup {fd} /\ leaked' = leaked /\ Shaped'
  BY DEF Gets, Others, Closed
<1> HIDE DEF fd
<1>2. Held' = Held \cup {fd}
  BY <1>1 DEF Held, fd
<1>3. \A k \in Job : job'[k].fd = None <=> job'[k].at \in Idle
  BY <1>1 DEF Closed, fd
<1>4. open = Held \cup leaked /\ Held \cap leaked = {}
  BY DEF Closed, DescriptorsClosed
<1>5. open' = Held' \cup leaked' /\ Held' \cap leaked' = {}
  BY <1>1, <1>2, <1>4
<1>6. \A k \in Job \ {j} : job'[k].fd # fd
  BY <1>1, <1>4 DEF Held
<1>7. \A k, l \in Job : job'[k].fd = job'[l].fd /\ job'[k].fd # None => k = l
  <2>1. \A k, l \in Job : job[k].fd = job[l].fd /\ job[k].fd # None => k = l
    BY DEF Closed, DescriptorsClosed
  <2>2. job'[j].fd = fd
    BY DEF fd
  <2> QED
    BY ONLY <1>1, <1>6, <2>1, <2>2
<1> QED
  BY <1>1, <1>3, <1>5, <1>7 DEF Closed, DescriptorsClosed, Idle

LEMMA GivesClosed == ASSUME Closed, NEW j \in Job, Gives(j) PROVE Closed'
<1> DEFINE fd == job[j].fd
<1>1. /\ \A k \in Job \ {j} : job'[k].fd = job[k].fd /\ job'[k].at = job[k].at
      /\ job'[j].fd = None /\ job'[j].at \in Idle /\ fd # None /\ Shaped'
      /\ \/ open' = open \ {fd} /\ leaked' = leaked
         \/ leaked' = leaked \cup {fd} /\ open' = open
  BY DEF Gives, Others, Closed
<1> HIDE DEF fd
<1>2. \A k \in Job \ {j} : job[k].fd # fd
  BY <1>1 DEF Closed, DescriptorsClosed, fd
<1>3. Held' = Held \ {fd} /\ fd \in Held
  BY <1>1, <1>2 DEF Held, fd
<1>4. \A k \in Job : job'[k].fd = None <=> job'[k].at \in Idle
  BY <1>1 DEF Closed
<1>5. open = Held \cup leaked /\ Held \cap leaked = {}
  BY DEF Closed, DescriptorsClosed
<1>6. open' = Held' \cup leaked' /\ Held' \cap leaked' = {}
  BY <1>1, <1>3, <1>5
<1>7. \A k, l \in Job : job'[k].fd = job'[l].fd /\ job'[k].fd # None => k = l
  BY <1>1 DEF Closed, DescriptorsClosed
<1> QED
  BY <1>1, <1>4, <1>6, <1>7 DEF Closed, DescriptorsClosed, Idle

-----------------------------------------------------------------------------
(* The steps of a call, by what they do with its descriptor.                *)

LEMMA CallsKeep ==
  ASSUME Closed, NEW j \in Job,
         StartSerialize(j) \/ StartDeserialize(j) \/ OpenFails(j) \/ Settle(j)
  PROVE  Keeps(j)
<1> USE DEF Shaped, Fields, Idle, Others, Goes, GoesAndWrites
<1>0. Shaped
  BY DEF Closed
<1>1. CASE StartSerialize(j)
  <2>1. PICK S \in Contents, format \in WriteFormats :
          Goes(j, "unused", [job[j] EXCEPT !.at = "open", !.op = "serializeFileAsync", !.format = format,
                             !.values = S, !.size = Len(Written(S, format))])
    BY <1>1 DEF StartSerialize
  <2>2. UNCHANGED <<open, leaked>>
    BY <1>1 DEF StartSerialize
  <2> QED
    BY <1>0, <2>1, <2>2 DEF Keeps
<1>2. CASE StartDeserialize(j)
  <2>1. PICK op \in Readers, format \in ReadFormats :
          Goes(j, "unused", [job[j] EXCEPT !.at = "open", !.op = op, !.format = format])
    BY <1>2 DEF StartDeserialize
  <2>2. UNCHANGED <<open, leaked>>
    BY <1>2 DEF StartDeserialize
  <2> QED
    BY <1>0, <2>1, <2>2 DEF Keeps
<1>3. CASE OpenFails(j)
  BY <1>0, <1>3 DEF OpenFails, Keeps
<1>4. CASE Settle(j)
  <2>1. \/ Goes(j, "workDone", [job[j] EXCEPT !.at = "settled"])
        \/ Goes(j, "workDone", [job[j] EXCEPT !.at = "settled", !.ok = FALSE, !.roaring = None,
                                 !.frozenBuffer = FALSE])
    BY <1>4 DEF Settle
  <2>2. UNCHANGED <<open, leaked>>
    BY <1>4 DEF Settle
  <2> QED
    BY <1>0, <2>1, <2>2 DEF Keeps
<1> QED
  BY <1>1, <1>2, <1>3, <1>4

LEMMA TextKeeps ==
  ASSUME Closed, NEW j \in Job,
         \/ MakeBuffer(j) \/ AppendItem(j) \/ Flush(j) \/ FlushFails(j) \/ TextWritten(j)
         \/ ReadText(j) \/ TextEnds(j) \/ ReadTextFails(j)
  PROVE  Keeps(j)
<1> USE DEF Shaped, Fields, Idle, Others, Goes, GoesAndWrites
<1>0. Shaped
  BY DEF Closed
<1>1. CASE MakeBuffer(j)
  BY <1>0, <1>1 DEF MakeBuffer, Keeps
<1>2. CASE AppendItem(j)
  <2>1. PICK item : Goes(j, "append", [job[j] EXCEPT !.buf = job[j].buf \o Characters(j, item),
                                       !.todo = Tail(job[j].todo),
                                       !.separate = job[j].separate \/ item.kind = "value"])
    BY <1>2 DEF AppendItem
  <2>2. UNCHANGED <<open, leaked>>
    BY <1>2 DEF AppendItem
  <2> QED
    BY <1>0, <2>1, <2>2 DEF Keeps
<1>3. CASE Flush(j)
  <2>1. PICK n : GoesAndWrites(j, "append", [job[j] EXCEPT !.buf = <<>>, !.pos = job[j].pos + n,
                                             !.cut = job[j].cut \/ n < Len(job[j].buf)])
    BY <1>3 DEF Flush
  <2>2. UNCHANGED <<open, leaked>>
    BY <1>3 DEF Flush
  <2> QED
    BY <1>0, <2>1, <2>2 DEF Keeps
<1>4. CASE FlushFails(j)
  BY <1>0, <1>4 DEF FlushFails, Keeps
<1>5. CASE TextWritten(j)
  BY <1>0, <1>5 DEF TextWritten, Keeps
<1>6. CASE ReadText(j)
  <2> HIDE DEF Goes, GoesAndWrites
  <2>1. PICK n, parsed : Goes(j, "readText", [job[j] EXCEPT !.pos = job[j].pos + n, !.parse = parsed,
                                               !.roaring = Bitmap(parsed.found, "memory")])
    <3>1. PICK n : LET parsed == Parse(job[j].parse, SubSeq(file, job[j].pos + 1, job[j].pos + n))
                   IN  Goes(j, "readText", [job[j] EXCEPT !.pos = job[j].pos + n, !.parse = parsed,
                                             !.roaring = Bitmap(parsed.found, "memory")])
      BY <1>6 DEF ReadText
    <3> QED
      BY <3>1
  <2>2. UNCHANGED <<open, leaked>>
    BY <1>6 DEF ReadText
  <2> QED
    BY <1>0, <2>1, <2>2 DEF Keeps, Goes
<1>7. CASE TextEnds(j)
  BY <1>0, <1>7 DEF TextEnds, Keeps
<1>8. CASE ReadTextFails(j)
  BY <1>0, <1>8 DEF ReadTextFails, Keeps
<1> QED
  BY <1>1, <1>2, <1>3, <1>4, <1>5, <1>6, <1>7, <1>8

LEMMA ImagesKeep ==
  ASSUME Closed, NEW j \in Job,
         \/ Truncate(j) \/ TruncateFails(j) \/ MapToWrite(j) \/ MapToWriteFails(j) \/ Fill(j)
         \/ WriteImageFails(j) \/ Stat(j) \/ MapToRead(j) \/ MapToReadFails(j)
         \/ ReadImage(j) \/ ReadImageFails(j) \/ Decode(j)
  PROVE  Keeps(j)
<1> USE DEF Shaped, Fields, Idle, Others, Goes, GoesAndWrites
<1>0. Shaped
  BY DEF Closed
<1>1. CASE Truncate(j)
  <2> HIDE DEF GoesAndWrites
  <2>1. PICK at \in {"close", "mapToWrite"} : GoesAndWrites(j, "ftruncate", [job[j] EXCEPT !.at = at])
    BY <1>1 DEF Truncate
  <2>2. UNCHANGED <<open, leaked>>
    BY <1>1 DEF Truncate
  <2> QED
    BY <1>0, <2>1, <2>2 DEF Keeps, GoesAndWrites
<1>2. CASE TruncateFails(j)
  BY <1>0, <1>2 DEF TruncateFails, Failed, Keeps
<1>3. CASE MapToWrite(j)
  BY <1>0, <1>3 DEF MapToWrite, Keeps
<1>4. CASE MapToWriteFails(j)
  BY <1>0, <1>4 DEF MapToWriteFails, Failed, Keeps
<1>5. CASE Fill(j)
  BY <1>0, <1>5 DEF Fill, Keeps
<1>6. CASE WriteImageFails(j)
  BY <1>0, <1>6 DEF WriteImageFails, Keeps
<1>7. CASE Stat(j)
  BY <1>0, <1>7 DEF Stat, Failed, Keeps
<1>8. CASE MapToRead(j)
  BY <1>0, <1>8 DEF MapToRead, Keeps
<1>9. CASE MapToReadFails(j)
  BY <1>0, <1>9 DEF MapToReadFails, Failed, Keeps
<1>10. CASE ReadImage(j)
  BY <1>0, <1>10 DEF ReadImage, Keeps
<1>11. CASE ReadImageFails(j)
  BY <1>0, <1>11 DEF ReadImageFails, Keeps
<1>12. CASE Decode(j)
  <2> HIDE DEF Goes
  <2> DEFINE Decodes == \E frozen, bitmap :
               Goes(j, "decode", [job[j] EXCEPT !.at = "close", !.mapped = FALSE, !.buf = None,
                                                !.frozenBuffer = frozen, !.roaring = bitmap])
             Refuses == \E copied :
               Goes(j, "decode", [job[j] EXCEPT !.at = "close", !.mapped = FALSE, !.buf = None,
                                                !.frozenBuffer = copied, !.ok = FALSE])
  <2>1. Decodes \/ Refuses
    BY <1>12 DEF Decode
  <2>2. UNCHANGED <<open, leaked>>
    BY <1>12 DEF Decode
  <2>3. CASE Decodes
    BY <1>0, <2>2, <2>3 DEF Keeps, Goes
  <2>4. CASE Refuses
    BY <1>0, <2>2, <2>4 DEF Keeps, Goes
  <2> QED
    BY <2>1, <2>3, <2>4
<1> QED
  BY <1>1, <1>2, <1>3, <1>4, <1>5, <1>6, <1>7, <1>8, <1>9, <1>10, <1>11, <1>12

LEMMA OpensGet ==
  ASSUME Closed, NEW j \in Job, OpenToWrite(j) \/ OpenToRead(j)
  PROVE  Gets(j)
<1> USE DEF Shaped, Fields, Idle, Others, Goes, GoesAndWrites
<1>0. Shaped
  BY DEF Closed
<1>1. CASE OpenToWrite(j)
  <2> HIDE DEF Goes, GoesAndWrites
  <2>1. PICK fd \in NewDescriptor, at \in {"buffer", "ftruncate"}, alone \in BOOLEAN :
          /\ GoesAndWrites(j, "open", [job[j] EXCEPT !.at = at, !.fd = fd, !.alone = alone])
          /\ open' = open \cup {fd} /\ UNCHANGED leaked
    BY <1>1 DEF OpenToWrite
  <2>2. fd # None /\ fd \notin open
    BY JobsAssumption DEF JobsAssumption, NewDescriptor
  <2> QED
    BY <1>0, <2>1, <2>2 DEF Gets, Goes, GoesAndWrites
<1>2. CASE OpenToRead(j)
  <2> HIDE DEF Goes, GoesAndWrites
  <2>1. PICK fd \in NewDescriptor, at \in {"create", "fstat"}, alone \in BOOLEAN :
          /\ Goes(j, "open", [job[j] EXCEPT !.at = at, !.fd = fd, !.alone = alone])
          /\ open' = open \cup {fd} /\ UNCHANGED leaked
    BY <1>2 DEF OpenToRead
  <2>2. fd # None /\ fd \notin open
    BY JobsAssumption DEF JobsAssumption, NewDescriptor
  <2> QED
    BY <1>0, <2>1, <2>2 DEF Gets, Goes, GoesAndWrites
<1> QED
  BY <1>1, <1>2

LEMMA ClosesGive ==
  ASSUME Closed, NEW j \in Job, Close(j) \/ WriteImage(j)
  PROVE  Gives(j)
<1> USE DEF Shaped, Fields, Idle, Others, Goes, GoesAndWrites
<1>0. Shaped
  BY DEF Closed
<1>1. CASE Close(j)
  BY <1>0, <1>1 DEF Close, Gives
<1>2. CASE WriteImage(j)
  <2>1. PICK cut : GoesAndWrites(j, "write", [job[j] EXCEPT !.at = "workDone", !.buf = None, !.fd = None,
                                              !.cut = cut])
    BY <1>2 DEF WriteImage
  <2>2. leaked' = leaked \cup {job[j].fd} /\ UNCHANGED open
    BY <1>2 DEF WriteImage
  <2> QED
    BY <1>0, <2>1, <2>2 DEF Gives
<1> QED
  BY <1>1, <1>2

LEMMA CreateForTextClosed ==
  ASSUME Closed, NEW j \in Job, CreateForText(j)
  PROVE  Closed'
<1>0. Shaped
  BY DEF Closed
<1>1. \/ /\ Goes(j, "create", [job[j] EXCEPT !.at = "readText", !.roaring = Bitmap({}, "memory"), !.buf = <<>>])
         /\ UNCHANGED <<open, leaked>>
      \/ /\ Goes(j, "create", [job[j] EXCEPT !.at = "close", !.ok = FALSE, !.roaring = Bitmap({}, "memory")])
         /\ UNCHANGED <<open, leaked>>
      \/ /\ Goes(j, "create", [job[j] EXCEPT !.at = "workDone", !.fd = None, !.ok = FALSE])
         /\ leaked' = leaked \cup {job[j].fd} /\ UNCHANGED open
  BY DEF CreateForText
<1> USE DEF Shaped, Fields, Idle, Others, Goes
<1>2. CASE /\ Goes(j, "create", [job[j] EXCEPT !.at = "readText", !.roaring = Bitmap({}, "memory"), !.buf = <<>>])
           /\ UNCHANGED <<open, leaked>>
  <2>1. Keeps(j)
    BY <1>0, <1>2 DEF Keeps
  <2> QED
    BY <2>1, KeepsClosed
<1>3. CASE /\ Goes(j, "create", [job[j] EXCEPT !.at = "close", !.ok = FALSE, !.roaring = Bitmap({}, "memory")])
           /\ UNCHANGED <<open, leaked>>
  <2>1. Keeps(j)
    BY <1>0, <1>3 DEF Keeps
  <2> QED
    BY <2>1, KeepsClosed
<1>4. CASE /\ Goes(j, "create", [job[j] EXCEPT !.at = "workDone", !.fd = None, !.ok = FALSE])
           /\ leaked' = leaked \cup {job[j].fd} /\ UNCHANGED open
  <2>1. Gives(j)
    BY <1>0, <1>4 DEF Gives
  <2> QED
    BY <2>1, GivesClosed
<1> HIDE DEF Shaped, Fields, Idle, Others, Goes
<1> QED
  BY <1>1, <1>2, <1>3, <1>4

LEMMA ForgetClosed == ASSUME Closed, NEW j \in Job, Forget(j) PROVE Closed'
<1>1. DOMAIN Unused = Fields /\ Unused.fd = None /\ Unused.at = "unused"
  BY DEF Unused, Fields
<1>2. /\ Shaped /\ job[j].at = "settled" /\ job' = [job EXCEPT ![j] = Unused]
      /\ UNCHANGED <<open, leaked>>
  BY DEF Forget, Closed
<1>3. /\ DOMAIN job' = Job /\ job'[j] = Unused
      /\ \A k \in Job \ {j} : job'[k] = job[k]
  BY <1>2 DEF Shaped
<1>4. job[j].fd = None
  BY <1>2 DEF Closed, Idle
<1>5. Shaped' /\ Others(j) /\ job'[j].fd = job[j].fd
  BY <1>1, <1>2, <1>3, <1>4 DEF Shaped, Others
<1>6. Keeps(j)
  BY <1>1, <1>2, <1>3, <1>5 DEF Keeps, Idle
<1> QED
  BY <1>6, KeepsClosed

LEMMA SameClosed == ASSUME Closed, UNCHANGED <<open, job, leaked>> PROVE Closed'
  BY DEF Closed, Shaped, DescriptorsClosed, Held

LEMMA NextClosed == Closed /\ [Next]_vars => Closed'
<1> SUFFICES ASSUME Closed, [Next]_vars PROVE Closed'
  OBVIOUS
<1>1. CASE UNCHANGED vars
  BY <1>1, SameClosed DEF vars
<1>2. ASSUME NEW j \in Job, Works(j) PROVE Closed'
  <2>1. CASE Crash(j, "fill") \/ Crash(j, "decode")
    BY <2>1, SameClosed DEF Crash
  <2>2. CASE OpenToWrite(j) \/ OpenToRead(j)
    BY <2>2, OpensGet, GetsClosed
  <2>3. CASE Close(j) \/ WriteImage(j)
    BY <2>3, ClosesGive, GivesClosed
  <2>4. CASE CreateForText(j)
    BY <2>4, CreateForTextClosed
  <2>5. CASE OpenFails(j) \/ Settle(j)
    BY <2>5, CallsKeep, KeepsClosed
  <2>6. CASE \/ MakeBuffer(j) \/ AppendItem(j) \/ Flush(j) \/ TextWritten(j)
             \/ ReadText(j) \/ TextEnds(j)
    BY <2>6, TextKeeps, KeepsClosed
  <2>7. CASE \/ Truncate(j) \/ MapToWrite(j) \/ Fill(j) \/ Stat(j) \/ MapToRead(j)
             \/ ReadImage(j) \/ ReadImageFails(j) \/ Decode(j)
    BY <2>7, ImagesKeep, KeepsClosed
  <2> QED
    BY <1>2, <2>1, <2>2, <2>3, <2>4, <2>5, <2>6, <2>7 DEF Works, Serializes, Deserializes
<1>3. ASSUME NEW j \in Job, Fails(j) PROVE Closed'
  <2>1. CASE OpenFails(j)
    BY <2>1, CallsKeep, KeepsClosed
  <2>2. CASE FlushFails(j) \/ ReadTextFails(j)
    BY <2>2, TextKeeps, KeepsClosed
  <2>3. CASE \/ TruncateFails(j) \/ MapToWriteFails(j) \/ WriteImageFails(j)
             \/ MapToReadFails(j) \/ ReadImageFails(j)
    BY <2>3, ImagesKeep, KeepsClosed
  <2> QED
    BY <1>3, <2>1, <2>2, <2>3 DEF Fails
<1>4. ASSUME NEW j \in Job, StartSerialize(j) \/ StartDeserialize(j) PROVE Closed'
  BY <1>4, CallsKeep, KeepsClosed
<1> QED
  BY <1>1, <1>2, <1>3, <1>4, ForgetClosed DEF Next

\* Whatever fails, and in whatever order calls meet, every open descriptor is
\* held by exactly one call or by none after one of the two ways to end without
\* a close; a call that is over holds none.
THEOREM DescriptorsAreClosed == Spec => []DescriptorsClosed
<1>1. Closed => DescriptorsClosed
  BY DEF Closed
<1> QED
  BY <1>1, InitClosed, NextClosed, PTL DEF Spec
-----------------------------------------------------------------------------
(* What a call holds at each place.                                         *)

TextPlaces == {"buffer", "append", "create", "readText"}
WriterPlaces == {"buffer", "append", "ftruncate", "mapToWrite", "fill", "write"}
ReaderPlaces == {"create", "readText", "fstat", "mapToRead", "readImage", "decode"}
ImagePlaces == (WriterPlaces \cup ReaderPlaces) \ TextPlaces
Made == [values : SUBSET (0 .. UINT32_MAX), in : {"memory", "frozenBuffer"}]

Flags(r) ==
  /\ r.ok \in BOOLEAN /\ r.cut \in BOOLEAN /\ r.alone \in BOOLEAN
  /\ r.mapped \in BOOLEAN /\ r.frozenBuffer \in BOOLEAN /\ r.separate \in BOOLEAN

Typed(r) ==
  /\ DOMAIN r = Fields
  /\ r.at \in Places /\ r.fd \in Descriptor \cup {None}
  /\ r.pos \in Nat /\ r.size \in Nat
  /\ r.buf \in Seq(Byte) \cup {None} /\ r.todo \in Seq(Item) /\ r.parse \in Parsing
  /\ r.roaring \in Made \cup {None}
  /\ Flags(r)

Placed(r) ==
  /\ r.at # "unused" =>
       /\ r.op \in Readers \cup {"serializeFileAsync"}
       /\ r.format \in BinaryFormat \cup TextFormat
       /\ r.op = "serializeFileAsync" => r.values \in Contents
  /\ r.at \in WriterPlaces => r.op = "serializeFileAsync"
  /\ r.at \in ReaderPlaces => r.op \in Readers
  /\ r.at \in TextPlaces => r.format \in TextFormat
  /\ r.at \in ImagePlaces => r.format \in BinaryFormat
  /\ r.mapped => r.at \in {"fill", "decode"}
  /\ r.at = "fill" => r.mapped
  /\ r.buf # None <=> \/ r.at \in {"append", "write", "readText", "readImage"}
                      \/ r.at = "decode" /\ ~r.mapped
  /\ r.at = "append" => Len(r.buf) <= BUFFER_SIZE
  /\ r.roaring # None => r.at \in {"readText", "close", "workDone", "settled"}
  /\ r.at = "readText" => r.roaring # None
  /\ r.roaring # None /\ r.roaring.in = "frozenBuffer" => r.frozenBuffer

\* Where a call counts on the length that it gave the file, or that it was told.
NeedsBytes(r) == r.at \in {"mapToWrite", "fill", "write", "mapToRead", "readImage", "decode"}

Holding(r) == (IF r.buf # None THEN 1 ELSE 0) + (IF r.roaring # None THEN 1 ELSE 0)
Unreported(r) == IF r.op # "deserializeFile" /\ r.at \notin {"unused", "settled"} THEN Holding(r) ELSE 0

Calls ==
  /\ DOMAIN job = Job
  /\ \A j \in Job : Typed(job[j]) /\ Placed(job[j])
  /\ file \in Seq(Byte) \cup {None}
  /\ \A j \in Job : job[j].fd # None => file # None
  /\ \A j \in Job : job[j].alone /\ NeedsBytes(job[j]) => Len(file) >= job[j].size
  /\ leaked \subseteq Descriptor
  /\ calls \in 0 .. MaxCalls /\ crashed \in BOOLEAN /\ drift \in Nat
  /\ crashed => \E j \in Job : job[j].mapped /\ ~job[j].alone

\* What a step of a call does to the calls and to the file.
Frame(j) ==
  /\ DOMAIN job' = Job
  /\ \A k \in Job \ {j} : job'[k] = job[k] \/ job'[k] = [job[k] EXCEPT !.alone = FALSE]
  /\ file' \in Seq(Byte) \cup {None} /\ (file # None => file' # None)
  /\ file' # file => \A k \in Job \ {j} : job[k].fd # None => ~job'[k].alone
  /\ leaked' \subseteq Descriptor
  /\ calls' \in 0 .. MaxCalls /\ ~crashed /\ UNCHANGED crashed

Lands(j) ==
  /\ Typed(job'[j]) /\ Placed(job'[j])
  /\ job'[j].fd # None => file' # None
  /\ job'[j].alone /\ NeedsBytes(job'[j]) => Len(file') >= job'[j].size

Accounts(j) ==
  /\ drift' \in Nat
  /\ total' = total + drift - drift' + Holding(job'[j]) - Holding(job[j])
  /\ external' = external + drift - drift' + (Holding(job'[j]) - Unreported(job'[j]))
                                           - (Holding(job[j]) - Unreported(job[j]))
  /\ pending' = [pending EXCEPT ![j] = Unreported(job'[j])]

Accounted ==
  /\ pending \in [Job -> Int]
  /\ total \in Int /\ external \in Int /\ drift \in Nat
  /\ MemoryAccounted

LEMMA UntouchedStays ==
  ASSUME NEW r, NEW s, Typed(r), Placed(r), s = [r EXCEPT !.alone = FALSE]
  PROVE  /\ Typed(s) /\ Placed(s) /\ s.fd = r.fd /\ ~s.alone /\ s.mapped = r.mapped
         /\ Holding(s) = Holding(r) /\ Unreported(s) = Unreported(r)
         /\ s.buf = r.buf /\ s.roaring = r.roaring /\ s.op = r.op /\ s.at = r.at
<1>1. DOMAIN r = Fields
  BY DEF Typed
<1>2. /\ DOMAIN s = Fields /\ s.alone = FALSE
      /\ s.at = r.at /\ s.op = r.op /\ s.format = r.format /\ s.values = r.values /\ s.fd = r.fd
      /\ s.pos = r.pos /\ s.size = r.size /\ s.buf = r.buf /\ s.todo = r.todo /\ s.separate = r.separate
      /\ s.parse = r.parse /\ s.mapped = r.mapped /\ s.roaring = r.roaring
      /\ s.frozenBuffer = r.frozenBuffer /\ s.ok = r.ok /\ s.cut = r.cut
  BY <1>1 DEF Fields
<1>3. Typed(s)
  BY <1>2 DEF Typed, Flags
<1>4. Placed(s)
  BY <1>2 DEF Placed
<1> QED
  BY <1>2, <1>3, <1>4 DEF Holding, Unreported

LEMMA CallsStep ==
  ASSUME Calls, Closed, Closed', NEW j \in Job, Frame(j), Lands(j), drift' \in Nat
  PROVE  Calls'
<1>1. \A k \in Job : Typed(job[k]) /\ Placed(job[k])
  BY DEF Calls
<1>2. ASSUME NEW k \in Job, k # j
      PROVE  /\ Typed(job'[k]) /\ Placed(job'[k])
             /\ job'[k].fd # None => file' # None
             /\ job'[k].alone /\ NeedsBytes(job'[k]) => Len(file') >= job'[k].size
  <2>1. job'[k] = job[k] \/ job'[k] = [job[k] EXCEPT !.alone = FALSE]
    BY <1>2 DEF Frame
  <2>2. job[k].fd # None => file # None
    BY DEF Calls
  <2>3. file # None => file' # None
    BY DEF Frame
  <2>4. CASE job'[k] = job[k]
    <3>1. job'[k].fd = None \/ file' = file \/ ~job'[k].alone
      BY <1>2, <2>4 DEF Frame
    <3>2. job[k].fd = None => ~NeedsBytes(job[k])
      BY DEF Closed, Idle, NeedsBytes
    <3>3. job[k].alone /\ NeedsBytes(job[k]) => Len(file) >= job[k].size
      BY DEF Calls
    <3> QED
      BY <1>1, <2>2, <2>3, <2>4, <3>1, <3>2, <3>3
  <2>5. CASE job'[k] = [job[k] EXCEPT !.alone = FALSE]
    <3>1. /\ Typed(job'[k]) /\ Placed(job'[k]) /\ job'[k].fd = job[k].fd /\ ~job'[k].alone
      BY <1>1, <2>5, UntouchedStays
    <3> QED
      BY <2>2, <2>3, <3>1
  <2> QED
    BY <2>1, <2>4, <2>5
<1> QED
  BY <1>2 DEF Calls, Frame, Lands

LEMMA CountOfChange ==
  ASSUME NEW A, NEW B, NEW j, IsFiniteSet(A), A \ {j} = B \ {j}
  PROVE  /\ IsFiniteSet(B) /\ Cardinality(A) \in Nat /\ Cardinality(B) \in Nat
         /\ Cardinality(B) = Cardinality(A) - (IF j \in A THEN 1 ELSE 0) + (IF j \in B THEN 1 ELSE 0)
<1>1. IsFiniteSet(A \ {j}) /\ Cardinality(A \ {j}) = Cardinality(A) - (IF j \in A THEN 1 ELSE 0)
  <2>1. /\ IsFiniteSet(A \ {j})
        /\ Cardinality(A \ {j}) = IF j \in A THEN Cardinality(A) - 1 ELSE Cardinality(A)
    BY FS_RemoveElement
  <2>2. Cardinality(A) \in Nat
    BY FS_CardinalityType
  <2> QED
    BY <2>1, <2>2
<1>2. CASE j \in B
  <2>1. B = (A \ {j}) \cup {j} /\ j \notin A \ {j}
    BY <1>2
  <2>2. IsFiniteSet(B) /\ Cardinality(B) = Cardinality(A \ {j}) + 1
    BY <1>1, <2>1, FS_AddElement
  <2>3. Cardinality(A) \in Nat /\ Cardinality(B) \in Nat
    BY <2>2, FS_CardinalityType
  <2> QED
    BY <1>1, <1>2, <2>2, <2>3
<1>3. CASE j \notin B
  <2>1. B = A \ {j}
    BY <1>3
  <2>2. Cardinality(A) \in Nat /\ Cardinality(B) \in Nat
    BY <1>1, <2>1, FS_CardinalityType
  <2> QED
    BY <1>1, <1>3, <2>1, <2>2
<1> QED
  BY <1>2, <1>3

AllocatedIn(f, J) == Cardinality({k \in J : f[k].buf # None}) + Cardinality({k \in J : f[k].roaring # None})

LEMMA AllocatedOfOne ==
  ASSUME NEW f, NEW k
  PROVE  AllocatedIn(f, {k}) = Holding(f[k])
<1>1. /\ {i \in {k} : f[i].buf # None} = IF f[k].buf # None THEN {k} ELSE {}
      /\ {i \in {k} : f[i].roaring # None} = IF f[k].roaring # None THEN {k} ELSE {}
  OBVIOUS
<1>2. Cardinality({}) = 0 /\ Cardinality({k}) = 1
  BY FS_EmptySet, FS_Singleton
<1>3. /\ Cardinality({i \in {k} : f[i].buf # None}) = IF f[k].buf # None THEN 1 ELSE 0
      /\ Cardinality({i \in {k} : f[i].roaring # None}) = IF f[k].roaring # None THEN 1 ELSE 0
  BY <1>1, <1>2
<1> QED
  BY <1>3 DEF AllocatedIn, Holding

LEMMA AllocatedChange ==
  ASSUME NEW A \in SUBSET Job, NEW B \in SUBSET Job, NEW j \in Job, A \ {j} = B \ {j},
         \A k \in Job \ {j} : job'[k].buf = job[k].buf /\ job'[k].roaring = job[k].roaring
  PROVE  /\ AllocatedIn(job, A) \in Int /\ AllocatedIn(job', B) \in Int
         /\ AllocatedIn(job', B) = AllocatedIn(job, A) - (IF j \in A THEN Holding(job[j]) ELSE 0)
                                                       + (IF j \in B THEN Holding(job'[j]) ELSE 0)
<1> DEFINE A1 == {k \in A : job[k].buf # None}
           A2 == {k \in A : job[k].roaring # None}
           B1 == {k \in B : job'[k].buf # None}
           B2 == {k \in B : job'[k].roaring # None}
<1>1. IsFiniteSet(A1) /\ IsFiniteSet(A2)
  <2>1. IsFiniteSet(Job) /\ A1 \in SUBSET Job /\ A2 \in SUBSET Job
    BY JobsAssumption DEF JobsAssumption
  <2> HIDE DEF A1, A2
  <2> QED
    BY <2>1, FS_Subset
<1>2. A1 \ {j} = B1 \ {j} /\ A2 \ {j} = B2 \ {j}
  <2>1. ASSUME NEW k, k # j PROVE (k \in A1 <=> k \in B1) /\ (k \in A2 <=> k \in B2)
    <3>1. k \in A <=> k \in B
      BY <2>1
    <3>2. k \in Job => job'[k].buf = job[k].buf /\ job'[k].roaring = job[k].roaring
      BY <2>1
    <3> QED
      BY <3>1, <3>2
  <2> HIDE DEF A1, A2, B1, B2
  <2> QED
    BY <2>1
<1>3. /\ j \in A1 <=> j \in A /\ job[j].buf # None
      /\ j \in A2 <=> j \in A /\ job[j].roaring # None
      /\ j \in B1 <=> j \in B /\ job'[j].buf # None
      /\ j \in B2 <=> j \in B /\ job'[j].roaring # None
  OBVIOUS
<1> HIDE DEF A1, A2, B1, B2
<1>4. /\ Cardinality(A1) \in Nat /\ Cardinality(B1) \in Nat
      /\ Cardinality(B1) = Cardinality(A1) - (IF j \in A1 THEN 1 ELSE 0) + (IF j \in B1 THEN 1 ELSE 0)
  BY <1>1, <1>2, CountOfChange
<1>5. /\ Cardinality(A2) \in Nat /\ Cardinality(B2) \in Nat
      /\ Cardinality(B2) = Cardinality(A2) - (IF j \in A2 THEN 1 ELSE 0) + (IF j \in B2 THEN 1 ELSE 0)
  BY <1>1, <1>2, CountOfChange
<1>6. /\ Holding(job[j]) = (IF job[j].buf # None THEN 1 ELSE 0) + (IF job[j].roaring # None THEN 1 ELSE 0)
      /\ Holding(job'[j]) = (IF job'[j].buf # None THEN 1 ELSE 0) + (IF job'[j].roaring # None THEN 1 ELSE 0)
  BY DEF Holding
<1>7. Cardinality(B1) + Cardinality(B2) = Cardinality(A1) + Cardinality(A2)
        - (IF j \in A THEN Holding(job[j]) ELSE 0) + (IF j \in B THEN Holding(job'[j]) ELSE 0)
  BY ONLY <1>3, <1>4, <1>5, <1>6, SMT
<1>8. Cardinality(A1) + Cardinality(A2) \in Int /\ Cardinality(B1) + Cardinality(B2) \in Int
  BY <1>4, <1>5
<1>9. /\ AllocatedIn(job, A) = Cardinality(A1) + Cardinality(A2)
      /\ AllocatedIn(job', B) = Cardinality(B1) + Cardinality(B2)
  BY DEF A1, A2, B1, B2, AllocatedIn
<1>10. AllocatedIn(job, A) \in Int /\ AllocatedIn(job', B) \in Int
  BY <1>8, <1>9, Zenon
<1>11. Holding(job[j]) \in Int /\ Holding(job'[j]) \in Int
  BY DEF Holding
<1> QED
  BY <1>4, <1>5, <1>7, <1>9, <1>10, <1>11

LEMMA AccountedStep ==
  ASSUME Calls, Accounted, NEW j \in Job, Frame(j), Accounts(j)
  PROVE  Accounted'
<1>1. ASSUME NEW k \in Job, k # j
      PROVE  /\ job'[k].buf = job[k].buf /\ job'[k].roaring = job[k].roaring
             /\ job'[k].op = job[k].op /\ job'[k].at = job[k].at /\ Unreported(job'[k]) = Unreported(job[k])
  <2>1. Typed(job[k]) /\ Placed(job[k])
    BY DEF Calls
  <2>2. job'[k] = job[k] \/ job'[k] = [job[k] EXCEPT !.alone = FALSE]
    BY <1>1 DEF Frame
  <2> QED
    BY <2>1, <2>2, UntouchedStays
<1> DEFINE Reported == {k \in Job : ~Kept(k)}
           After == {k \in Job : ~(job'[k].op # "deserializeFile" /\ job'[k].at \notin {"unused", "settled"})}
<1>2. Allocated(Job) \in Int /\ AllocatedIn(job', Job) = Allocated(Job) - Holding(job[j]) + Holding(job'[j])
  BY <1>1, AllocatedChange DEF Allocated, AllocatedIn
<1>3. Reported \ {j} = After \ {j}
  BY <1>1 DEF Kept, OnMainThread
<1>4. /\ j \in Reported <=> ~(job[j].op # "deserializeFile" /\ job[j].at \notin {"unused", "settled"})
      /\ j \in After <=> ~(job'[j].op # "deserializeFile" /\ job'[j].at \notin {"unused", "settled"})
  BY DEF Kept, OnMainThread
<1>5. /\ Allocated(Reported) \in Int
      /\ AllocatedIn(job', After) = Allocated(Reported) - (IF j \in Reported THEN Holding(job[j]) ELSE 0)
                                          + (IF j \in After THEN Holding(job'[j]) ELSE 0)
  <2>1. Reported \in SUBSET Job /\ After \in SUBSET Job
    OBVIOUS
  <2> HIDE DEF Reported, After
  <2> QED
    BY <1>1, <1>3, <2>1, AllocatedChange DEF Allocated, AllocatedIn
<1>6. /\ (IF j \in Reported THEN Holding(job[j]) ELSE 0) = Holding(job[j]) - Unreported(job[j])
      /\ (IF j \in After THEN Holding(job'[j]) ELSE 0) = Holding(job'[j]) - Unreported(job'[j])
      /\ {Holding(job[j]), Holding(job'[j]), Unreported(job[j]), Unreported(job'[j])} \subseteq Int
  BY <1>4 DEF Unreported, Holding
<1>7. total = Allocated(Job) - drift /\ external = Allocated(Reported) - drift /\ drift \in Int
  BY DEF Accounted, MemoryAccounted
<1>8. total' = AllocatedIn(job', Job) - drift' /\ external' = AllocatedIn(job', After) - drift' /\ total' \in Int /\ external' \in Int
  <2> HIDE DEF Reported, After
  <2>1. /\ total' = total + drift - drift' + Holding(job'[j]) - Holding(job[j])
        /\ external' = external + drift - drift' + (Holding(job'[j]) - Unreported(job'[j]))
                                                 - (Holding(job[j]) - Unreported(job[j]))
        /\ drift' \in Int
    BY DEF Accounts
  <2>2. /\ total \in Int /\ external \in Int /\ Allocated(Job) \in Int /\ Allocated(Reported) \in Int
        /\ Holding(job[j]) \in Int /\ Holding(job'[j]) \in Int
        /\ Unreported(job[j]) \in Int /\ Unreported(job'[j]) \in Int
    BY <1>2, <1>5, <1>6 DEF Accounted
  <2>3. AllocatedIn(job', Job) \in Int /\ AllocatedIn(job', After) \in Int
    BY <1>2, <1>5, <1>6, <2>2
  <2> QED
    BY <1>2, <1>5, <1>6, <1>7, <2>1, <2>2, <2>3
<1>9. Allocated(Job)' = AllocatedIn(job', Job) /\ Allocated({k \in Job : ~Kept(k)})' = AllocatedIn(job', After)
  BY DEF Allocated, AllocatedIn, Kept, OnMainThread
<1>10. ASSUME NEW k \in Job PROVE pending'[k] = IF Kept(k)' THEN Allocated({k})' ELSE 0
  <2>1. Allocated({k})' = AllocatedIn(job', {k})
    BY DEF Allocated, AllocatedIn
  <2>2. AllocatedIn(job', {k}) = Holding(job'[k])
    BY AllocatedOfOne
  <2>3. pending'[k] = Unreported(job'[k])
    <3>1. pending' = [pending EXCEPT ![j] = Unreported(job'[j])] /\ DOMAIN pending = Job
      BY DEF Accounts, Accounted
    <3>2. CASE k = j
      BY <3>1, <3>2
    <3>3. CASE k # j
      <4>1. pending'[k] = pending[k]
        BY <3>1, <3>3
      <4>2. pending[k] = Unreported(job[k])
        <5>1. pending[k] = IF Kept(k) THEN Allocated({k}) ELSE 0
          BY DEF Accounted, MemoryAccounted
        <5>2. Allocated({k}) = Holding(job[k])
          BY AllocatedOfOne DEF Allocated, AllocatedIn
        <5> QED
          BY <5>1, <5>2 DEF Kept, OnMainThread, Unreported
      <4> QED
        BY <1>1, <3>3, <4>1, <4>2
    <3> QED
      BY <3>2, <3>3
  <2> QED
    BY <2>1, <2>2, <2>3 DEF Kept, OnMainThread, Unreported
<1>11. pending' \in [Job -> Int] /\ drift' \in Nat
  BY <1>6 DEF Accounts, Accounted
<1> HIDE DEF Reported, After
<1> QED
  BY <1>8, <1>9, <1>10, <1>11 DEF Accounted, MemoryAccounted

-----------------------------------------------------------------------------
(* Every step of a call keeps to that.                                      *)

Invariant == Closed /\ Calls /\ Accounted
Steps(j) == Frame(j) /\ Lands(j) /\ Accounts(j)

Elsewhere(r, s, changed) == DOMAIN s = Fields /\ \A f \in Fields \ changed : s[f] = r[f]

LEMMA GoesFrame ==
  ASSUME Calls, NEW j \in Job, NEW from, NEW new, Goes(j, from, new),
         UNCHANGED <<file, crashed>>, leaked' \subseteq Descriptor, calls' \in 0 .. MaxCalls
  PROVE  /\ Frame(j) /\ job'[j] = new /\ job[j].at = from
         /\ Typed(job[j]) /\ Placed(job[j]) /\ DOMAIN job[j] = Fields
  BY DEF Goes, Calls, Frame, Typed

LEMMA WritesFrame ==
  ASSUME Calls, Closed, NEW j \in Job, NEW from, NEW new, GoesAndWrites(j, from, new),
         file' \in Seq(Byte), UNCHANGED crashed, leaked' \subseteq Descriptor, calls' \in 0 .. MaxCalls
  PROVE  /\ Frame(j) /\ job'[j] = new /\ job[j].at = from /\ file' # None
         /\ Typed(job[j]) /\ Placed(job[j]) /\ DOMAIN job[j] = Fields
<1>1. None \notin Seq(Byte)
  BY JobsAssumption DEF JobsAssumption
<1>2. /\ ~crashed /\ job[j].at = from
      /\ job' = [k \in Job |-> IF k = j THEN new
                               ELSE IF Opened(k) THEN [job[k] EXCEPT !.alone = FALSE] ELSE job[k]]
  BY DEF GoesAndWrites
<1>3. Typed(job[j]) /\ Placed(job[j]) /\ DOMAIN job[j] = Fields
  BY DEF Calls, Typed
<1>4. \A k \in Job \ {j} : job[k].fd # None => ~job'[k].alone
  <2> SUFFICES ASSUME NEW k \in Job \ {j}, job[k].fd # None PROVE ~job'[k].alone
    OBVIOUS
  <2>1. Typed(job[k]) /\ Placed(job[k])
    BY DEF Calls
  <2>2. job'[k] = [job[k] EXCEPT !.alone = FALSE]
    BY <1>2 DEF Opened
  <2> QED
    BY <2>1, <2>2, UntouchedStays
<1>5. Frame(j)
  BY <1>1, <1>2, <1>4 DEF Frame
<1> QED
  BY <1>1, <1>2, <1>3, <1>5

LEMMA PendingIsUnreported ==
  ASSUME Accounted, NEW j \in Job
  PROVE  pending[j] = Unreported(job[j]) /\ pending \in [Job -> Int]
<1>1. pending[j] = IF Kept(j) THEN Allocated({j}) ELSE 0
  BY DEF Accounted, MemoryAccounted
<1>2. Allocated({j}) = Holding(job[j])
  BY AllocatedOfOne DEF Allocated, AllocatedIn
<1> QED
  BY <1>1, <1>2 DEF Kept, OnMainThread, Unreported, Accounted

LEMMA CountsAccounts ==
  ASSUME Accounted, NEW j \in Job, NEW n \in Int, Counts(j, n),
         Holding(job'[j]) = Holding(job[j]) + n, job'[j].op = job[j].op,
         job[j].at \notin {"unused", "settled"}, job'[j].at \notin {"unused", "settled"}
  PROVE  Accounts(j)
<1> DEFINE h == Holding(job[j])
           g == Holding(job'[j])
<1>1. h \in Int /\ g \in Int /\ g = h + n
  BY DEF Holding
<1>2. pending[j] = Unreported(job[j]) /\ pending \in [Job -> Int]
  BY PendingIsUnreported
<1>3. total \in Int /\ external \in Int /\ drift \in Nat /\ drift' = drift /\ total' = total + n
  BY DEF Accounted, Counts
<1>4. CASE OnMainThread(j)
  <2>1. Unreported(job[j]) = 0 /\ Unreported(job'[j]) = 0
    BY <1>4 DEF OnMainThread, Unreported
  <2>2. external' = external + n /\ pending' = pending
    BY <1>4 DEF Counts
  <2> HIDE DEF h, g
  <2>3. pending' = [pending EXCEPT ![j] = Unreported(job'[j])]
    BY <1>2, <2>1, <2>2
  <2>4. total' = total + drift - drift' + g - h /\ external' = external + drift - drift' + (g - 0) - (h - 0)
    BY <1>1, <1>3, <2>2
  <2> QED
    BY <1>3, <2>1, <2>3, <2>4 DEF Accounts, h, g
<1>5. CASE ~OnMainThread(j)
  <2>1. Unreported(job[j]) = h /\ Unreported(job'[j]) = g
    BY <1>5 DEF OnMainThread, Unreported
  <2>2. external' = external /\ pending' = [pending EXCEPT ![j] = @ + n]
    BY <1>5 DEF Counts
  <2> HIDE DEF h, g
  <2>3. pending' = [pending EXCEPT ![j] = Unreported(job'[j])]
    BY <1>1, <1>2, <2>1, <2>2
  <2>4. total' = total + drift - drift' + g - h /\ external' = external + drift - drift' + (g - g) - (h - h)
    BY <1>1, <1>3, <2>2
  <2> QED
    BY <1>3, <2>1, <2>3, <2>4 DEF Accounts, h, g
<1> QED
  BY <1>4, <1>5

LEMMA SameAccounts ==
  ASSUME Accounted, NEW j \in Job, UNCHANGED memory,
         Holding(job'[j]) = Holding(job[j]), Unreported(job'[j]) = Unreported(job[j])
  PROVE  Accounts(j)
<1>1. pending[j] = Unreported(job[j]) /\ pending \in [Job -> Int]
  BY PendingIsUnreported
<1>2. Holding(job[j]) \in Int /\ Unreported(job[j]) \in Int
  BY DEF Holding, Unreported
<1>3. /\ total \in Int /\ external \in Int /\ drift \in Nat
      /\ total' = total /\ external' = external /\ drift' = drift /\ pending' = pending
  BY DEF Accounted, memory
<1>4. pending' = [pending EXCEPT ![j] = Unreported(job'[j])]
  BY <1>1, <1>3
<1>5. \A h, u \in Int : /\ total' = total + drift - drift' + h - h
                       /\ external' = external + drift - drift' + (h - u) - (h - u)
  BY <1>3
<1>6. /\ total' = total + drift - drift' + Holding(job'[j]) - Holding(job[j])
      /\ external' = external + drift - drift' + (Holding(job'[j]) - Unreported(job'[j]))
                                               - (Holding(job[j]) - Unreported(job[j]))
  BY <1>2, <1>5
<1> QED
  BY <1>3, <1>4, <1>6 DEF Accounts

LEMMA NoneIsApart ==
  /\ \A s \in Seq(Byte) : s # None
  /\ \A m \in Made : m # None
  /\ <<>> \in Seq(Byte) /\ <<>> # None /\ Len(<<>>) = 0
<1>1. <<>> \in Seq(Byte) /\ Len(<<>>) = 0
  OBVIOUS
<1>2. \A m \in Made : m \in [values : SUBSET (0 .. UINT32_MAX), in : {"memory", "frozenBuffer", "mapping"}]
  BY DEF Made
<1> QED
  BY <1>1, <1>2, JobsAssumption DEF JobsAssumption

\* A step from one place of a call to another, when the file stays as it is and
\* when it is written.
Counted(j, n) == Counts(j, n) \/ (n = 0 /\ UNCHANGED memory)
Moves(r, s, n) ==
  /\ Typed(s) /\ Placed(s)
  /\ s.op = r.op /\ Holding(s) = Holding(r) + n
  /\ r.at \notin {"unused", "settled"} /\ s.at \notin {"unused", "settled"}

LEMMA CountedAccounts ==
  ASSUME Accounted, NEW j \in Job, NEW n \in Int, Counted(j, n), Moves(job[j], job'[j], n)
  PROVE  Accounts(j)
<1>1. CASE Counts(j, n)
  BY <1>1, CountsAccounts DEF Moves
<1>2. CASE n = 0 /\ UNCHANGED memory
  <2>1. Holding(job[j]) \in Int
    BY DEF Holding
  <2>2. Holding(job'[j]) = Holding(job[j])
    BY <1>2, <2>1 DEF Moves
  <2>3. Unreported(job'[j]) = Unreported(job[j])
    BY <2>2 DEF Moves, Unreported
  <2> QED
    BY <1>2, <2>2, <2>3, SameAccounts
<1> QED
  BY <1>1, <1>2 DEF Counted

ByGoes(j, from, s, n) ==
  /\ n \in Int /\ Goes(j, from, s) /\ Counted(j, n) /\ Moves(job[j], s, n)
  /\ UNCHANGED <<file, crashed, calls>> /\ leaked' \subseteq Descriptor
  /\ s.fd # None => job[j].fd # None \/ file # None
  /\ s.alone /\ NeedsBytes(s) => Len(file) >= s.size
ByWrites(j, from, s, n) ==
  /\ n \in Int /\ GoesAndWrites(j, from, s) /\ Counted(j, n) /\ Moves(job[j], s, n)
  /\ UNCHANGED <<crashed, calls>> /\ leaked' \subseteq Descriptor
  /\ file' \in Seq(Byte)
  /\ s.alone /\ NeedsBytes(s) => Len(file') >= s.size

LEMMA StepByGoes ==
  ASSUME Invariant, NEW j \in Job, NEW from, NEW s, NEW n, ByGoes(j, from, s, n)
  PROVE  Steps(j)
<1>1. calls' \in 0 .. MaxCalls
  BY DEF ByGoes, Invariant, Calls
<1>2. Frame(j) /\ job'[j] = s
  BY <1>1, GoesFrame DEF ByGoes, Invariant
<1>3. Accounts(j)
  BY <1>2, CountedAccounts DEF ByGoes, Invariant
<1>4. Lands(j)
  BY <1>2 DEF ByGoes, Lands, Moves, Invariant, Calls
<1> QED
  BY <1>2, <1>3, <1>4 DEF Steps

LEMMA StepByWrites ==
  ASSUME Invariant, NEW j \in Job, NEW from, NEW s, NEW n, ByWrites(j, from, s, n)
  PROVE  Steps(j)
<1>1. calls' \in 0 .. MaxCalls
  BY DEF ByWrites, Invariant, Calls
<1>2. Frame(j) /\ job'[j] = s /\ file' # None
  BY <1>1, WritesFrame DEF ByWrites, Invariant
<1>3. Accounts(j)
  BY <1>2, CountedAccounts DEF ByWrites, Invariant
<1>4. Lands(j)
  BY <1>2 DEF ByWrites, Lands, Moves
<1> QED
  BY <1>2, <1>3, <1>4 DEF Steps

LEMMA HasDescriptor ==
  ASSUME Invariant, NEW j \in Job
  PROVE  /\ Typed(job[j]) /\ Placed(job[j]) /\ DOMAIN job[j] = Fields
         /\ job[j].at \notin Idle => job[j].fd \in Descriptor /\ file \in Seq(Byte)
         /\ leaked \subseteq Descriptor
         /\ job[j].alone /\ NeedsBytes(job[j]) => Len(file) >= job[j].size
  BY DEF Invariant, Calls, Closed, Typed

LEMMA MakeBufferSteps ==
  ASSUME Invariant, NEW j \in Job, MakeBuffer(j)
  PROVE  Steps(j)
<1> DEFINE r == job[j]
<1>0. /\ Typed(r) /\ Placed(r) /\ DOMAIN r = Fields
      /\ r.at \notin Idle => r.fd \in Descriptor /\ file \in Seq(Byte)
      /\ leaked \subseteq Descriptor
      /\ r.alone /\ NeedsBytes(r) => Len(file) >= r.size
  BY HasDescriptor
<1> USE DEF WriterPlaces, ReaderPlaces, TextPlaces, ImagePlaces
<1>1. CASE /\ Goes(j, "buffer", [r EXCEPT !.at = "append", !.buf = <<>>, !.todo = ToAppend(r.values, r.format)])
           /\ Counts(j, 1) /\ UNCHANGED <<file, open, calls, crashed, leaked>>
  <2> DEFINE s == [r EXCEPT !.at = "append", !.buf = <<>>, !.todo = ToAppend(r.values, r.format)]
  <2>1. /\ Goes(j, "buffer", s) /\ Counted(j, 1) /\ leaked' \subseteq Descriptor
       /\ UNCHANGED <<file, crashed, calls>>
    BY <1>0, <1>1 DEF Counted
  <2>2. r.at = "buffer"
    BY <2>1 DEF Goes
  <2>3. Elsewhere(r, s, {"at", "buf", "todo"}) /\ s.at = "append" /\ s.buf = <<>> /\ s.todo = ToAppend(r.values, r.format)
    BY <1>0 DEF Elsewhere, Fields
  <2> HIDE DEF s
  <2>4. /\ s.op = r.op /\ s.format = r.format /\ s.values = r.values /\ s.fd = r.fd
       /\ s.size = r.size /\ s.mapped = r.mapped /\ s.roaring = r.roaring /\ s.frozenBuffer = r.frozenBuffer /\ s.alone = r.alone
    BY <2>3 DEF Elsewhere, Fields
  <2>5. ToAppend(r.values, r.format) \in Seq(Item)
    BY <1>0, <2>2, ToAppendType DEF Placed
  <2>6. Flags(s)
    BY <1>0, <2>2, <2>3, <2>5 DEF Typed, Flags, Elsewhere, Fields
  <2>7. Typed(s)
    BY <1>0, <2>2, <2>3, <2>5, <2>6, NoneIsApart DEF Typed, Elsewhere, Fields, Places, Made
  <2>8. Placed(s)
    BY <1>0, <2>2, <2>3, <2>4, <2>5, <2>7, NoneIsApart, Constants DEF Placed, Typed, Made
  <2>9. Holding(s) = Holding(r) + 1
    BY <1>0, <2>2, <2>3, <2>4, <2>5, NoneIsApart DEF Holding, Placed, Typed
  <2>10. Moves(r, s, 1)
    BY <2>2, <2>3, <2>4, <2>7, <2>8, <2>9 DEF Moves
  <2>11. s.alone /\ NeedsBytes(s) => Len(file) >= s.size
    BY <1>0, <2>2, <2>3, <2>4, <2>5 DEF NeedsBytes, Typed
  <2>12. s.fd # None => r.fd # None
    BY <1>0, <2>2, <2>3, <2>4 DEF Idle, Typed
  <2>13. ByGoes(j, "buffer", s, 1)
    BY <2>1, <2>10, <2>11, <2>12 DEF ByGoes
  <2> QED
    BY <2>13, StepByGoes
<1>2. CASE /\ Goes(j, "buffer", [r EXCEPT !.at = "close", !.cut = TRUE])
           /\ UNCHANGED <<file, open, memory, calls, crashed, leaked>>
  <2> DEFINE s == [r EXCEPT !.at = "close", !.cut = TRUE]
  <2>1. /\ Goes(j, "buffer", s) /\ Counted(j, 0) /\ leaked' \subseteq Descriptor
       /\ UNCHANGED <<file, crashed, calls>>
    BY <1>0, <1>2 DEF Counted
  <2>2. r.at = "buffer"
    BY <2>1 DEF Goes
  <2>3. Elsewhere(r, s, {"at", "cut"}) /\ s.at = "close" /\ s.cut = TRUE
    BY <1>0 DEF Elsewhere, Fields
  <2> HIDE DEF s
  <2>4. /\ s.op = r.op /\ s.format = r.format /\ s.values = r.values /\ s.fd = r.fd /\ s.size = r.size
       /\ s.buf = r.buf /\ s.mapped = r.mapped /\ s.roaring = r.roaring /\ s.frozenBuffer = r.frozenBuffer /\ s.alone = r.alone
    BY <2>3 DEF Elsewhere, Fields
  <2>5. Flags(s)
    BY <1>0, <2>2, <2>3 DEF Typed, Flags, Elsewhere, Fields
  <2>6. Typed(s)
    BY <1>0, <2>2, <2>3, <2>5, NoneIsApart DEF Typed, Elsewhere, Fields, Places, Made
  <2>7. Placed(s)
    BY <1>0, <2>2, <2>3, <2>4, <2>6, NoneIsApart, Constants DEF Placed, Typed, Made
  <2>8. Holding(s) = Holding(r) + 0
    BY <1>0, <2>2, <2>3, <2>4, NoneIsApart DEF Holding, Placed, Typed
  <2>9. Moves(r, s, 0)
    BY <2>2, <2>3, <2>4, <2>6, <2>7, <2>8 DEF Moves
  <2>10. s.alone /\ NeedsBytes(s) => Len(file) >= s.size
    BY <1>0, <2>2, <2>3, <2>4 DEF NeedsBytes, Typed
  <2>11. s.fd # None => r.fd # None
    BY <1>0, <2>2, <2>3, <2>4 DEF Idle, Typed
  <2>12. ByGoes(j, "buffer", s, 0)
    BY <2>1, <2>9, <2>10, <2>11 DEF ByGoes
  <2> QED
    BY <2>12, StepByGoes
<1> QED
  BY <1>1, <1>2 DEF MakeBuffer

LEMMA TextWrittenSteps ==
  ASSUME Invariant, NEW j \in Job, TextWritten(j)
  PROVE  Steps(j)
<1> DEFINE r == job[j]
<1>0. /\ Typed(r) /\ Placed(r) /\ DOMAIN r = Fields
      /\ r.at \notin Idle => r.fd \in Descriptor /\ file \in Seq(Byte)
      /\ leaked \subseteq Descriptor
      /\ r.alone /\ NeedsBytes(r) => Len(file) >= r.size
  BY HasDescriptor
<1> USE DEF WriterPlaces, ReaderPlaces, TextPlaces, ImagePlaces
<1> DEFINE s == [r EXCEPT !.at = "close", !.buf = None]
<1>1. /\ Goes(j, "append", s) /\ Counted(j, -1) /\ leaked' \subseteq Descriptor
     /\ UNCHANGED <<file, crashed, calls>>
  BY <1>0 DEF TextWritten, Counted
<1>2. r.at = "append"
  BY <1>1 DEF Goes
<1>3. Elsewhere(r, s, {"at", "buf"}) /\ s.at = "close" /\ s.buf = None
  BY <1>0 DEF Elsewhere, Fields
<1> HIDE DEF s
<1>4. /\ s.op = r.op /\ s.format = r.format /\ s.values = r.values /\ s.fd = r.fd
     /\ s.size = r.size /\ s.mapped = r.mapped /\ s.roaring = r.roaring /\ s.frozenBuffer = r.frozenBuffer /\ s.alone = r.alone
  BY <1>3 DEF Elsewhere, Fields
<1>5. Flags(s)
  BY <1>0, <1>2, <1>3 DEF Typed, Flags, Elsewhere, Fields
<1>6. Typed(s)
  BY <1>0, <1>2, <1>3, <1>5, NoneIsApart DEF Typed, Elsewhere, Fields, Places, Made
<1>7. Placed(s)
  BY <1>0, <1>2, <1>3, <1>4, <1>6, NoneIsApart, Constants DEF Placed, Typed, Made
<1>8. Holding(s) = Holding(r) + (-1)
  BY <1>0, <1>2, <1>3, <1>4, NoneIsApart DEF Holding, Placed, Typed
<1>9. Moves(r, s, -1)
  BY <1>2, <1>3, <1>4, <1>6, <1>7, <1>8 DEF Moves
<1>10. s.alone /\ NeedsBytes(s) => Len(file) >= s.size
  BY <1>0, <1>2, <1>3, <1>4 DEF NeedsBytes, Typed
<1>11. s.fd # None => r.fd # None
  BY <1>0, <1>2, <1>3, <1>4 DEF Idle, Typed
<1>12. ByGoes(j, "append", s, -1)
  BY <1>1, <1>9, <1>10, <1>11 DEF ByGoes
<1> QED
  BY <1>12, StepByGoes

LEMMA FlushFailsSteps ==
  ASSUME Invariant, NEW j \in Job, FlushFails(j)
  PROVE  Steps(j)
<1> DEFINE r == job[j]
<1>0. /\ Typed(r) /\ Placed(r) /\ DOMAIN r = Fields
      /\ r.at \notin Idle => r.fd \in Descriptor /\ file \in Seq(Byte)
      /\ leaked \subseteq Descriptor
      /\ r.alone /\ NeedsBytes(r) => Len(file) >= r.size
  BY HasDescriptor
<1> USE DEF WriterPlaces, ReaderPlaces, TextPlaces, ImagePlaces
<1> DEFINE s == [r EXCEPT !.at = "close", !.ok = FALSE, !.buf = None, !.todo = <<>>]
<1>1. /\ Goes(j, "append", s) /\ Counted(j, -1) /\ leaked' \subseteq Descriptor
     /\ UNCHANGED <<file, crashed, calls>>
  BY <1>0 DEF FlushFails, Counted
<1>2. r.at = "append"
  BY <1>1 DEF Goes
<1>3. Elsewhere(r, s, {"at", "ok", "buf", "todo"}) /\ s.at = "close" /\ s.ok = FALSE /\ s.buf = None /\ s.todo = <<>>
  BY <1>0 DEF Elsewhere, Fields
<1> HIDE DEF s
<1>4. /\ s.op = r.op /\ s.format = r.format /\ s.values = r.values /\ s.fd = r.fd
     /\ s.size = r.size /\ s.mapped = r.mapped /\ s.roaring = r.roaring /\ s.frozenBuffer = r.frozenBuffer /\ s.alone = r.alone
  BY <1>3 DEF Elsewhere, Fields
<1>5. <<>> \in Seq(Item)
  OBVIOUS
<1>6. Flags(s)
  BY <1>0, <1>2, <1>3, <1>5 DEF Typed, Flags, Elsewhere, Fields
<1>7. Typed(s)
  BY <1>0, <1>2, <1>3, <1>5, <1>6, NoneIsApart DEF Typed, Elsewhere, Fields, Places, Made
<1>8. Placed(s)
  BY <1>0, <1>2, <1>3, <1>4, <1>5, <1>7, NoneIsApart, Constants DEF Placed, Typed, Made
<1>9. Holding(s) = Holding(r) + (-1)
  BY <1>0, <1>2, <1>3, <1>4, <1>5, NoneIsApart DEF Holding, Placed, Typed
<1>10. Moves(r, s, -1)
  BY <1>2, <1>3, <1>4, <1>7, <1>8, <1>9 DEF Moves
<1>11. s.alone /\ NeedsBytes(s) => Len(file) >= s.size
  BY <1>0, <1>2, <1>3, <1>4, <1>5 DEF NeedsBytes, Typed
<1>12. s.fd # None => r.fd # None
  BY <1>0, <1>2, <1>3, <1>4 DEF Idle, Typed
<1>13. ByGoes(j, "append", s, -1)
  BY <1>1, <1>10, <1>11, <1>12 DEF ByGoes
<1> QED
  BY <1>13, StepByGoes

LEMMA TruncateSteps ==
  ASSUME Invariant, NEW j \in Job, Truncate(j)
  PROVE  Steps(j)
<1> DEFINE r == job[j]
<1>0. /\ Typed(r) /\ Placed(r) /\ DOMAIN r = Fields
      /\ r.at \notin Idle => r.fd \in Descriptor /\ file \in Seq(Byte)
      /\ leaked \subseteq Descriptor
      /\ r.alone /\ NeedsBytes(r) => Len(file) >= r.size
  BY HasDescriptor
<1> USE DEF WriterPlaces, ReaderPlaces, TextPlaces, ImagePlaces
<1>1. CASE r.size = 0
  <2> DEFINE s == [r EXCEPT !.at = "close"]
  <2>1. /\ GoesAndWrites(j, "ftruncate", s) /\ Counted(j, 0) /\ leaked' \subseteq Descriptor
       /\ UNCHANGED <<crashed, calls>>
    BY <1>0, <1>1 DEF Truncate, Counted
  <2>2. r.at = "ftruncate"
    BY <2>1 DEF GoesAndWrites
  <2>3. Elsewhere(r, s, {"at"}) /\ s.at = "close"
    BY <1>0 DEF Elsewhere, Fields
  <2> HIDE DEF s
  <2>4. /\ s.op = r.op /\ s.format = r.format /\ s.values = r.values /\ s.fd = r.fd /\ s.size = r.size
       /\ s.buf = r.buf /\ s.mapped = r.mapped /\ s.roaring = r.roaring /\ s.frozenBuffer = r.frozenBuffer /\ s.alone = r.alone
    BY <2>3 DEF Elsewhere, Fields
  <2>5. file' \in Seq(Byte) /\ Len(file') = r.size
    BY <1>0, <2>2, ResizedType DEF Truncate, Typed, Idle
  <2>6. Flags(s)
    BY <1>0, <2>2, <2>3, <2>5 DEF Typed, Flags, Elsewhere, Fields
  <2>7. Typed(s)
    BY <1>0, <2>2, <2>3, <2>5, <2>6, NoneIsApart DEF Typed, Elsewhere, Fields, Places, Made
  <2>8. Placed(s)
    BY <1>0, <2>2, <2>3, <2>4, <2>5, <2>7, NoneIsApart, Constants DEF Placed, Typed, Made
  <2>9. Holding(s) = Holding(r) + 0
    BY <1>0, <2>2, <2>3, <2>4, <2>5, NoneIsApart DEF Holding, Placed, Typed
  <2>10. Moves(r, s, 0)
    BY <2>2, <2>3, <2>4, <2>7, <2>8, <2>9 DEF Moves
  <2>11. s.alone /\ NeedsBytes(s) => Len(file') >= s.size
    BY <1>0, <2>2, <2>3, <2>4, <2>5 DEF NeedsBytes, Typed
  <2>12. ByWrites(j, "ftruncate", s, 0)
    BY <2>1, <2>5, <2>10, <2>11 DEF ByWrites
  <2> QED
    BY <2>12, StepByWrites
<1>2. CASE r.size # 0
  <2> DEFINE s == [r EXCEPT !.at = "mapToWrite"]
  <2>1. /\ GoesAndWrites(j, "ftruncate", s) /\ Counted(j, 0) /\ leaked' \subseteq Descriptor
       /\ UNCHANGED <<crashed, calls>>
    BY <1>0, <1>2 DEF Truncate, Counted
  <2>2. r.at = "ftruncate"
    BY <2>1 DEF GoesAndWrites
  <2>3. Elsewhere(r, s, {"at"}) /\ s.at = "mapToWrite"
    BY <1>0 DEF Elsewhere, Fields
  <2> HIDE DEF s
  <2>4. /\ s.op = r.op /\ s.format = r.format /\ s.values = r.values /\ s.fd = r.fd /\ s.size = r.size
       /\ s.buf = r.buf /\ s.mapped = r.mapped /\ s.roaring = r.roaring /\ s.frozenBuffer = r.frozenBuffer /\ s.alone = r.alone
    BY <2>3 DEF Elsewhere, Fields
  <2>5. file' \in Seq(Byte) /\ Len(file') = r.size
    BY <1>0, <2>2, ResizedType DEF Truncate, Typed, Idle
  <2>6. Flags(s)
    BY <1>0, <2>2, <2>3, <2>5 DEF Typed, Flags, Elsewhere, Fields
  <2>7. Typed(s)
    BY <1>0, <2>2, <2>3, <2>5, <2>6, NoneIsApart DEF Typed, Elsewhere, Fields, Places, Made
  <2>8. Placed(s)
    BY <1>0, <2>2, <2>3, <2>4, <2>5, <2>7, NoneIsApart, Constants DEF Placed, Typed, Made
  <2>9. Holding(s) = Holding(r) + 0
    BY <1>0, <2>2, <2>3, <2>4, <2>5, NoneIsApart DEF Holding, Placed, Typed
  <2>10. Moves(r, s, 0)
    BY <2>2, <2>3, <2>4, <2>7, <2>8, <2>9 DEF Moves
  <2>11. s.alone /\ NeedsBytes(s) => Len(file') >= s.size
    BY <1>0, <2>2, <2>3, <2>4, <2>5 DEF NeedsBytes, Typed
  <2>12. ByWrites(j, "ftruncate", s, 0)
    BY <2>1, <2>5, <2>10, <2>11 DEF ByWrites
  <2> QED
    BY <2>12, StepByWrites
<1> QED
  BY <1>1, <1>2 

LEMMA TruncateFailsSteps ==
  ASSUME Invariant, NEW j \in Job, TruncateFails(j)
  PROVE  Steps(j)
<1> DEFINE r == job[j]
<1>0. /\ Typed(r) /\ Placed(r) /\ DOMAIN r = Fields
      /\ r.at \notin Idle => r.fd \in Descriptor /\ file \in Seq(Byte)
      /\ leaked \subseteq Descriptor
      /\ r.alone /\ NeedsBytes(r) => Len(file) >= r.size
  BY HasDescriptor
<1> USE DEF WriterPlaces, ReaderPlaces, TextPlaces, ImagePlaces
<1> DEFINE s == [r EXCEPT !.at = "close", !.ok = FALSE]
<1>1. /\ Goes(j, "ftruncate", s) /\ Counted(j, 0) /\ leaked' \subseteq Descriptor
     /\ UNCHANGED <<file, crashed, calls>>
  BY <1>0 DEF TruncateFails, Failed, Counted
<1>2. r.at = "ftruncate"
  BY <1>1 DEF Goes
<1>3. Elsewhere(r, s, {"at", "ok"}) /\ s.at = "close" /\ s.ok = FALSE
  BY <1>0 DEF Elsewhere, Fields
<1> HIDE DEF s
<1>4. /\ s.op = r.op /\ s.format = r.format /\ s.values = r.values /\ s.fd = r.fd /\ s.size = r.size
     /\ s.buf = r.buf /\ s.mapped = r.mapped /\ s.roaring = r.roaring /\ s.frozenBuffer = r.frozenBuffer /\ s.alone = r.alone
  BY <1>3 DEF Elsewhere, Fields
<1>5. Flags(s)
  BY <1>0, <1>2, <1>3 DEF Typed, Flags, Elsewhere, Fields
<1>6. Typed(s)
  BY <1>0, <1>2, <1>3, <1>5, NoneIsApart DEF Typed, Elsewhere, Fields, Places, Made
<1>7. Placed(s)
  BY <1>0, <1>2, <1>3, <1>4, <1>6, NoneIsApart, Constants DEF Placed, Typed, Made
<1>8. Holding(s) = Holding(r) + 0
  BY <1>0, <1>2, <1>3, <1>4, NoneIsApart DEF Holding, Placed, Typed
<1>9. Moves(r, s, 0)
  BY <1>2, <1>3, <1>4, <1>6, <1>7, <1>8 DEF Moves
<1>10. s.alone /\ NeedsBytes(s) => Len(file) >= s.size
  BY <1>0, <1>2, <1>3, <1>4 DEF NeedsBytes, Typed
<1>11. s.fd # None => r.fd # None
  BY <1>0, <1>2, <1>3, <1>4 DEF Idle, Typed
<1>12. ByGoes(j, "ftruncate", s, 0)
  BY <1>1, <1>9, <1>10, <1>11 DEF ByGoes
<1> QED
  BY <1>12, StepByGoes

LEMMA MapToWriteSteps ==
  ASSUME Invariant, NEW j \in Job, MapToWrite(j)
  PROVE  Steps(j)
<1> DEFINE r == job[j]
<1>0. /\ Typed(r) /\ Placed(r) /\ DOMAIN r = Fields
      /\ r.at \notin Idle => r.fd \in Descriptor /\ file \in Seq(Byte)
      /\ leaked \subseteq Descriptor
      /\ r.alone /\ NeedsBytes(r) => Len(file) >= r.size
  BY HasDescriptor
<1> USE DEF WriterPlaces, ReaderPlaces, TextPlaces, ImagePlaces
<1> DEFINE s == [r EXCEPT !.at = "fill", !.mapped = TRUE]
<1>1. /\ Goes(j, "mapToWrite", s) /\ Counted(j, 0) /\ leaked' \subseteq Descriptor
     /\ UNCHANGED <<file, crashed, calls>>
  BY <1>0 DEF MapToWrite, Counted
<1>2. r.at = "mapToWrite"
  BY <1>1 DEF Goes
<1>3. Elsewhere(r, s, {"at", "mapped"}) /\ s.at = "fill" /\ s.mapped = TRUE
  BY <1>0 DEF Elsewhere, Fields
<1> HIDE DEF s
<1>4. /\ s.op = r.op /\ s.format = r.format /\ s.values = r.values /\ s.fd = r.fd
     /\ s.size = r.size /\ s.buf = r.buf /\ s.roaring = r.roaring /\ s.frozenBuffer = r.frozenBuffer /\ s.alone = r.alone
  BY <1>3 DEF Elsewhere, Fields
<1>5. Flags(s)
  BY <1>0, <1>2, <1>3 DEF Typed, Flags, Elsewhere, Fields
<1>6. Typed(s)
  BY <1>0, <1>2, <1>3, <1>5, NoneIsApart DEF Typed, Elsewhere, Fields, Places, Made
<1>7. Placed(s)
  BY <1>0, <1>2, <1>3, <1>4, <1>6, NoneIsApart, Constants DEF Placed, Typed, Made
<1>8. Holding(s) = Holding(r) + 0
  BY <1>0, <1>2, <1>3, <1>4, NoneIsApart DEF Holding, Placed, Typed
<1>9. Moves(r, s, 0)
  BY <1>2, <1>3, <1>4, <1>6, <1>7, <1>8 DEF Moves
<1>10. s.alone /\ NeedsBytes(s) => Len(file) >= s.size
  BY <1>0, <1>2, <1>3, <1>4 DEF NeedsBytes, Typed
<1>11. s.fd # None => r.fd # None
  BY <1>0, <1>2, <1>3, <1>4 DEF Idle, Typed
<1>12. ByGoes(j, "mapToWrite", s, 0)
  BY <1>1, <1>9, <1>10, <1>11 DEF ByGoes
<1> QED
  BY <1>12, StepByGoes

LEMMA MapToReadSteps ==
  ASSUME Invariant, NEW j \in Job, MapToRead(j)
  PROVE  Steps(j)
<1> DEFINE r == job[j]
<1>0. /\ Typed(r) /\ Placed(r) /\ DOMAIN r = Fields
      /\ r.at \notin Idle => r.fd \in Descriptor /\ file \in Seq(Byte)
      /\ leaked \subseteq Descriptor
      /\ r.alone /\ NeedsBytes(r) => Len(file) >= r.size
  BY HasDescriptor
<1> USE DEF WriterPlaces, ReaderPlaces, TextPlaces, ImagePlaces
<1> DEFINE s == [r EXCEPT !.at = "decode", !.mapped = TRUE]
<1>1. /\ Goes(j, "mapToRead", s) /\ Counted(j, 0) /\ leaked' \subseteq Descriptor
     /\ UNCHANGED <<file, crashed, calls>>
  BY <1>0 DEF MapToRead, Counted
<1>2. r.at = "mapToRead"
  BY <1>1 DEF Goes
<1>3. Elsewhere(r, s, {"at", "mapped"}) /\ s.at = "decode" /\ s.mapped = TRUE
  BY <1>0 DEF Elsewhere, Fields
<1> HIDE DEF s
<1>4. /\ s.op = r.op /\ s.format = r.format /\ s.values = r.values /\ s.fd = r.fd
     /\ s.size = r.size /\ s.buf = r.buf /\ s.roaring = r.roaring /\ s.frozenBuffer = r.frozenBuffer /\ s.alone = r.alone
  BY <1>3 DEF Elsewhere, Fields
<1>5. Flags(s)
  BY <1>0, <1>2, <1>3 DEF Typed, Flags, Elsewhere, Fields
<1>6. Typed(s)
  BY <1>0, <1>2, <1>3, <1>5, NoneIsApart DEF Typed, Elsewhere, Fields, Places, Made
<1>7. Placed(s)
  BY <1>0, <1>2, <1>3, <1>4, <1>6, NoneIsApart, Constants DEF Placed, Typed, Made
<1>8. Holding(s) = Holding(r) + 0
  BY <1>0, <1>2, <1>3, <1>4, NoneIsApart DEF Holding, Placed, Typed
<1>9. Moves(r, s, 0)
  BY <1>2, <1>3, <1>4, <1>6, <1>7, <1>8 DEF Moves
<1>10. s.alone /\ NeedsBytes(s) => Len(file) >= s.size
  BY <1>0, <1>2, <1>3, <1>4 DEF NeedsBytes, Typed
<1>11. s.fd # None => r.fd # None
  BY <1>0, <1>2, <1>3, <1>4 DEF Idle, Typed
<1>12. ByGoes(j, "mapToRead", s, 0)
  BY <1>1, <1>9, <1>10, <1>11 DEF ByGoes
<1> QED
  BY <1>12, StepByGoes

LEMMA Idles ==
  /\ "create" \notin Idle /\ "write" \notin Idle /\ "readText" \notin Idle /\ "append" \notin Idle
  /\ "fill" \notin Idle /\ "decode" \notin Idle /\ "readImage" \notin Idle
  BY DEF Idle

LEMMA MapToWriteFailsSteps ==
  ASSUME Invariant, NEW j \in Job, MapToWriteFails(j)
  PROVE  Steps(j)
<1> DEFINE r == job[j]
<1>0. /\ Typed(r) /\ Placed(r) /\ DOMAIN r = Fields
      /\ r.at \notin Idle => r.fd \in Descriptor /\ file \in Seq(Byte)
      /\ leaked \subseteq Descriptor
      /\ r.alone /\ NeedsBytes(r) => Len(file) >= r.size
  BY HasDescriptor
<1> USE DEF WriterPlaces, ReaderPlaces, TextPlaces, ImagePlaces
<1>1. CASE /\ Goes(j, "mapToWrite", [r EXCEPT !.at = "write", !.buf = Image[r.values][r.format]])
           /\ Counts(j, 1) /\ UNCHANGED <<file, open, calls, crashed, leaked>>
  <2> DEFINE s == [r EXCEPT !.at = "write", !.buf = Image[r.values][r.format]]
  <2>1. /\ Goes(j, "mapToWrite", s) /\ Counted(j, 1) /\ leaked' \subseteq Descriptor
       /\ UNCHANGED <<file, crashed, calls>>
    BY <1>0, <1>1 DEF Counted
  <2>2. r.at = "mapToWrite"
    BY <2>1 DEF Goes
  <2>3. Elsewhere(r, s, {"at", "buf"}) /\ s.at = "write" /\ s.buf = Image[r.values][r.format]
    BY <1>0 DEF Elsewhere, Fields
  <2> HIDE DEF s
  <2>4. /\ s.op = r.op /\ s.format = r.format /\ s.values = r.values /\ s.fd = r.fd
       /\ s.size = r.size /\ s.mapped = r.mapped /\ s.roaring = r.roaring /\ s.frozenBuffer = r.frozenBuffer /\ s.alone = r.alone
    BY <2>3 DEF Elsewhere, Fields
  <2>5. Image[r.values][r.format] \in Seq(Byte)
    BY <1>0, <2>2, ImageType DEF Placed
  <2>6. Flags(s)
    BY <1>0, <2>2, <2>3, <2>5 DEF Typed, Flags, Elsewhere, Fields
  <2>7. Typed(s)
    BY <1>0, <2>2, <2>3, <2>5, <2>6, NoneIsApart DEF Typed, Elsewhere, Fields, Places, Made
  <2>8. Placed(s)
    BY <1>0, <2>2, <2>3, <2>4, <2>5, <2>7, NoneIsApart, Constants DEF Placed, Typed, Made
  <2>9. Holding(s) = Holding(r) + 1
    BY <1>0, <2>2, <2>3, <2>4, <2>5, NoneIsApart DEF Holding, Placed, Typed
  <2>10. Moves(r, s, 1)
    BY <2>2, <2>3, <2>4, <2>7, <2>8, <2>9 DEF Moves
  <2>11. s.alone /\ NeedsBytes(s) => Len(file) >= s.size
    BY <1>0, <2>2, <2>3, <2>4, <2>5 DEF NeedsBytes, Typed
  <2>12. s.fd # None => r.fd # None
    BY <1>0, <2>2, <2>3, <2>4 DEF Idle, Typed
  <2>13. ByGoes(j, "mapToWrite", s, 1)
    BY <2>1, <2>10, <2>11, <2>12 DEF ByGoes
  <2> QED
    BY <2>13, StepByGoes
<1>2. CASE /\ Goes(j, "mapToWrite", [r EXCEPT !.at = "close", !.ok = FALSE])
           /\ UNCHANGED <<file, open, memory, calls, crashed, leaked>>
  <2> DEFINE s == [r EXCEPT !.at = "close", !.ok = FALSE]
  <2>1. /\ Goes(j, "mapToWrite", s) /\ Counted(j, 0) /\ leaked' \subseteq Descriptor
       /\ UNCHANGED <<file, crashed, calls>>
    BY <1>0, <1>2 DEF Counted
  <2>2. r.at = "mapToWrite"
    BY <2>1 DEF Goes
  <2>3. Elsewhere(r, s, {"at", "ok"}) /\ s.at = "close" /\ s.ok = FALSE
    BY <1>0 DEF Elsewhere, Fields
  <2> HIDE DEF s
  <2>4. /\ s.op = r.op /\ s.format = r.format /\ s.values = r.values /\ s.fd = r.fd /\ s.size = r.size
       /\ s.buf = r.buf /\ s.mapped = r.mapped /\ s.roaring = r.roaring /\ s.frozenBuffer = r.frozenBuffer /\ s.alone = r.alone
    BY <2>3 DEF Elsewhere, Fields
  <2>5. Flags(s)
    BY <1>0, <2>2, <2>3 DEF Typed, Flags, Elsewhere, Fields
  <2>6. Typed(s)
    BY <1>0, <2>2, <2>3, <2>5, NoneIsApart DEF Typed, Elsewhere, Fields, Places, Made
  <2>7. Placed(s)
    BY <1>0, <2>2, <2>3, <2>4, <2>6, NoneIsApart, Constants DEF Placed, Typed, Made
  <2>8. Holding(s) = Holding(r) + 0
    BY <1>0, <2>2, <2>3, <2>4, NoneIsApart DEF Holding, Placed, Typed
  <2>9. Moves(r, s, 0)
    BY <2>2, <2>3, <2>4, <2>6, <2>7, <2>8 DEF Moves
  <2>10. s.alone /\ NeedsBytes(s) => Len(file) >= s.size
    BY <1>0, <2>2, <2>3, <2>4 DEF NeedsBytes, Typed
  <2>11. s.fd # None => r.fd # None
    BY <1>0, <2>2, <2>3, <2>4 DEF Idle, Typed
  <2>12. ByGoes(j, "mapToWrite", s, 0)
    BY <2>1, <2>9, <2>10, <2>11 DEF ByGoes
  <2> QED
    BY <2>12, StepByGoes
<1> QED
  BY <1>1, <1>2 DEF MapToWriteFails, Failed

LEMMA MapToReadFailsSteps ==
  ASSUME Invariant, NEW j \in Job, MapToReadFails(j)
  PROVE  Steps(j)
<1> DEFINE r == job[j]
<1>0. /\ Typed(r) /\ Placed(r) /\ DOMAIN r = Fields
      /\ r.at \notin Idle => r.fd \in Descriptor /\ file \in Seq(Byte)
      /\ leaked \subseteq Descriptor
      /\ r.alone /\ NeedsBytes(r) => Len(file) >= r.size
  BY HasDescriptor
<1> USE DEF WriterPlaces, ReaderPlaces, TextPlaces, ImagePlaces
<1>1. CASE /\ Goes(j, "mapToRead", [r EXCEPT !.at = "readImage", !.buf = <<>>])
           /\ Counts(j, 1) /\ UNCHANGED <<file, open, calls, crashed, leaked>>
  <2> DEFINE s == [r EXCEPT !.at = "readImage", !.buf = <<>>]
  <2>1. /\ Goes(j, "mapToRead", s) /\ Counted(j, 1) /\ leaked' \subseteq Descriptor
       /\ UNCHANGED <<file, crashed, calls>>
    BY <1>0, <1>1 DEF Counted
  <2>2. r.at = "mapToRead"
    BY <2>1 DEF Goes
  <2>3. Elsewhere(r, s, {"at", "buf"}) /\ s.at = "readImage" /\ s.buf = <<>>
    BY <1>0 DEF Elsewhere, Fields
  <2> HIDE DEF s
  <2>4. /\ s.op = r.op /\ s.format = r.format /\ s.values = r.values /\ s.fd = r.fd
       /\ s.size = r.size /\ s.mapped = r.mapped /\ s.roaring = r.roaring /\ s.frozenBuffer = r.frozenBuffer /\ s.alone = r.alone
    BY <2>3 DEF Elsewhere, Fields
  <2>5. Flags(s)
    BY <1>0, <2>2, <2>3 DEF Typed, Flags, Elsewhere, Fields
  <2>6. Typed(s)
    BY <1>0, <2>2, <2>3, <2>5, NoneIsApart DEF Typed, Elsewhere, Fields, Places, Made
  <2>7. Placed(s)
    BY <1>0, <2>2, <2>3, <2>4, <2>6, NoneIsApart, Constants DEF Placed, Typed, Made
  <2>8. Holding(s) = Holding(r) + 1
    BY <1>0, <2>2, <2>3, <2>4, NoneIsApart DEF Holding, Placed, Typed
  <2>9. Moves(r, s, 1)
    BY <2>2, <2>3, <2>4, <2>6, <2>7, <2>8 DEF Moves
  <2>10. s.alone /\ NeedsBytes(s) => Len(file) >= s.size
    BY <1>0, <2>2, <2>3, <2>4 DEF NeedsBytes, Typed
  <2>11. s.fd # None => r.fd # None
    BY <1>0, <2>2, <2>3, <2>4 DEF Idle, Typed
  <2>12. ByGoes(j, "mapToRead", s, 1)
    BY <2>1, <2>9, <2>10, <2>11 DEF ByGoes
  <2> QED
    BY <2>12, StepByGoes
<1>2. CASE /\ Goes(j, "mapToRead", [r EXCEPT !.at = "close", !.ok = FALSE])
           /\ UNCHANGED <<file, open, memory, calls, crashed, leaked>>
  <2> DEFINE s == [r EXCEPT !.at = "close", !.ok = FALSE]
  <2>1. /\ Goes(j, "mapToRead", s) /\ Counted(j, 0) /\ leaked' \subseteq Descriptor
       /\ UNCHANGED <<file, crashed, calls>>
    BY <1>0, <1>2 DEF Counted
  <2>2. r.at = "mapToRead"
    BY <2>1 DEF Goes
  <2>3. Elsewhere(r, s, {"at", "ok"}) /\ s.at = "close" /\ s.ok = FALSE
    BY <1>0 DEF Elsewhere, Fields
  <2> HIDE DEF s
  <2>4. /\ s.op = r.op /\ s.format = r.format /\ s.values = r.values /\ s.fd = r.fd /\ s.size = r.size
       /\ s.buf = r.buf /\ s.mapped = r.mapped /\ s.roaring = r.roaring /\ s.frozenBuffer = r.frozenBuffer /\ s.alone = r.alone
    BY <2>3 DEF Elsewhere, Fields
  <2>5. Flags(s)
    BY <1>0, <2>2, <2>3 DEF Typed, Flags, Elsewhere, Fields
  <2>6. Typed(s)
    BY <1>0, <2>2, <2>3, <2>5, NoneIsApart DEF Typed, Elsewhere, Fields, Places, Made
  <2>7. Placed(s)
    BY <1>0, <2>2, <2>3, <2>4, <2>6, NoneIsApart, Constants DEF Placed, Typed, Made
  <2>8. Holding(s) = Holding(r) + 0
    BY <1>0, <2>2, <2>3, <2>4, NoneIsApart DEF Holding, Placed, Typed
  <2>9. Moves(r, s, 0)
    BY <2>2, <2>3, <2>4, <2>6, <2>7, <2>8 DEF Moves
  <2>10. s.alone /\ NeedsBytes(s) => Len(file) >= s.size
    BY <1>0, <2>2, <2>3, <2>4 DEF NeedsBytes, Typed
  <2>11. s.fd # None => r.fd # None
    BY <1>0, <2>2, <2>3, <2>4 DEF Idle, Typed
  <2>12. ByGoes(j, "mapToRead", s, 0)
    BY <2>1, <2>9, <2>10, <2>11 DEF ByGoes
  <2> QED
    BY <2>12, StepByGoes
<1> QED
  BY <1>1, <1>2 DEF MapToReadFails, Failed

LEMMA WriteImageFailsSteps ==
  ASSUME Invariant, NEW j \in Job, WriteImageFails(j)
  PROVE  Steps(j)
<1> DEFINE r == job[j]
<1>0. /\ Typed(r) /\ Placed(r) /\ DOMAIN r = Fields
      /\ r.at \notin Idle => r.fd \in Descriptor /\ file \in Seq(Byte)
      /\ leaked \subseteq Descriptor
      /\ r.alone /\ NeedsBytes(r) => Len(file) >= r.size
  BY HasDescriptor
<1> USE DEF WriterPlaces, ReaderPlaces, TextPlaces, ImagePlaces
<1> DEFINE s == [r EXCEPT !.at = "close", !.buf = None, !.ok = FALSE]
<1>1. /\ Goes(j, "write", s) /\ Counted(j, -1) /\ leaked' \subseteq Descriptor
     /\ UNCHANGED <<file, crashed, calls>>
  BY <1>0 DEF WriteImageFails, Counted
<1>2. r.at = "write"
  BY <1>1 DEF Goes
<1>3. Elsewhere(r, s, {"at", "buf", "ok"}) /\ s.at = "close" /\ s.buf = None /\ s.ok = FALSE
  BY <1>0 DEF Elsewhere, Fields
<1> HIDE DEF s
<1>4. /\ s.op = r.op /\ s.format = r.format /\ s.values = r.values /\ s.fd = r.fd
     /\ s.size = r.size /\ s.mapped = r.mapped /\ s.roaring = r.roaring /\ s.frozenBuffer = r.frozenBuffer /\ s.alone = r.alone
  BY <1>3 DEF Elsewhere, Fields
<1>5. Flags(s)
  BY <1>0, <1>2, <1>3 DEF Typed, Flags, Elsewhere, Fields
<1>6. Typed(s)
  BY <1>0, <1>2, <1>3, <1>5, NoneIsApart DEF Typed, Elsewhere, Fields, Places, Made
<1>7. Placed(s)
  BY <1>0, <1>2, <1>3, <1>4, <1>6, NoneIsApart, Constants DEF Placed, Typed, Made
<1>8. Holding(s) = Holding(r) + (-1)
  BY <1>0, <1>2, <1>3, <1>4, NoneIsApart DEF Holding, Placed, Typed
<1>9. Moves(r, s, -1)
  BY <1>2, <1>3, <1>4, <1>6, <1>7, <1>8 DEF Moves
<1>10. s.alone /\ NeedsBytes(s) => Len(file) >= s.size
  BY <1>0, <1>2, <1>3, <1>4 DEF NeedsBytes, Typed
<1>11. s.fd # None => r.fd # None
  BY <1>0, <1>2, <1>3, <1>4 DEF Idle, Typed
<1>12. ByGoes(j, "write", s, -1)
  BY <1>1, <1>9, <1>10, <1>11 DEF ByGoes
<1> QED
  BY <1>12, StepByGoes

LEMMA ReadTextFailsSteps ==
  ASSUME Invariant, NEW j \in Job, ReadTextFails(j)
  PROVE  Steps(j)
<1> DEFINE r == job[j]
<1>0. /\ Typed(r) /\ Placed(r) /\ DOMAIN r = Fields
      /\ r.at \notin Idle => r.fd \in Descriptor /\ file \in Seq(Byte)
      /\ leaked \subseteq Descriptor
      /\ r.alone /\ NeedsBytes(r) => Len(file) >= r.size
  BY HasDescriptor
<1> USE DEF WriterPlaces, ReaderPlaces, TextPlaces, ImagePlaces
<1> DEFINE s == [r EXCEPT !.at = "close", !.ok = FALSE, !.buf = None]
<1>1. /\ Goes(j, "readText", s) /\ Counted(j, -1) /\ leaked' \subseteq Descriptor
     /\ UNCHANGED <<file, crashed, calls>>
  BY <1>0 DEF ReadTextFails, Counted
<1>2. r.at = "readText"
  BY <1>1 DEF Goes
<1>3. Elsewhere(r, s, {"at", "ok", "buf"}) /\ s.at = "close" /\ s.ok = FALSE /\ s.buf = None
  BY <1>0 DEF Elsewhere, Fields
<1> HIDE DEF s
<1>4. /\ s.op = r.op /\ s.format = r.format /\ s.values = r.values /\ s.fd = r.fd
     /\ s.size = r.size /\ s.mapped = r.mapped /\ s.roaring = r.roaring /\ s.frozenBuffer = r.frozenBuffer /\ s.alone = r.alone
  BY <1>3 DEF Elsewhere, Fields
<1>5. Flags(s)
  BY <1>0, <1>2, <1>3 DEF Typed, Flags, Elsewhere, Fields
<1>6. Typed(s)
  BY <1>0, <1>2, <1>3, <1>5, NoneIsApart DEF Typed, Elsewhere, Fields, Places, Made
<1>7. Placed(s)
  BY <1>0, <1>2, <1>3, <1>4, <1>6, NoneIsApart, Constants DEF Placed, Typed, Made
<1>8. Holding(s) = Holding(r) + (-1)
  BY <1>0, <1>2, <1>3, <1>4, NoneIsApart DEF Holding, Placed, Typed
<1>9. Moves(r, s, -1)
  BY <1>2, <1>3, <1>4, <1>6, <1>7, <1>8 DEF Moves
<1>10. s.alone /\ NeedsBytes(s) => Len(file) >= s.size
  BY <1>0, <1>2, <1>3, <1>4 DEF NeedsBytes, Typed
<1>11. s.fd # None => r.fd # None
  BY <1>0, <1>2, <1>3, <1>4 DEF Idle, Typed
<1>12. ByGoes(j, "readText", s, -1)
  BY <1>1, <1>9, <1>10, <1>11 DEF ByGoes
<1> QED
  BY <1>12, StepByGoes

LEMMA ReadImageFailsSteps ==
  ASSUME Invariant, NEW j \in Job, ReadImageFails(j)
  PROVE  Steps(j)
<1> DEFINE r == job[j]
<1>0. /\ Typed(r) /\ Placed(r) /\ DOMAIN r = Fields
      /\ r.at \notin Idle => r.fd \in Descriptor /\ file \in Seq(Byte)
      /\ leaked \subseteq Descriptor
      /\ r.alone /\ NeedsBytes(r) => Len(file) >= r.size
  BY HasDescriptor
<1> USE DEF WriterPlaces, ReaderPlaces, TextPlaces, ImagePlaces
<1> DEFINE s == [r EXCEPT !.at = "close", !.ok = FALSE, !.buf = None]
<1>1. /\ Goes(j, "readImage", s) /\ Counted(j, -1) /\ leaked' \subseteq Descriptor
     /\ UNCHANGED <<file, crashed, calls>>
  BY <1>0 DEF ReadImageFails, Counted
<1>2. r.at = "readImage"
  BY <1>1 DEF Goes
<1>3. Elsewhere(r, s, {"at", "ok", "buf"}) /\ s.at = "close" /\ s.ok = FALSE /\ s.buf = None
  BY <1>0 DEF Elsewhere, Fields
<1> HIDE DEF s
<1>4. /\ s.op = r.op /\ s.format = r.format /\ s.values = r.values /\ s.fd = r.fd
     /\ s.size = r.size /\ s.mapped = r.mapped /\ s.roaring = r.roaring /\ s.frozenBuffer = r.frozenBuffer /\ s.alone = r.alone
  BY <1>3 DEF Elsewhere, Fields
<1>5. Flags(s)
  BY <1>0, <1>2, <1>3 DEF Typed, Flags, Elsewhere, Fields
<1>6. Typed(s)
  BY <1>0, <1>2, <1>3, <1>5, NoneIsApart DEF Typed, Elsewhere, Fields, Places, Made
<1>7. Placed(s)
  BY <1>0, <1>2, <1>3, <1>4, <1>6, NoneIsApart, Constants DEF Placed, Typed, Made
<1>8. Holding(s) = Holding(r) + (-1)
  BY <1>0, <1>2, <1>3, <1>4, NoneIsApart DEF Holding, Placed, Typed
<1>9. Moves(r, s, -1)
  BY <1>2, <1>3, <1>4, <1>6, <1>7, <1>8 DEF Moves
<1>10. s.alone /\ NeedsBytes(s) => Len(file) >= s.size
  BY <1>0, <1>2, <1>3, <1>4 DEF NeedsBytes, Typed
<1>11. s.fd # None => r.fd # None
  BY <1>0, <1>2, <1>3, <1>4 DEF Idle, Typed
<1>12. ByGoes(j, "readImage", s, -1)
  BY <1>1, <1>9, <1>10, <1>11 DEF ByGoes
<1> QED
  BY <1>12, StepByGoes

LEMMA CloseSteps ==
  ASSUME Invariant, NEW j \in Job, Close(j)
  PROVE  Steps(j)
<1> DEFINE r == job[j]
<1>0. /\ Typed(r) /\ Placed(r) /\ DOMAIN r = Fields
      /\ r.at \notin Idle => r.fd \in Descriptor /\ file \in Seq(Byte)
      /\ leaked \subseteq Descriptor
      /\ r.alone /\ NeedsBytes(r) => Len(file) >= r.size
  BY HasDescriptor
<1> USE DEF WriterPlaces, ReaderPlaces, TextPlaces, ImagePlaces
<1> DEFINE s == [r EXCEPT !.at = "workDone", !.fd = None]
<1>1. /\ Goes(j, "close", s) /\ Counted(j, 0) /\ leaked' \subseteq Descriptor
     /\ UNCHANGED <<file, crashed, calls>>
  BY <1>0 DEF Close, Counted
<1>2. r.at = "close"
  BY <1>1 DEF Goes
<1>3. Elsewhere(r, s, {"at", "fd"}) /\ s.at = "workDone" /\ s.fd = None
  BY <1>0 DEF Elsewhere, Fields
<1> HIDE DEF s
<1>4. /\ s.op = r.op /\ s.format = r.format /\ s.values = r.values /\ s.size = r.size
     /\ s.buf = r.buf /\ s.mapped = r.mapped /\ s.roaring = r.roaring /\ s.frozenBuffer = r.frozenBuffer /\ s.alone = r.alone
  BY <1>3 DEF Elsewhere, Fields
<1>5. Flags(s)
  BY <1>0, <1>2, <1>3 DEF Typed, Flags, Elsewhere, Fields
<1>6. Typed(s)
  BY <1>0, <1>2, <1>3, <1>5, NoneIsApart DEF Typed, Elsewhere, Fields, Places, Made
<1>7. Placed(s)
  BY <1>0, <1>2, <1>3, <1>4, <1>6, NoneIsApart, Constants DEF Placed, Typed, Made
<1>8. Holding(s) = Holding(r) + 0
  BY <1>0, <1>2, <1>3, <1>4, NoneIsApart DEF Holding, Placed, Typed
<1>9. Moves(r, s, 0)
  BY <1>2, <1>3, <1>4, <1>6, <1>7, <1>8 DEF Moves
<1>10. s.alone /\ NeedsBytes(s) => Len(file) >= s.size
  BY <1>0, <1>2, <1>3, <1>4 DEF NeedsBytes, Typed
<1>11. s.fd # None => r.fd # None
  BY <1>0, <1>2, <1>3, <1>4 DEF Idle, Typed
<1>12. ByGoes(j, "close", s, 0)
  BY <1>1, <1>9, <1>10, <1>11 DEF ByGoes
<1> QED
  BY <1>12, StepByGoes

LEMMA OpenFailsSteps ==
  ASSUME Invariant, NEW j \in Job, OpenFails(j)
  PROVE  Steps(j)
<1> DEFINE r == job[j]
<1>0. /\ Typed(r) /\ Placed(r) /\ DOMAIN r = Fields
      /\ r.at \notin Idle => r.fd \in Descriptor /\ file \in Seq(Byte)
      /\ leaked \subseteq Descriptor
      /\ r.alone /\ NeedsBytes(r) => Len(file) >= r.size
  BY HasDescriptor
<1> USE DEF WriterPlaces, ReaderPlaces, TextPlaces, ImagePlaces
<1> DEFINE s == [r EXCEPT !.at = "workDone", !.ok = FALSE]
<1>1. /\ Goes(j, "open", s) /\ Counted(j, 0) /\ leaked' \subseteq Descriptor
     /\ UNCHANGED <<file, crashed, calls>>
  BY <1>0 DEF OpenFails, Counted
<1>2. r.at = "open"
  BY <1>1 DEF Goes
<1>3. Elsewhere(r, s, {"at", "ok"}) /\ s.at = "workDone" /\ s.ok = FALSE
  BY <1>0 DEF Elsewhere, Fields
<1> HIDE DEF s
<1>4. /\ s.op = r.op /\ s.format = r.format /\ s.values = r.values /\ s.fd = r.fd /\ s.size = r.size
     /\ s.buf = r.buf /\ s.mapped = r.mapped /\ s.roaring = r.roaring /\ s.frozenBuffer = r.frozenBuffer /\ s.alone = r.alone
  BY <1>3 DEF Elsewhere, Fields
<1>5. Flags(s)
  BY <1>0, <1>2, <1>3 DEF Typed, Flags, Elsewhere, Fields
<1>6. Typed(s)
  BY <1>0, <1>2, <1>3, <1>5, NoneIsApart DEF Typed, Elsewhere, Fields, Places, Made
<1>7. Placed(s)
  BY <1>0, <1>2, <1>3, <1>4, <1>6, NoneIsApart, Constants DEF Placed, Typed, Made
<1>8. Holding(s) = Holding(r) + 0
  BY <1>0, <1>2, <1>3, <1>4, NoneIsApart DEF Holding, Placed, Typed
<1>9. Moves(r, s, 0)
  BY <1>2, <1>3, <1>4, <1>6, <1>7, <1>8 DEF Moves
<1>10. s.alone /\ NeedsBytes(s) => Len(file) >= s.size
  BY <1>0, <1>2, <1>3, <1>4 DEF NeedsBytes, Typed
<1>11. s.fd # None => r.fd # None
  BY <1>0, <1>2, <1>3, <1>4 DEF Idle, Typed
<1>12. ByGoes(j, "open", s, 0)
  BY <1>1, <1>9, <1>10, <1>11 DEF ByGoes
<1> QED
  BY <1>12, StepByGoes

LEMMA StatSteps ==
  ASSUME Invariant, NEW j \in Job, Stat(j)
  PROVE  Steps(j)
<1> DEFINE r == job[j]
<1>0. /\ Typed(r) /\ Placed(r) /\ DOMAIN r = Fields
      /\ r.at \notin Idle => r.fd \in Descriptor /\ file \in Seq(Byte)
      /\ leaked \subseteq Descriptor
      /\ r.alone /\ NeedsBytes(r) => Len(file) >= r.size
  BY HasDescriptor
<1> USE DEF WriterPlaces, ReaderPlaces, TextPlaces, ImagePlaces
<1>1. CASE /\ Goes(j, "fstat", [r EXCEPT !.at = "mapToRead", !.size = Len(file)])
           /\ UNCHANGED <<file, open, memory, calls, crashed, leaked>>
  <2> DEFINE s == [r EXCEPT !.at = "mapToRead", !.size = Len(file)]
  <2>1. /\ Goes(j, "fstat", s) /\ Counted(j, 0) /\ leaked' \subseteq Descriptor
       /\ UNCHANGED <<file, crashed, calls>>
    BY <1>0, <1>1 DEF Counted
  <2>2. r.at = "fstat"
    BY <2>1 DEF Goes
  <2>3. Elsewhere(r, s, {"at", "size"}) /\ s.at = "mapToRead" /\ s.size = Len(file)
    BY <1>0 DEF Elsewhere, Fields
  <2> HIDE DEF s
  <2>4. /\ s.op = r.op /\ s.format = r.format /\ s.values = r.values /\ s.fd = r.fd
       /\ s.buf = r.buf /\ s.mapped = r.mapped /\ s.roaring = r.roaring /\ s.frozenBuffer = r.frozenBuffer /\ s.alone = r.alone
    BY <2>3 DEF Elsewhere, Fields
  <2>5. Len(file) \in Nat
    BY <1>0, <2>2 DEF Idle
  <2>6. Flags(s)
    BY <1>0, <2>2, <2>3, <2>5 DEF Typed, Flags, Elsewhere, Fields
  <2>7. Typed(s)
    BY <1>0, <2>2, <2>3, <2>5, <2>6, NoneIsApart DEF Typed, Elsewhere, Fields, Places, Made
  <2>8. Placed(s)
    BY <1>0, <2>2, <2>3, <2>4, <2>5, <2>7, NoneIsApart, Constants DEF Placed, Typed, Made
  <2>9. Holding(s) = Holding(r) + 0
    BY <1>0, <2>2, <2>3, <2>4, <2>5, NoneIsApart DEF Holding, Placed, Typed
  <2>10. Moves(r, s, 0)
    BY <2>2, <2>3, <2>4, <2>7, <2>8, <2>9 DEF Moves
  <2>11. s.alone /\ NeedsBytes(s) => Len(file) >= s.size
    BY <1>0, <2>2, <2>3, <2>4, <2>5 DEF NeedsBytes, Typed
  <2>12. s.fd # None => r.fd # None
    BY <1>0, <2>2, <2>3, <2>4 DEF Idle, Typed
  <2>13. ByGoes(j, "fstat", s, 0)
    BY <2>1, <2>10, <2>11, <2>12 DEF ByGoes
  <2> QED
    BY <2>13, StepByGoes
<1>2. CASE /\ Goes(j, "fstat", [r EXCEPT !.at = "close", !.roaring = Bitmap({}, "memory")])
           /\ Counts(j, 1) /\ UNCHANGED <<file, open, calls, crashed, leaked>>
  <2> DEFINE s == [r EXCEPT !.at = "close", !.roaring = Bitmap({}, "memory")]
  <2>1. /\ Goes(j, "fstat", s) /\ Counted(j, 1) /\ leaked' \subseteq Descriptor
       /\ UNCHANGED <<file, crashed, calls>>
    BY <1>0, <1>2 DEF Counted
  <2>2. r.at = "fstat"
    BY <2>1 DEF Goes
  <2>3. Elsewhere(r, s, {"at", "roaring"}) /\ s.at = "close" /\ s.roaring = Bitmap({}, "memory")
    BY <1>0 DEF Elsewhere, Fields
  <2> HIDE DEF s
  <2>4. /\ s.op = r.op /\ s.format = r.format /\ s.values = r.values /\ s.fd = r.fd
       /\ s.size = r.size /\ s.buf = r.buf /\ s.mapped = r.mapped /\ s.frozenBuffer = r.frozenBuffer /\ s.alone = r.alone
    BY <2>3 DEF Elsewhere, Fields
  <2>5. Bitmap({}, "memory") \in Made
    BY DEF Bitmap, Made
  <2>6. Bitmap({}, "memory").in = "memory"
    BY DEF Bitmap
  <2>7. Flags(s)
    BY <1>0, <2>2, <2>3, <2>5, <2>6 DEF Typed, Flags, Elsewhere, Fields
  <2>8. Typed(s)
    BY <1>0, <2>2, <2>3, <2>5, <2>6, <2>7, NoneIsApart DEF Typed, Elsewhere, Fields, Places, Made
  <2>9. Placed(s)
    BY <1>0, <2>2, <2>3, <2>4, <2>5, <2>6, <2>8, NoneIsApart, Constants DEF Placed, Typed, Made
  <2>10. Holding(s) = Holding(r) + 1
    BY <1>0, <2>2, <2>3, <2>4, <2>5, <2>6, NoneIsApart DEF Holding, Placed, Typed
  <2>11. Moves(r, s, 1)
    BY <2>2, <2>3, <2>4, <2>8, <2>9, <2>10 DEF Moves
  <2>12. s.alone /\ NeedsBytes(s) => Len(file) >= s.size
    BY <1>0, <2>2, <2>3, <2>4, <2>5, <2>6 DEF NeedsBytes, Typed
  <2>13. s.fd # None => r.fd # None
    BY <1>0, <2>2, <2>3, <2>4 DEF Idle, Typed
  <2>14. ByGoes(j, "fstat", s, 1)
    BY <2>1, <2>11, <2>12, <2>13 DEF ByGoes
  <2> QED
    BY <2>14, StepByGoes
<1>3. CASE /\ Goes(j, "fstat", [r EXCEPT !.at = "close", !.ok = FALSE])
           /\ UNCHANGED <<file, open, memory, calls, crashed, leaked>>
  <2> DEFINE s == [r EXCEPT !.at = "close", !.ok = FALSE]
  <2>1. /\ Goes(j, "fstat", s) /\ Counted(j, 0) /\ leaked' \subseteq Descriptor
       /\ UNCHANGED <<file, crashed, calls>>
    BY <1>0, <1>3 DEF Counted
  <2>2. r.at = "fstat"
    BY <2>1 DEF Goes
  <2>3. Elsewhere(r, s, {"at", "ok"}) /\ s.at = "close" /\ s.ok = FALSE
    BY <1>0 DEF Elsewhere, Fields
  <2> HIDE DEF s
  <2>4. /\ s.op = r.op /\ s.format = r.format /\ s.values = r.values /\ s.fd = r.fd /\ s.size = r.size
       /\ s.buf = r.buf /\ s.mapped = r.mapped /\ s.roaring = r.roaring /\ s.frozenBuffer = r.frozenBuffer /\ s.alone = r.alone
    BY <2>3 DEF Elsewhere, Fields
  <2>5. Flags(s)
    BY <1>0, <2>2, <2>3 DEF Typed, Flags, Elsewhere, Fields
  <2>6. Typed(s)
    BY <1>0, <2>2, <2>3, <2>5, NoneIsApart DEF Typed, Elsewhere, Fields, Places, Made
  <2>7. Placed(s)
    BY <1>0, <2>2, <2>3, <2>4, <2>6, NoneIsApart, Constants DEF Placed, Typed, Made
  <2>8. Holding(s) = Holding(r) + 0
    BY <1>0, <2>2, <2>3, <2>4, NoneIsApart DEF Holding, Placed, Typed
  <2>9. Moves(r, s, 0)
    BY <2>2, <2>3, <2>4, <2>6, <2>7, <2>8 DEF Moves
  <2>10. s.alone /\ NeedsBytes(s) => Len(file) >= s.size
    BY <1>0, <2>2, <2>3, <2>4 DEF NeedsBytes, Typed
  <2>11. s.fd # None => r.fd # None
    BY <1>0, <2>2, <2>3, <2>4 DEF Idle, Typed
  <2>12. ByGoes(j, "fstat", s, 0)
    BY <2>1, <2>9, <2>10, <2>11 DEF ByGoes
  <2> QED
    BY <2>12, StepByGoes
<1> QED
  BY <1>1, <1>2, <1>3 DEF Stat, Failed

LEMMA CreateForTextSteps ==
  ASSUME Invariant, NEW j \in Job, CreateForText(j)
  PROVE  Steps(j)
<1> DEFINE r == job[j]
<1>0. /\ Typed(r) /\ Placed(r) /\ DOMAIN r = Fields
      /\ r.at \notin Idle => r.fd \in Descriptor /\ file \in Seq(Byte)
      /\ leaked \subseteq Descriptor
      /\ r.alone /\ NeedsBytes(r) => Len(file) >= r.size
  BY HasDescriptor
<1> USE DEF WriterPlaces, ReaderPlaces, TextPlaces, ImagePlaces
<1>1. CASE /\ Goes(j, "create", [r EXCEPT !.at = "readText", !.roaring = Bitmap({}, "memory"), !.buf = <<>>])
           /\ Counts(j, 2) /\ UNCHANGED <<file, open, calls, crashed, leaked>>
  <2> DEFINE s == [r EXCEPT !.at = "readText", !.roaring = Bitmap({}, "memory"), !.buf = <<>>]
  <2>1. /\ Goes(j, "create", s) /\ Counted(j, 2) /\ leaked' \subseteq Descriptor
       /\ UNCHANGED <<file, crashed, calls>>
    BY <1>0, <1>1 DEF Counted
  <2>2. r.at = "create"
    BY <2>1 DEF Goes
  <2>3. Elsewhere(r, s, {"at", "roaring", "buf"}) /\ s.at = "readText" /\ s.roaring = Bitmap({}, "memory") /\ s.buf = <<>>
    BY <1>0 DEF Elsewhere, Fields
  <2> HIDE DEF s
  <2>4. /\ s.op = r.op /\ s.format = r.format /\ s.values = r.values /\ s.fd = r.fd
       /\ s.size = r.size /\ s.mapped = r.mapped /\ s.frozenBuffer = r.frozenBuffer /\ s.alone = r.alone
    BY <2>3 DEF Elsewhere, Fields
  <2>5. Bitmap({}, "memory") \in Made
    BY DEF Bitmap, Made
  <2>6. Bitmap({}, "memory").in = "memory"
    BY DEF Bitmap
  <2>7. Flags(s)
    BY <1>0, <2>2, <2>3, <2>5, <2>6 DEF Typed, Flags, Elsewhere, Fields
  <2>8. Typed(s)
    BY <1>0, <2>2, <2>3, <2>5, <2>6, <2>7, NoneIsApart DEF Typed, Elsewhere, Fields, Places, Made
  <2>9. Placed(s)
    BY <1>0, <2>2, <2>3, <2>4, <2>5, <2>6, <2>8, NoneIsApart, Constants DEF Placed, Typed, Made
  <2>10. Holding(s) = Holding(r) + 2
    BY <1>0, <2>2, <2>3, <2>4, <2>5, <2>6, NoneIsApart DEF Holding, Placed, Typed
  <2>11. Moves(r, s, 2)
    BY <2>2, <2>3, <2>4, <2>8, <2>9, <2>10 DEF Moves
  <2>12. s.alone /\ NeedsBytes(s) => Len(file) >= s.size
    BY <1>0, <2>2, <2>3, <2>4, <2>5, <2>6 DEF NeedsBytes, Typed
  <2>13. s.fd # None => r.fd # None
    BY <1>0, <2>2, <2>3, <2>4 DEF Idle, Typed
  <2>14. ByGoes(j, "create", s, 2)
    BY <2>1, <2>11, <2>12, <2>13 DEF ByGoes
  <2> QED
    BY <2>14, StepByGoes
<1>2. CASE /\ Goes(j, "create", [r EXCEPT !.at = "close", !.ok = FALSE, !.roaring = Bitmap({}, "memory")])
           /\ Counts(j, 1) /\ UNCHANGED <<file, open, calls, crashed, leaked>>
  <2> DEFINE s == [r EXCEPT !.at = "close", !.ok = FALSE, !.roaring = Bitmap({}, "memory")]
  <2>1. /\ Goes(j, "create", s) /\ Counted(j, 1) /\ leaked' \subseteq Descriptor
       /\ UNCHANGED <<file, crashed, calls>>
    BY <1>0, <1>2 DEF Counted
  <2>2. r.at = "create"
    BY <2>1 DEF Goes
  <2>3. Elsewhere(r, s, {"at", "ok", "roaring"}) /\ s.at = "close" /\ s.ok = FALSE /\ s.roaring = Bitmap({}, "memory")
    BY <1>0 DEF Elsewhere, Fields
  <2> HIDE DEF s
  <2>4. /\ s.op = r.op /\ s.format = r.format /\ s.values = r.values /\ s.fd = r.fd
       /\ s.size = r.size /\ s.buf = r.buf /\ s.mapped = r.mapped /\ s.frozenBuffer = r.frozenBuffer /\ s.alone = r.alone
    BY <2>3 DEF Elsewhere, Fields
  <2>5. Bitmap({}, "memory") \in Made
    BY DEF Bitmap, Made
  <2>6. Bitmap({}, "memory").in = "memory"
    BY DEF Bitmap
  <2>7. Flags(s)
    BY <1>0, <2>2, <2>3, <2>5, <2>6 DEF Typed, Flags, Elsewhere, Fields
  <2>8. Typed(s)
    BY <1>0, <2>2, <2>3, <2>5, <2>6, <2>7, NoneIsApart DEF Typed, Elsewhere, Fields, Places, Made
  <2>9. Placed(s)
    BY <1>0, <2>2, <2>3, <2>4, <2>5, <2>6, <2>8, NoneIsApart, Constants DEF Placed, Typed, Made
  <2>10. Holding(s) = Holding(r) + 1
    BY <1>0, <2>2, <2>3, <2>4, <2>5, <2>6, NoneIsApart DEF Holding, Placed, Typed
  <2>11. Moves(r, s, 1)
    BY <2>2, <2>3, <2>4, <2>8, <2>9, <2>10 DEF Moves
  <2>12. s.alone /\ NeedsBytes(s) => Len(file) >= s.size
    BY <1>0, <2>2, <2>3, <2>4, <2>5, <2>6 DEF NeedsBytes, Typed
  <2>13. s.fd # None => r.fd # None
    BY <1>0, <2>2, <2>3, <2>4 DEF Idle, Typed
  <2>14. ByGoes(j, "create", s, 1)
    BY <2>1, <2>11, <2>12, <2>13 DEF ByGoes
  <2> QED
    BY <2>14, StepByGoes
<1>3. CASE /\ Goes(j, "create", [r EXCEPT !.at = "workDone", !.fd = None, !.ok = FALSE])
           /\ leaked' = leaked \cup {r.fd} /\ UNCHANGED <<file, open, memory, calls, crashed>>
  <2> DEFINE s == [r EXCEPT !.at = "workDone", !.fd = None, !.ok = FALSE]
  <2>1. /\ Goes(j, "create", s) /\ Counted(j, 0) /\ leaked' \subseteq Descriptor
       /\ UNCHANGED <<file, crashed, calls>>
    BY <1>0, <1>3, Idles DEF Counted, Goes
  <2>2. r.at = "create"
    BY <2>1 DEF Goes
  <2>3. Elsewhere(r, s, {"at", "fd", "ok"}) /\ s.at = "workDone" /\ s.fd = None /\ s.ok = FALSE
    BY <1>0 DEF Elsewhere, Fields
  <2> HIDE DEF s
  <2>4. /\ s.op = r.op /\ s.format = r.format /\ s.values = r.values /\ s.size = r.size
       /\ s.buf = r.buf /\ s.mapped = r.mapped /\ s.roaring = r.roaring /\ s.frozenBuffer = r.frozenBuffer /\ s.alone = r.alone
    BY <2>3 DEF Elsewhere, Fields
  <2>5. Flags(s)
    BY <1>0, <2>2, <2>3 DEF Typed, Flags, Elsewhere, Fields
  <2>6. Typed(s)
    BY <1>0, <2>2, <2>3, <2>5, NoneIsApart DEF Typed, Elsewhere, Fields, Places, Made
  <2>7. Placed(s)
    BY <1>0, <2>2, <2>3, <2>4, <2>6, NoneIsApart, Constants DEF Placed, Typed, Made
  <2>8. Holding(s) = Holding(r) + 0
    BY <1>0, <2>2, <2>3, <2>4, NoneIsApart DEF Holding, Placed, Typed
  <2>9. Moves(r, s, 0)
    BY <2>2, <2>3, <2>4, <2>6, <2>7, <2>8 DEF Moves
  <2>10. s.alone /\ NeedsBytes(s) => Len(file) >= s.size
    BY <1>0, <2>2, <2>3, <2>4 DEF NeedsBytes, Typed
  <2>11. s.fd # None => r.fd # None
    BY <1>0, <2>2, <2>3, <2>4 DEF Idle, Typed
  <2>12. ByGoes(j, "create", s, 0)
    BY <2>1, <2>9, <2>10, <2>11 DEF ByGoes
  <2> QED
    BY <2>12, StepByGoes
<1> QED
  BY <1>1, <1>2, <1>3 DEF CreateForText

LEMMA AppendItemSteps ==
  ASSUME Invariant, NEW j \in Job, AppendItem(j)
  PROVE  Steps(j)
<1> DEFINE r == job[j]
<1>0. /\ Typed(r) /\ Placed(r) /\ DOMAIN r = Fields
      /\ r.at \notin Idle => r.fd \in Descriptor /\ file \in Seq(Byte)
      /\ leaked \subseteq Descriptor
      /\ r.alone /\ NeedsBytes(r) => Len(file) >= r.size
  BY HasDescriptor
<1> USE DEF WriterPlaces, ReaderPlaces, TextPlaces, ImagePlaces
<1> DEFINE item == Head(r.todo)
<1>a. r.todo # <<>> /\ r.at = "append" /\ ~NeedsFlush(j, item)
  BY DEF AppendItem
<1>b. /\ Goes(j, "append", [r EXCEPT !.buf = r.buf \o Characters(j, item), !.todo = Tail(r.todo),
                                    !.separate = (r.separate \/ item.kind = "value")])
      /\ UNCHANGED <<file, open, memory, calls, crashed, leaked>>
  BY DEF AppendItem
<1>c. item \in Item /\ Tail(r.todo) \in Seq(Item)
  <2>1. r.todo \in Seq(Item)
    BY <1>0 DEF Typed
  <2> QED
    BY <1>a, <2>1
<1>d. r.format \in TextFormat /\ r.buf \in Seq(Byte)
  BY <1>0, <1>a DEF Placed, Typed
<1>e. Characters(j, item) \in Seq(Byte) /\ Len(Characters(j, item)) <= Room(item) /\ Room(item) \in Nat
  BY <1>c, <1>d, CharactersFit
<1>f. r.buf \o Characters(j, item) \in Seq(Byte) /\ Len(r.buf \o Characters(j, item)) = Len(r.buf) + Len(Characters(j, item))
  BY <1>d, <1>e
<1>g. Len(r.buf) + Room(item) < BUFFER_SIZE
  <2>1. Len(r.buf) \in Nat
    BY <1>d
  <2> QED
    BY <1>a, <1>e, <2>1, Constants DEF NeedsFlush
<1>h. Len(r.buf \o Characters(j, item)) <= BUFFER_SIZE
  <2>1. Len(r.buf) \in Nat /\ Len(Characters(j, item)) \in Nat
    BY <1>d, <1>e
  <2>2. \A a, b, c \in Nat : b <= c /\ a + c < BUFFER_SIZE => a + b <= BUFFER_SIZE
    BY Constants
  <2>3. Len(r.buf) + Len(Characters(j, item)) <= BUFFER_SIZE
    BY <1>e, <1>g, <2>1, <2>2
  <2> QED
    BY <1>f, <2>3
<1> HIDE DEF item
<1> DEFINE s == [r EXCEPT !.buf = r.buf \o Characters(j, item), !.todo = Tail(r.todo), !.separate = (r.separate \/ item.kind = "value")]
<1>1. /\ Goes(j, "append", s) /\ Counted(j, 0) /\ leaked' \subseteq Descriptor
     /\ UNCHANGED <<file, crashed, calls>>
  BY <1>0, <1>b DEF Counted
<1>2. r.at = "append"
  BY <1>1 DEF Goes
<1>3. Elsewhere(r, s, {"buf", "todo", "separate"}) /\ s.buf = r.buf \o Characters(j, item) /\ s.todo = Tail(r.todo) /\ s.separate = (r.separate \/ item.kind = "value")
  BY <1>0 DEF Elsewhere, Fields
<1> HIDE DEF s
<1>4. /\ s.at = r.at /\ s.op = r.op /\ s.format = r.format /\ s.values = r.values /\ s.fd = r.fd
     /\ s.size = r.size /\ s.mapped = r.mapped /\ s.roaring = r.roaring /\ s.frozenBuffer = r.frozenBuffer /\ s.alone = r.alone
  BY <1>3 DEF Elsewhere, Fields
<1>5. s.buf \in Seq(Byte) /\ s.buf # None /\ Len(s.buf) <= BUFFER_SIZE
  BY <1>3, <1>f, <1>h, NoneIsApart
<1>6. s.todo \in Seq(Item)
  BY <1>3, <1>c
<1>7. s.separate \in BOOLEAN
  BY <1>3
<1>8. r.buf # None
  BY <1>d, NoneIsApart
<1>9. Flags(s)
  BY <1>0, <1>2, <1>3, <1>5, <1>6, <1>7, <1>8 DEF Typed, Flags, Elsewhere, Fields
<1>10. Typed(s)
  BY <1>0, <1>2, <1>3, <1>5, <1>6, <1>7, <1>8, <1>9, NoneIsApart DEF Typed, Elsewhere, Fields, Places, Made
<1>11. Placed(s)
  BY <1>0, <1>2, <1>3, <1>4, <1>5, <1>6, <1>7, <1>8, <1>10, NoneIsApart, Constants DEF Placed, Typed, Made
<1>12. Holding(s) = Holding(r) + 0
  BY <1>0, <1>2, <1>3, <1>4, <1>5, <1>6, <1>7, <1>8, NoneIsApart DEF Holding, Placed, Typed
<1>13. Moves(r, s, 0)
  BY <1>2, <1>3, <1>4, <1>10, <1>11, <1>12 DEF Moves
<1>14. s.alone /\ NeedsBytes(s) => Len(file) >= s.size
  BY <1>0, <1>2, <1>3, <1>4, <1>5, <1>6, <1>7, <1>8 DEF NeedsBytes, Typed
<1>15. s.fd # None => r.fd # None
  BY <1>0, <1>2, <1>3, <1>4 DEF Idle, Typed
<1>16. ByGoes(j, "append", s, 0)
  BY <1>1, <1>13, <1>14, <1>15 DEF ByGoes
<1> QED
  BY <1>16, StepByGoes

LEMMA TextEndsSteps ==
  ASSUME Invariant, NEW j \in Job, TextEnds(j)
  PROVE  Steps(j)
<1> DEFINE r == job[j]
<1>0. /\ Typed(r) /\ Placed(r) /\ DOMAIN r = Fields
      /\ r.at \notin Idle => r.fd \in Descriptor /\ file \in Seq(Byte)
      /\ leaked \subseteq Descriptor
      /\ r.alone /\ NeedsBytes(r) => Len(file) >= r.size
  BY HasDescriptor
<1> USE DEF WriterPlaces, ReaderPlaces, TextPlaces, ImagePlaces
<1> DEFINE s == [r EXCEPT !.at = "close", !.buf = None, !.roaring = Bitmap(Taken(r.parse), "memory")]
<1>1. /\ Goes(j, "readText", s) /\ Counted(j, -1) /\ leaked' \subseteq Descriptor
     /\ UNCHANGED <<file, crashed, calls>>
  BY <1>0 DEF TextEnds, Counted
<1>2. r.at = "readText"
  BY <1>1 DEF Goes
<1>3. Elsewhere(r, s, {"at", "buf", "roaring"}) /\ s.at = "close" /\ s.buf = None /\ s.roaring = Bitmap(Taken(r.parse), "memory")
  BY <1>0 DEF Elsewhere, Fields
<1> HIDE DEF s
<1>4. /\ s.op = r.op /\ s.format = r.format /\ s.values = r.values /\ s.fd = r.fd
     /\ s.size = r.size /\ s.mapped = r.mapped /\ s.frozenBuffer = r.frozenBuffer /\ s.alone = r.alone
  BY <1>3 DEF Elsewhere, Fields
<1>5. Bitmap(Taken(r.parse), "memory") \in Made
  BY <1>0, TakenIsNumbers DEF Typed, Bitmap, Made
<1>6. Bitmap(Taken(r.parse), "memory").in = "memory"
  BY DEF Bitmap
<1>7. r.roaring # None
  BY <1>0, <1>2 DEF Placed
<1>8. Flags(s)
  BY <1>0, <1>2, <1>3, <1>5, <1>6, <1>7 DEF Typed, Flags, Elsewhere, Fields
<1>9. Typed(s)
  BY <1>0, <1>2, <1>3, <1>5, <1>6, <1>7, <1>8, NoneIsApart DEF Typed, Elsewhere, Fields, Places, Made
<1>10. Placed(s)
  BY <1>0, <1>2, <1>3, <1>4, <1>5, <1>6, <1>7, <1>9, NoneIsApart, Constants DEF Placed, Typed, Made
<1>11. Holding(s) = Holding(r) + (-1)
  BY <1>0, <1>2, <1>3, <1>4, <1>5, <1>6, <1>7, NoneIsApart DEF Holding, Placed, Typed
<1>12. Moves(r, s, -1)
  BY <1>2, <1>3, <1>4, <1>9, <1>10, <1>11 DEF Moves
<1>13. s.alone /\ NeedsBytes(s) => Len(file) >= s.size
  BY <1>0, <1>2, <1>3, <1>4, <1>5, <1>6, <1>7 DEF NeedsBytes, Typed
<1>14. s.fd # None => r.fd # None
  BY <1>0, <1>2, <1>3, <1>4 DEF Idle, Typed
<1>15. ByGoes(j, "readText", s, -1)
  BY <1>1, <1>12, <1>13, <1>14 DEF ByGoes
<1> QED
  BY <1>15, StepByGoes

LEMMA ReadImageSteps ==
  ASSUME Invariant, NEW j \in Job, ReadImage(j)
  PROVE  Steps(j)
<1> DEFINE r == job[j]
<1>0. /\ Typed(r) /\ Placed(r) /\ DOMAIN r = Fields
      /\ r.at \notin Idle => r.fd \in Descriptor /\ file \in Seq(Byte)
      /\ leaked \subseteq Descriptor
      /\ r.alone /\ NeedsBytes(r) => Len(file) >= r.size
  BY HasDescriptor
<1> USE DEF WriterPlaces, ReaderPlaces, TextPlaces, ImagePlaces
<1> DEFINE s == [r EXCEPT !.at = "decode", !.buf = SubSeq(file, 1, r.size)]
<1>1. /\ Goes(j, "readImage", s) /\ Counted(j, 0) /\ leaked' \subseteq Descriptor
     /\ UNCHANGED <<file, crashed, calls>>
  BY <1>0 DEF ReadImage, Counted
<1>2. r.at = "readImage"
  BY <1>1 DEF Goes
<1>3. Elsewhere(r, s, {"at", "buf"}) /\ s.at = "decode" /\ s.buf = SubSeq(file, 1, r.size)
  BY <1>0 DEF Elsewhere, Fields
<1> HIDE DEF s
<1>4. /\ s.op = r.op /\ s.format = r.format /\ s.values = r.values /\ s.fd = r.fd
     /\ s.size = r.size /\ s.mapped = r.mapped /\ s.roaring = r.roaring /\ s.frozenBuffer = r.frozenBuffer /\ s.alone = r.alone
  BY <1>3 DEF Elsewhere, Fields
<1>5. SubSeq(file, 1, r.size) \in Seq(Byte)
  <2>1. Len(file) >= r.size
    BY DEF ReadImage
  <2>2. file \in Seq(Byte) /\ r.size \in Nat
    BY <1>0, <1>2, Idles DEF Typed
  <2>3. \A i \in 1 .. r.size : file[i] \in Byte
    BY <2>1, <2>2
  <2> QED
    BY <2>1, <2>2, <2>3
<1>6. s.buf # None /\ r.buf # None
  BY <1>0, <1>2, <1>3, <1>5, NoneIsApart DEF Placed
<1>7. Flags(s)
  BY <1>0, <1>2, <1>3, <1>5, <1>6 DEF Typed, Flags, Elsewhere, Fields
<1>8. Typed(s)
  BY <1>0, <1>2, <1>3, <1>5, <1>6, <1>7, NoneIsApart DEF Typed, Elsewhere, Fields, Places, Made
<1>9. Placed(s)
  BY <1>0, <1>2, <1>3, <1>4, <1>5, <1>6, <1>8, NoneIsApart, Constants DEF Placed, Typed, Made
<1>10. Holding(s) = Holding(r) + 0
  BY <1>0, <1>2, <1>3, <1>4, <1>5, <1>6, NoneIsApart DEF Holding, Placed, Typed
<1>11. Moves(r, s, 0)
  BY <1>2, <1>3, <1>4, <1>8, <1>9, <1>10 DEF Moves
<1>12. s.alone /\ NeedsBytes(s) => Len(file) >= s.size
  BY <1>0, <1>2, <1>3, <1>4, <1>5, <1>6 DEF NeedsBytes, Typed
<1>13. s.fd # None => r.fd # None
  BY <1>0, <1>2, <1>3, <1>4 DEF Idle, Typed
<1>14. ByGoes(j, "readImage", s, 0)
  BY <1>1, <1>11, <1>12, <1>13 DEF ByGoes
<1> QED
  BY <1>14, StepByGoes

Reads(j, n, parsed) ==
  /\ n \in 1 .. Min({BUFFER_SIZE, Rest(j)})
  /\ Goes(j, "readText", [job[j] EXCEPT !.pos = job[j].pos + n, !.parse = parsed,
                                          !.roaring = Bitmap(parsed.found, "memory")])
LEMMA ReadTextReads ==
  ASSUME NEW j, ReadText(j)
  PROVE  \E n : Reads(j, n, Parse(job[j].parse, SubSeq(file, job[j].pos + 1, job[j].pos + n)))
  BY Zenon DEF ReadText, Reads

LEMMA ReadTextSteps ==
  ASSUME Invariant, NEW j \in Job, ReadText(j)
  PROVE  Steps(j)
<1> DEFINE r == job[j]
<1>0. /\ Typed(r) /\ Placed(r) /\ DOMAIN r = Fields
      /\ r.at \notin Idle => r.fd \in Descriptor /\ file \in Seq(Byte)
      /\ leaked \subseteq Descriptor
      /\ r.alone /\ NeedsBytes(r) => Len(file) >= r.size
  BY HasDescriptor
<1> USE DEF WriterPlaces, ReaderPlaces, TextPlaces, ImagePlaces
<1>a. PICK n : Reads(j, n, Parse(job[j].parse, SubSeq(file, job[j].pos + 1, job[j].pos + n)))
  BY ReadTextReads
<1> DEFINE parsed == Parse(r.parse, SubSeq(file, r.pos + 1, r.pos + n))
<1>b. /\ Goes(j, "readText", [r EXCEPT !.pos = r.pos + n, !.parse = parsed,
                                       !.roaring = Bitmap(parsed.found, "memory")])
      /\ UNCHANGED <<file, open, memory, calls, crashed, leaked>>
  BY <1>a DEF ReadText, Reads
<1>c. r.at = "readText" /\ file \in Seq(Byte) /\ r.pos \in Nat /\ r.parse \in Parsing
  BY <1>0, Idles DEF ReadText, Typed
<1>d. n \in Nat /\ n >= 1 /\ r.pos + n <= Len(file)
  <2>1. Len(file) \in Nat
    BY <1>c
  <2>2. Rest(j) = IF Len(file) - r.pos >= 0 THEN Len(file) - r.pos ELSE 0
    <3>1. Len(file) - r.pos \in Int /\ 0 \in Int
      BY <1>c, <2>1
    <3>2. Rest(j) = Max({Len(file) - r.pos, 0})
      BY DEF Rest
    <3> QED
      BY <3>1, <3>2, MaxOfTwo
  <2>3. Min({BUFFER_SIZE, Rest(j)}) = IF BUFFER_SIZE <= Rest(j) THEN BUFFER_SIZE ELSE Rest(j)
    BY <1>c, <2>1, <2>2, Constants, MinOfTwo
  <2> DEFINE m == Min({BUFFER_SIZE, Rest(j)})
  <2>4. n \in 1 .. m
    BY <1>a DEF Reads
  <2>5. m \in Int /\ m <= Rest(j) /\ Rest(j) \in Int
    BY <1>c, <2>1, <2>2, <2>3, Constants
  <2> HIDE DEF m
  <2>6. n \in Nat /\ n >= 1 /\ n <= Rest(j)
    BY <2>4, <2>5
  <2> QED
    BY <1>c, <2>1, <2>2, <2>6
<1>e. SubSeq(file, r.pos + 1, r.pos + n) \in Seq(Byte)
  <2>1. \A i \in r.pos + 1 .. r.pos + n : i \in 1 .. Len(file)
    <3> DEFINE pos == r.pos
               len == Len(file)
    <3>1. pos \in Nat /\ len \in Nat /\ n \in Nat /\ pos + n <= len
      BY <1>c, <1>d
    <3> HIDE DEF pos, len
    <3>2. \A i \in pos + 1 .. pos + n : i \in 1 .. len
      BY <3>1
    <3> QED
      BY <3>2 DEF pos, len
  <2>2. \A i \in 1 .. Len(file) : file[i] \in Byte
    BY <1>c
  <2>3. \A i \in r.pos + 1 .. r.pos + n : file[i] \in Byte
    BY <2>1, <2>2
  <2> QED
    BY <1>c, <1>d, <2>3
<1>f. parsed \in Parsing
  BY <1>c, <1>e, ParseType
<1> HIDE DEF parsed
<1>g. Bitmap(parsed.found, "memory") \in Made /\ Bitmap(parsed.found, "memory").in = "memory"
  BY <1>f DEF Bitmap, Made, Parsing
<1> DEFINE s == [r EXCEPT !.pos = r.pos + n, !.parse = parsed, !.roaring = Bitmap(parsed.found, "memory")]
<1>1. /\ Goes(j, "readText", s) /\ Counted(j, 0) /\ leaked' \subseteq Descriptor
     /\ UNCHANGED <<file, crashed, calls>>
  BY <1>0, <1>b DEF Counted
<1>2. r.at = "readText"
  BY <1>1 DEF Goes
<1>3. Elsewhere(r, s, {"pos", "parse", "roaring"}) /\ s.pos = r.pos + n /\ s.parse = parsed /\ s.roaring = Bitmap(parsed.found, "memory")
  BY <1>0 DEF Elsewhere, Fields
<1> HIDE DEF s
<1>4. /\ s.at = r.at /\ s.op = r.op /\ s.format = r.format /\ s.values = r.values /\ s.fd = r.fd
     /\ s.size = r.size /\ s.buf = r.buf /\ s.mapped = r.mapped /\ s.frozenBuffer = r.frozenBuffer /\ s.alone = r.alone
  BY <1>3 DEF Elsewhere, Fields
<1>5. r.roaring # None /\ s.roaring \in Made /\ s.roaring.in = "memory" /\ s.parse \in Parsing /\ s.pos \in Nat
  BY <1>0, <1>2, <1>3, <1>c, <1>d, <1>f, <1>g DEF Placed
<1>6. Flags(s)
  BY <1>0, <1>2, <1>3, <1>5 DEF Typed, Flags, Elsewhere, Fields
<1>7. Typed(s)
  BY <1>0, <1>2, <1>3, <1>5, <1>6, NoneIsApart DEF Typed, Elsewhere, Fields, Places, Made
<1>8. Placed(s)
  BY <1>0, <1>2, <1>3, <1>4, <1>5, <1>7, NoneIsApart, Constants DEF Placed, Typed, Made
<1>9. Holding(s) = Holding(r) + 0
  BY <1>0, <1>2, <1>3, <1>4, <1>5, NoneIsApart DEF Holding, Placed, Typed
<1>10. Moves(r, s, 0)
  BY <1>2, <1>3, <1>4, <1>7, <1>8, <1>9 DEF Moves
<1>11. s.alone /\ NeedsBytes(s) => Len(file) >= s.size
  BY <1>0, <1>2, <1>3, <1>4, <1>5 DEF NeedsBytes, Typed
<1>12. s.fd # None => r.fd # None
  BY <1>0, <1>2, <1>3, <1>4 DEF Idle, Typed
<1>13. ByGoes(j, "readText", s, 0)
  BY <1>1, <1>10, <1>11, <1>12 DEF ByGoes
<1> QED
  BY <1>13, StepByGoes

LEMMA PrefixType ==
  ASSUME NEW bytes \in Seq(Byte), NEW n \in Nat, n <= Len(bytes)
  PROVE  SubSeq(bytes, 1, n) \in Seq(Byte) /\ Len(SubSeq(bytes, 1, n)) = n
<1>1. \A i \in 1 .. n : bytes[i] \in Byte
  OBVIOUS
<1> QED
  BY <1>1

LEMMA TakesPrefix ==
  ASSUME NEW bytes \in Seq(Byte), NEW n \in Takes(bytes)
  PROVE  n \in Nat /\ n <= Len(bytes) /\ SubSeq(bytes, 1, n) \in Seq(Byte)
<1>1. n \in Nat /\ n <= Len(bytes)
  BY DEF Takes
<1> QED
  BY <1>1, PrefixType

Flushes(j, n) ==
  /\ n \in Takes(job[j].buf)
  /\ GoesAndWrites(j, "append", [job[j] EXCEPT !.buf = <<>>, !.pos = job[j].pos + n,
                                             !.cut = (job[j].cut \/ n < Len(job[j].buf))])
  /\ file' = WrittenAt(file, job[j].pos, SubSeq(job[j].buf, 1, n))
  /\ UNCHANGED <<open, memory, calls, crashed, leaked>>
LEMMA FlushFlushes == ASSUME NEW j, Flush(j) PROVE \E n : Flushes(j, n)
  BY Zenon DEF Flush, Flushes

WritesImage(j, n) ==
  /\ n \in Takes(job[j].buf)
  /\ GoesAndWrites(j, "write", [job[j] EXCEPT !.at = "workDone", !.buf = None, !.fd = None,
                                            !.cut = (n < Len(job[j].buf))])
  /\ file' = WrittenAt(file, 0, SubSeq(job[j].buf, 1, n))
  /\ leaked' = leaked \cup {job[j].fd}
  /\ Counts(j, -1) /\ UNCHANGED <<open, calls, crashed>>
LEMMA WriteImageWrites == ASSUME NEW j, WriteImage(j) PROVE \E n : WritesImage(j, n)
  BY Zenon DEF WriteImage, WritesImage

LEMMA FlushSteps ==
  ASSUME Invariant, NEW j \in Job, Flush(j)
  PROVE  Steps(j)
<1> DEFINE r == job[j]
<1>0. /\ Typed(r) /\ Placed(r) /\ DOMAIN r = Fields
      /\ r.at \notin Idle => r.fd \in Descriptor /\ file \in Seq(Byte)
      /\ leaked \subseteq Descriptor
      /\ r.alone /\ NeedsBytes(r) => Len(file) >= r.size
  BY HasDescriptor
<1> USE DEF WriterPlaces, ReaderPlaces, TextPlaces, ImagePlaces
<1>a. r.at = "append" /\ r.buf \in Seq(Byte) /\ r.buf # None /\ file \in Seq(Byte) /\ r.pos \in Nat
  BY <1>0, Idles, NoneIsApart DEF Flush, MustFlush, Placed, Typed
<1>p. PICK n : Flushes(j, n)
  BY FlushFlushes
<1>b. /\ n \in Takes(r.buf)
      /\ GoesAndWrites(j, "append", [r EXCEPT !.buf = <<>>, !.pos = r.pos + n, !.cut = (r.cut \/ n < Len(r.buf))])
      /\ file' = WrittenAt(file, r.pos, SubSeq(r.buf, 1, n))
      /\ UNCHANGED <<open, memory, calls, crashed, leaked>>
  BY <1>p DEF Flushes
<1>c. n \in Nat /\ SubSeq(r.buf, 1, n) \in Seq(Byte)
  BY <1>a, <1>b, TakesPrefix
<1>d. file' \in Seq(Byte)
  BY <1>a, <1>b, <1>c, WrittenAtType
<1> DEFINE s == [r EXCEPT !.buf = <<>>, !.pos = r.pos + n, !.cut = (r.cut \/ n < Len(r.buf))]
<1>1. /\ GoesAndWrites(j, "append", s) /\ Counted(j, 0) /\ leaked' \subseteq Descriptor
     /\ UNCHANGED <<crashed, calls>>
  BY <1>0, <1>b DEF Counted
<1>2. r.at = "append"
  BY <1>1 DEF GoesAndWrites
<1>3. Elsewhere(r, s, {"buf", "pos", "cut"}) /\ s.buf = <<>> /\ s.pos = r.pos + n /\ s.cut = (r.cut \/ n < Len(r.buf))
  BY <1>0 DEF Elsewhere, Fields
<1> HIDE DEF s
<1>4. /\ s.at = r.at /\ s.op = r.op /\ s.format = r.format /\ s.values = r.values /\ s.fd = r.fd
     /\ s.size = r.size /\ s.mapped = r.mapped /\ s.roaring = r.roaring /\ s.frozenBuffer = r.frozenBuffer /\ s.alone = r.alone
  BY <1>3 DEF Elsewhere, Fields
<1>5. file' \in Seq(Byte)
  BY <1>d
<1>6. s.buf # None /\ r.buf # None /\ Len(s.buf) <= BUFFER_SIZE /\ s.pos \in Nat /\ s.cut \in BOOLEAN
  BY <1>3, <1>a, <1>c, NoneIsApart, Constants
<1>7. Flags(s)
  BY <1>0, <1>2, <1>3, <1>5, <1>6 DEF Typed, Flags, Elsewhere, Fields
<1>8. Typed(s)
  BY <1>0, <1>2, <1>3, <1>5, <1>6, <1>7, NoneIsApart DEF Typed, Elsewhere, Fields, Places, Made
<1>9. Placed(s)
  BY <1>0, <1>2, <1>3, <1>4, <1>5, <1>6, <1>8, NoneIsApart, Constants DEF Placed, Typed, Made
<1>10. Holding(s) = Holding(r) + 0
  BY <1>0, <1>2, <1>3, <1>4, <1>5, <1>6, NoneIsApart DEF Holding, Placed, Typed
<1>11. Moves(r, s, 0)
  BY <1>2, <1>3, <1>4, <1>8, <1>9, <1>10 DEF Moves
<1>12. s.alone /\ NeedsBytes(s) => Len(file') >= s.size
  BY <1>0, <1>2, <1>3, <1>4, <1>5, <1>6 DEF NeedsBytes, Typed
<1>13. ByWrites(j, "append", s, 0)
  BY <1>1, <1>5, <1>6, <1>11, <1>12 DEF ByWrites
<1> QED
  BY <1>13, StepByWrites

LEMMA FillSteps ==
  ASSUME Invariant, NEW j \in Job, Fill(j)
  PROVE  Steps(j)
<1> DEFINE r == job[j]
<1>0. /\ Typed(r) /\ Placed(r) /\ DOMAIN r = Fields
      /\ r.at \notin Idle => r.fd \in Descriptor /\ file \in Seq(Byte)
      /\ leaked \subseteq Descriptor
      /\ r.alone /\ NeedsBytes(r) => Len(file) >= r.size
  BY HasDescriptor
<1> USE DEF WriterPlaces, ReaderPlaces, TextPlaces, ImagePlaces
<1> DEFINE s == [r EXCEPT !.at = "close", !.mapped = FALSE]
<1>1. /\ GoesAndWrites(j, "fill", s) /\ Counted(j, 0) /\ leaked' \subseteq Descriptor
     /\ UNCHANGED <<crashed, calls>>
  BY <1>0 DEF Fill, Counted
<1>2. r.at = "fill"
  BY <1>1 DEF GoesAndWrites
<1>3. Elsewhere(r, s, {"at", "mapped"}) /\ s.at = "close" /\ s.mapped = FALSE
  BY <1>0 DEF Elsewhere, Fields
<1> HIDE DEF s
<1>4. /\ s.op = r.op /\ s.format = r.format /\ s.values = r.values /\ s.fd = r.fd
     /\ s.size = r.size /\ s.buf = r.buf /\ s.roaring = r.roaring /\ s.frozenBuffer = r.frozenBuffer /\ s.alone = r.alone
  BY <1>3 DEF Elsewhere, Fields
<1>5. file' \in Seq(Byte)
  <2>1. file \in Seq(Byte) /\ Image[r.values][r.format] \in Seq(Byte)
    BY <1>0, <1>2, Idles, ImageType DEF Placed
  <2>2. file' = WrittenAt(file, 0, Image[r.values][r.format])
    BY DEF Fill
  <2> QED
    BY <2>1, <2>2, WrittenAtType
<1>6. Flags(s)
  BY <1>0, <1>2, <1>3, <1>5 DEF Typed, Flags, Elsewhere, Fields
<1>7. Typed(s)
  BY <1>0, <1>2, <1>3, <1>5, <1>6, NoneIsApart DEF Typed, Elsewhere, Fields, Places, Made
<1>8. Placed(s)
  BY <1>0, <1>2, <1>3, <1>4, <1>5, <1>7, NoneIsApart, Constants DEF Placed, Typed, Made
<1>9. Holding(s) = Holding(r) + 0
  BY <1>0, <1>2, <1>3, <1>4, <1>5, NoneIsApart DEF Holding, Placed, Typed
<1>10. Moves(r, s, 0)
  BY <1>2, <1>3, <1>4, <1>7, <1>8, <1>9 DEF Moves
<1>11. s.alone /\ NeedsBytes(s) => Len(file') >= s.size
  BY <1>0, <1>2, <1>3, <1>4, <1>5 DEF NeedsBytes, Typed
<1>12. ByWrites(j, "fill", s, 0)
  BY <1>1, <1>5, <1>10, <1>11 DEF ByWrites
<1> QED
  BY <1>12, StepByWrites

LEMMA WriteImageSteps ==
  ASSUME Invariant, NEW j \in Job, WriteImage(j)
  PROVE  Steps(j)
<1> DEFINE r == job[j]
<1>0. /\ Typed(r) /\ Placed(r) /\ DOMAIN r = Fields
      /\ r.at \notin Idle => r.fd \in Descriptor /\ file \in Seq(Byte)
      /\ leaked \subseteq Descriptor
      /\ r.alone /\ NeedsBytes(r) => Len(file) >= r.size
  BY HasDescriptor
<1> USE DEF WriterPlaces, ReaderPlaces, TextPlaces, ImagePlaces
<1>a. r.at = "write" /\ r.buf \in Seq(Byte) /\ r.buf # None /\ file \in Seq(Byte) /\ r.fd \in Descriptor
  BY <1>0, Idles, NoneIsApart DEF WriteImage, Placed, Typed
<1>p. PICK n : WritesImage(j, n)
  BY WriteImageWrites
<1>b. /\ n \in Takes(r.buf)
      /\ GoesAndWrites(j, "write", [r EXCEPT !.at = "workDone", !.buf = None, !.fd = None, !.cut = (n < Len(r.buf))])
      /\ file' = WrittenAt(file, 0, SubSeq(r.buf, 1, n))
      /\ leaked' = leaked \cup {r.fd}
      /\ Counts(j, -1) /\ UNCHANGED <<open, calls, crashed>>
  BY <1>p DEF WritesImage
<1>c. n \in Nat /\ SubSeq(r.buf, 1, n) \in Seq(Byte)
  BY <1>a, <1>b, TakesPrefix
<1>d. file' \in Seq(Byte)
  BY <1>a, <1>b, <1>c, WrittenAtType
<1> DEFINE s == [r EXCEPT !.at = "workDone", !.buf = None, !.fd = None, !.cut = (n < Len(r.buf))]
<1>1. /\ GoesAndWrites(j, "write", s) /\ Counted(j, -1) /\ leaked' \subseteq Descriptor
     /\ UNCHANGED <<crashed, calls>>
  BY <1>0, <1>a, <1>b DEF Counted
<1>2. r.at = "write"
  BY <1>1 DEF GoesAndWrites
<1>3. Elsewhere(r, s, {"at", "buf", "fd", "cut"}) /\ s.at = "workDone" /\ s.buf = None /\ s.fd = None /\ s.cut = (n < Len(r.buf))
  BY <1>0 DEF Elsewhere, Fields
<1> HIDE DEF s
<1>4. /\ s.op = r.op /\ s.format = r.format /\ s.values = r.values /\ s.size = r.size
     /\ s.mapped = r.mapped /\ s.roaring = r.roaring /\ s.frozenBuffer = r.frozenBuffer /\ s.alone = r.alone
  BY <1>3 DEF Elsewhere, Fields
<1>5. file' \in Seq(Byte) /\ s.cut \in BOOLEAN /\ r.buf # None
  BY <1>3, <1>a, <1>d
<1>6. Flags(s)
  BY <1>0, <1>2, <1>3, <1>5 DEF Typed, Flags, Elsewhere, Fields
<1>7. Typed(s)
  BY <1>0, <1>2, <1>3, <1>5, <1>6, NoneIsApart DEF Typed, Elsewhere, Fields, Places, Made
<1>8. Placed(s)
  BY <1>0, <1>2, <1>3, <1>4, <1>5, <1>7, NoneIsApart, Constants DEF Placed, Typed, Made
<1>9. Holding(s) = Holding(r) + (-1)
  BY <1>0, <1>2, <1>3, <1>4, <1>5, NoneIsApart DEF Holding, Placed, Typed
<1>10. Moves(r, s, -1)
  BY <1>2, <1>3, <1>4, <1>7, <1>8, <1>9 DEF Moves
<1>11. s.alone /\ NeedsBytes(s) => Len(file') >= s.size
  BY <1>0, <1>2, <1>3, <1>4, <1>5 DEF NeedsBytes, Typed
<1>12. ByWrites(j, "write", s, -1)
  BY <1>1, <1>5, <1>10, <1>11 DEF ByWrites
<1> QED
  BY <1>12, StepByWrites

DecodesTo(j, S) ==
  /\ S \in Decoded(Bytes(j), job[j].format)
  /\ Goes(j, "decode", [job[j] EXCEPT !.at = "close", !.mapped = FALSE, !.buf = None,
                        !.frozenBuffer = (job[j].format = "unsafe_frozen_croaring"),
                        !.roaring = Bitmap(S, BytesOf(job[j].format))])
  /\ Counts(j, 1 + (IF job[j].buf # None THEN -1 ELSE 0))
DecodeRefuses(j, copied) ==
  /\ copied \in BOOLEAN
  /\ Goes(j, "decode", [job[j] EXCEPT !.at = "close", !.mapped = FALSE, !.buf = None,
                        !.frozenBuffer = copied, !.ok = FALSE])
  /\ Counts(j, IF job[j].buf # None THEN -1 ELSE 0)
LEMMA DecodeDecodes ==
  ASSUME NEW j, Decode(j)
  PROVE  /\ (\E S : DecodesTo(j, S)) \/ (\E copied : DecodeRefuses(j, copied))
         /\ job[j].at = "decode" /\ (job[j].mapped => Len(file) >= job[j].size)
         /\ UNCHANGED <<file, open, calls, crashed, leaked>>
  BY Zenon DEF Decode, DecodesTo, DecodeRefuses

LEMMA DecodeSteps ==
  ASSUME Invariant, NEW j \in Job, Decode(j)
  PROVE  Steps(j)
<1> DEFINE r == job[j]
<1>0. /\ Typed(r) /\ Placed(r) /\ DOMAIN r = Fields
      /\ r.at \notin Idle => r.fd \in Descriptor /\ file \in Seq(Byte)
      /\ leaked \subseteq Descriptor
      /\ r.alone /\ NeedsBytes(r) => Len(file) >= r.size
  BY HasDescriptor
<1> USE DEF WriterPlaces, ReaderPlaces, TextPlaces, ImagePlaces
<1>a. /\ (\E S : DecodesTo(j, S)) \/ (\E copied : DecodeRefuses(j, copied))
      /\ r.at = "decode" /\ (r.mapped => Len(file) >= r.size)
      /\ UNCHANGED <<file, open, calls, crashed, leaked>>
  BY DecodeDecodes
<1>b. file \in Seq(Byte) /\ r.size \in Nat /\ r.format \in BinaryFormat /\ r.roaring = None /\ r.buf \in Seq(Byte) \cup {None}
  BY <1>0, <1>a, Idles DEF Typed, Placed
<1>c. Bytes(j) \in Seq(Byte)
  <2>1. CASE r.mapped
    BY <1>a, <1>b, <2>1, PrefixType DEF Bytes
  <2>2. CASE ~r.mapped
    BY <1>0, <1>a, <1>b, <2>2 DEF Bytes, Placed
  <2> QED
    BY <2>1, <2>2
<1> DEFINE b == IF r.buf # None THEN -1 ELSE 0
<1>d. b \in Int /\ b = 0 - (IF r.buf # None THEN 1 ELSE 0) /\ (IF r.buf # None THEN 1 ELSE 0) \in Int
  OBVIOUS
<1> HIDE DEF b
<1>1. CASE \E S : DecodesTo(j, S)
  <2>p. PICK S : DecodesTo(j, S)
    BY <1>1
  <2>r. /\ Goes(j, "decode", [r EXCEPT !.at = "close", !.mapped = FALSE, !.buf = None, !.frozenBuffer = (r.format = "unsafe_frozen_croaring"), !.roaring = Bitmap(S, BytesOf(r.format))])
        /\ Counts(j, 1 + b)
    BY Zenon, <2>p DEF DecodesTo, b
  <2>q. S \in SUBSET (0 .. UINT32_MAX)
    BY <1>b, <1>c, <2>p, DecodedType DEF DecodesTo
  <2> DEFINE s == [r EXCEPT !.at = "close", !.mapped = FALSE, !.buf = None, !.frozenBuffer = (r.format = "unsafe_frozen_croaring"), !.roaring = Bitmap(S, BytesOf(r.format))]
  <2>1. /\ Goes(j, "decode", s) /\ Counted(j, (1 + b)) /\ leaked' \subseteq Descriptor
       /\ UNCHANGED <<file, crashed, calls>>
    BY <1>0, <1>a, <2>r DEF Counted
  <2>2. r.at = "decode"
    BY <2>1 DEF Goes
  <2>3. Elsewhere(r, s, {"at", "mapped", "buf", "frozenBuffer", "roaring"}) /\ s.at = "close" /\ s.mapped = FALSE /\ s.buf = None /\ s.frozenBuffer = (r.format = "unsafe_frozen_croaring") /\ s.roaring = Bitmap(S, BytesOf(r.format))
    BY <1>0 DEF Elsewhere, Fields
  <2> HIDE DEF s
  <2>4. /\ s.op = r.op /\ s.format = r.format /\ s.values = r.values
       /\ s.fd = r.fd /\ s.size = r.size /\ s.alone = r.alone
    BY <2>3 DEF Elsewhere, Fields
  <2>5. s.roaring \in Made /\ s.roaring # None /\ s.frozenBuffer \in BOOLEAN /\ (s.roaring.in = "frozenBuffer" => s.frozenBuffer)
    <3>1. Bitmap(S, BytesOf(r.format)) \in Made /\ (Bitmap(S, BytesOf(r.format)).in = "frozenBuffer" => r.format = "unsafe_frozen_croaring")
      BY <2>q DEF Bitmap, BytesOf, Made
    <3> QED
      BY <2>3, <3>1, NoneIsApart
  <2>6. Holding(s) = Holding(r) + (1 + b)
    <3>1. (IF s.buf # None THEN 1 ELSE 0) = 0 /\ (IF r.roaring # None THEN 1 ELSE 0) = 0 /\ (IF s.roaring # None THEN 1 ELSE 0) = 1
      BY <1>b, <2>3, <2>4, <2>5
    <3> QED
      BY <1>d, <3>1 DEF Holding
  <2>7. Flags(s)
    BY <1>0, <2>2, <2>3, <2>5, <2>6 DEF Typed, Flags, Elsewhere, Fields
  <2>8. Typed(s)
    BY <1>0, <2>2, <2>3, <2>5, <2>6, <2>7, NoneIsApart DEF Typed, Elsewhere, Fields, Places, Made
  <2>9. Placed(s)
    BY <1>0, <2>2, <2>3, <2>4, <2>5, <2>6, <2>8, NoneIsApart, Constants DEF Placed, Typed, Made
  <2>10. Holding(s) = Holding(r) + (1 + b)
    BY <1>0, <2>2, <2>3, <2>4, <2>5, <2>6, NoneIsApart DEF Holding, Placed, Typed
  <2>11. Moves(r, s, (1 + b))
    BY <2>2, <2>3, <2>4, <2>8, <2>9, <2>10 DEF Moves
  <2>12. s.alone /\ NeedsBytes(s) => Len(file) >= s.size
    BY <1>0, <2>2, <2>3, <2>4, <2>5, <2>6 DEF NeedsBytes, Typed
  <2>13. s.fd # None => r.fd # None
    BY <1>0, <2>2, <2>3, <2>4 DEF Idle, Typed
  <2>14. ByGoes(j, "decode", s, (1 + b))
    BY <1>d, <2>1, <2>11, <2>12, <2>13 DEF ByGoes
  <2> QED
    BY <2>14, StepByGoes
<1>2. CASE \E copied : DecodeRefuses(j, copied)
  <2>p. PICK copied : DecodeRefuses(j, copied)
    BY <1>2
  <2>r. /\ Goes(j, "decode", [r EXCEPT !.at = "close", !.mapped = FALSE, !.buf = None, !.frozenBuffer = copied, !.ok = FALSE])
        /\ Counts(j, b)
    BY Zenon, <2>p DEF DecodeRefuses, b
  <2> DEFINE s == [r EXCEPT !.at = "close", !.mapped = FALSE, !.buf = None, !.frozenBuffer = copied, !.ok = FALSE]
  <2>1. /\ Goes(j, "decode", s) /\ Counted(j, b) /\ leaked' \subseteq Descriptor
       /\ UNCHANGED <<file, crashed, calls>>
    BY <1>0, <1>a, <2>r DEF Counted
  <2>2. r.at = "decode"
    BY <2>1 DEF Goes
  <2>3. Elsewhere(r, s, {"at", "mapped", "buf", "frozenBuffer", "ok"}) /\ s.at = "close" /\ s.mapped = FALSE /\ s.buf = None /\ s.frozenBuffer = copied /\ s.ok = FALSE
    BY <1>0 DEF Elsewhere, Fields
  <2> HIDE DEF s
  <2>4. /\ s.op = r.op /\ s.format = r.format /\ s.values = r.values
       /\ s.fd = r.fd /\ s.size = r.size /\ s.roaring = r.roaring /\ s.alone = r.alone
    BY <2>3 DEF Elsewhere, Fields
  <2>5. s.roaring = None /\ s.frozenBuffer \in BOOLEAN
    BY <1>b, <2>3, <2>4, <2>p DEF DecodeRefuses
  <2>6. Holding(s) = Holding(r) + b
    <3>1. (IF s.buf # None THEN 1 ELSE 0) = 0 /\ (IF r.roaring # None THEN 1 ELSE 0) = 0 /\ (IF s.roaring # None THEN 1 ELSE 0) = 0
      BY <1>b, <2>3, <2>4, <2>5
    <3> QED
      BY <1>d, <3>1 DEF Holding
  <2>7. Flags(s)
    BY <1>0, <2>2, <2>3, <2>5, <2>6 DEF Typed, Flags, Elsewhere, Fields
  <2>8. Typed(s)
    BY <1>0, <2>2, <2>3, <2>5, <2>6, <2>7, NoneIsApart DEF Typed, Elsewhere, Fields, Places, Made
  <2>9. Placed(s)
    BY <1>0, <2>2, <2>3, <2>4, <2>5, <2>6, <2>8, NoneIsApart, Constants DEF Placed, Typed, Made
  <2>10. Holding(s) = Holding(r) + b
    BY <1>0, <2>2, <2>3, <2>4, <2>5, <2>6, NoneIsApart DEF Holding, Placed, Typed
  <2>11. Moves(r, s, b)
    BY <2>2, <2>3, <2>4, <2>8, <2>9, <2>10 DEF Moves
  <2>12. s.alone /\ NeedsBytes(s) => Len(file) >= s.size
    BY <1>0, <2>2, <2>3, <2>4, <2>5, <2>6 DEF NeedsBytes, Typed
  <2>13. s.fd # None => r.fd # None
    BY <1>0, <2>2, <2>3, <2>4 DEF Idle, Typed
  <2>14. ByGoes(j, "decode", s, b)
    BY <1>d, <2>1, <2>11, <2>12, <2>13 DEF ByGoes
  <2> QED
    BY <2>14, StepByGoes
<1> QED
  BY <1>a, <1>1, <1>2 

OpensToWrite(j, fd, at, alone) ==
  /\ fd \in NewDescriptor /\ alone \in BOOLEAN /\ job[j].op = "serializeFileAsync"
  /\ at = IF job[j].format \in TextFormat THEN "buffer" ELSE "ftruncate"
  /\ GoesAndWrites(j, "open", [job[j] EXCEPT !.at = at, !.fd = fd, !.alone = alone])
  /\ file' = <<>> /\ UNCHANGED <<memory, calls, crashed, leaked>>
LEMMA OpenToWriteOpens == ASSUME NEW j, OpenToWrite(j) PROVE \E fd, at, alone : OpensToWrite(j, fd, at, alone)
  BY Zenon DEF OpenToWrite, OpensToWrite

OpensToRead(j, fd, at, alone) ==
  /\ fd \in NewDescriptor /\ alone \in BOOLEAN /\ job[j].op \in Readers
  /\ at = IF job[j].format \in TextFormat THEN "create" ELSE "fstat"
  /\ Goes(j, "open", [job[j] EXCEPT !.at = at, !.fd = fd, !.alone = alone])
  /\ file # None /\ UNCHANGED <<file, memory, calls, crashed, leaked>>
LEMMA OpenToReadOpens == ASSUME NEW j, OpenToRead(j) PROVE \E fd, at, alone : OpensToRead(j, fd, at, alone)
  BY Zenon DEF OpenToRead, OpensToRead

LEMMA OpenToWriteSteps ==
  ASSUME Invariant, NEW j \in Job, OpenToWrite(j)
  PROVE  Steps(j)
<1> DEFINE r == job[j]
<1>0. /\ Typed(r) /\ Placed(r) /\ DOMAIN r = Fields
      /\ r.at \notin Idle => r.fd \in Descriptor /\ file \in Seq(Byte)
      /\ leaked \subseteq Descriptor
      /\ r.alone /\ NeedsBytes(r) => Len(file) >= r.size
  BY HasDescriptor
<1> USE DEF WriterPlaces, ReaderPlaces, TextPlaces, ImagePlaces
<1>a. PICK fd, at, alone : OpensToWrite(j, fd, at, alone)
  BY OpenToWriteOpens
<1>b. /\ GoesAndWrites(j, "open", [r EXCEPT !.at = at, !.fd = fd, !.alone = alone])
      /\ fd \in Descriptor /\ alone \in BOOLEAN /\ at = IF r.format \in TextFormat THEN "buffer" ELSE "ftruncate"
      /\ UNCHANGED <<memory, calls, crashed, leaked>>
  BY Zenon, <1>a DEF OpensToWrite, NewDescriptor
<1>1. CASE r.format \in TextFormat
  <2> DEFINE s == [r EXCEPT !.at = "buffer", !.fd = fd, !.alone = alone]
  <2>1. /\ GoesAndWrites(j, "open", s) /\ Counted(j, 0) /\ leaked' \subseteq Descriptor
       /\ UNCHANGED <<crashed, calls>>
    BY <1>0, <1>1, <1>b DEF Counted
  <2>2. r.at = "open"
    BY <2>1 DEF GoesAndWrites
  <2>3. Elsewhere(r, s, {"at", "fd", "alone"}) /\ s.at = "buffer" /\ s.fd = fd /\ s.alone = alone
    BY <1>0 DEF Elsewhere, Fields
  <2> HIDE DEF s
  <2>4. /\ s.op = r.op /\ s.format = r.format /\ s.values = r.values /\ s.size = r.size
       /\ s.buf = r.buf /\ s.mapped = r.mapped /\ s.roaring = r.roaring /\ s.frozenBuffer = r.frozenBuffer
    BY <2>3 DEF Elsewhere, Fields
  <2>5. fd \in Descriptor /\ alone \in BOOLEAN
    BY <1>b
  <2>6. file' \in Seq(Byte)
    BY <1>a, NoneIsApart DEF OpensToWrite
  <2>7. r.op = "serializeFileAsync"
    BY <1>a DEF OpensToWrite
  <2>8. r.format \in TextFormat
    BY <1>1
  <2>9. Flags(s)
    BY <1>0, <2>2, <2>3, <2>5, <2>6, <2>7, <2>8 DEF Typed, Flags, Elsewhere, Fields
  <2>10. Typed(s)
    BY <1>0, <2>2, <2>3, <2>5, <2>6, <2>7, <2>8, <2>9, NoneIsApart DEF Typed, Elsewhere, Fields, Places, Made
  <2>11. Placed(s)
    BY <1>0, <2>2, <2>3, <2>4, <2>5, <2>6, <2>7, <2>8, <2>10, NoneIsApart, Constants DEF Placed, Typed, Made
  <2>12. Holding(s) = Holding(r) + 0
    BY <1>0, <2>2, <2>3, <2>4, <2>5, <2>6, <2>7, <2>8, NoneIsApart DEF Holding, Placed, Typed
  <2>13. Moves(r, s, 0)
    BY <2>2, <2>3, <2>4, <2>10, <2>11, <2>12 DEF Moves
  <2>14. s.alone /\ NeedsBytes(s) => Len(file') >= s.size
    BY <1>0, <2>2, <2>3, <2>4, <2>5, <2>6, <2>7, <2>8 DEF NeedsBytes, Typed
  <2>15. ByWrites(j, "open", s, 0)
    BY <2>1, <2>5, <2>6, <2>7, <2>8, <2>13, <2>14 DEF ByWrites
  <2> QED
    BY <2>15, StepByWrites
<1>2. CASE r.format \notin TextFormat
  <2> DEFINE s == [r EXCEPT !.at = "ftruncate", !.fd = fd, !.alone = alone]
  <2>1. /\ GoesAndWrites(j, "open", s) /\ Counted(j, 0) /\ leaked' \subseteq Descriptor
       /\ UNCHANGED <<crashed, calls>>
    BY <1>0, <1>2, <1>b DEF Counted
  <2>2. r.at = "open"
    BY <2>1 DEF GoesAndWrites
  <2>3. Elsewhere(r, s, {"at", "fd", "alone"}) /\ s.at = "ftruncate" /\ s.fd = fd /\ s.alone = alone
    BY <1>0 DEF Elsewhere, Fields
  <2> HIDE DEF s
  <2>4. /\ s.op = r.op /\ s.format = r.format /\ s.values = r.values /\ s.size = r.size
       /\ s.buf = r.buf /\ s.mapped = r.mapped /\ s.roaring = r.roaring /\ s.frozenBuffer = r.frozenBuffer
    BY <2>3 DEF Elsewhere, Fields
  <2>5. fd \in Descriptor /\ alone \in BOOLEAN
    BY <1>b
  <2>6. file' \in Seq(Byte)
    BY <1>a, NoneIsApart DEF OpensToWrite
  <2>7. r.op = "serializeFileAsync"
    BY <1>a DEF OpensToWrite
  <2>8. r.format \notin TextFormat
    BY <1>2
  <2>9. Flags(s)
    BY <1>0, <2>2, <2>3, <2>5, <2>6, <2>7, <2>8 DEF Typed, Flags, Elsewhere, Fields
  <2>10. Typed(s)
    BY <1>0, <2>2, <2>3, <2>5, <2>6, <2>7, <2>8, <2>9, NoneIsApart DEF Typed, Elsewhere, Fields, Places, Made
  <2>11. Placed(s)
    BY <1>0, <2>2, <2>3, <2>4, <2>5, <2>6, <2>7, <2>8, <2>10, NoneIsApart, Constants DEF Placed, Typed, Made
  <2>12. Holding(s) = Holding(r) + 0
    BY <1>0, <2>2, <2>3, <2>4, <2>5, <2>6, <2>7, <2>8, NoneIsApart DEF Holding, Placed, Typed
  <2>13. Moves(r, s, 0)
    BY <2>2, <2>3, <2>4, <2>10, <2>11, <2>12 DEF Moves
  <2>14. s.alone /\ NeedsBytes(s) => Len(file') >= s.size
    BY <1>0, <2>2, <2>3, <2>4, <2>5, <2>6, <2>7, <2>8 DEF NeedsBytes, Typed
  <2>15. ByWrites(j, "open", s, 0)
    BY <2>1, <2>5, <2>6, <2>7, <2>8, <2>13, <2>14 DEF ByWrites
  <2> QED
    BY <2>15, StepByWrites
<1> QED
  BY <1>1, <1>2 

LEMMA OpenToReadSteps ==
  ASSUME Invariant, NEW j \in Job, OpenToRead(j)
  PROVE  Steps(j)
<1> DEFINE r == job[j]
<1>0. /\ Typed(r) /\ Placed(r) /\ DOMAIN r = Fields
      /\ r.at \notin Idle => r.fd \in Descriptor /\ file \in Seq(Byte)
      /\ leaked \subseteq Descriptor
      /\ r.alone /\ NeedsBytes(r) => Len(file) >= r.size
  BY HasDescriptor
<1> USE DEF WriterPlaces, ReaderPlaces, TextPlaces, ImagePlaces
<1>a. PICK fd, at, alone : OpensToRead(j, fd, at, alone)
  BY OpenToReadOpens
<1>b. /\ Goes(j, "open", [r EXCEPT !.at = at, !.fd = fd, !.alone = alone])
      /\ fd \in Descriptor /\ alone \in BOOLEAN /\ at = IF r.format \in TextFormat THEN "create" ELSE "fstat"
      /\ UNCHANGED <<memory, calls, crashed, leaked>>
  BY Zenon, <1>a DEF OpensToRead, NewDescriptor
<1>1. CASE r.format \in TextFormat
  <2> DEFINE s == [r EXCEPT !.at = "create", !.fd = fd, !.alone = alone]
  <2>1. /\ Goes(j, "open", s) /\ Counted(j, 0) /\ leaked' \subseteq Descriptor
       /\ UNCHANGED <<file, crashed, calls>>
    BY <1>0, <1>1, <1>a, <1>b DEF Counted, OpensToRead
  <2>2. r.at = "open"
    BY <2>1 DEF Goes
  <2>3. Elsewhere(r, s, {"at", "fd", "alone"}) /\ s.at = "create" /\ s.fd = fd /\ s.alone = alone
    BY <1>0 DEF Elsewhere, Fields
  <2> HIDE DEF s
  <2>4. /\ s.op = r.op /\ s.format = r.format /\ s.values = r.values /\ s.size = r.size
       /\ s.buf = r.buf /\ s.mapped = r.mapped /\ s.roaring = r.roaring /\ s.frozenBuffer = r.frozenBuffer
    BY <2>3 DEF Elsewhere, Fields
  <2>5. fd \in Descriptor /\ alone \in BOOLEAN
    BY <1>b
  <2>6. r.op \in Readers /\ file # None
    BY <1>a DEF OpensToRead
  <2>7. r.format \in TextFormat
    BY <1>1
  <2>8. Flags(s)
    BY <1>0, <2>2, <2>3, <2>5, <2>6, <2>7 DEF Typed, Flags, Elsewhere, Fields
  <2>9. Typed(s)
    BY <1>0, <2>2, <2>3, <2>5, <2>6, <2>7, <2>8, NoneIsApart DEF Typed, Elsewhere, Fields, Places, Made
  <2>10. Placed(s)
    BY <1>0, <2>2, <2>3, <2>4, <2>5, <2>6, <2>7, <2>9, NoneIsApart, Constants DEF Placed, Typed, Made
  <2>11. Holding(s) = Holding(r) + 0
    BY <1>0, <2>2, <2>3, <2>4, <2>5, <2>6, <2>7, NoneIsApart DEF Holding, Placed, Typed
  <2>12. Moves(r, s, 0)
    BY <2>2, <2>3, <2>4, <2>9, <2>10, <2>11 DEF Moves
  <2>13. s.alone /\ NeedsBytes(s) => Len(file) >= s.size
    BY <1>0, <2>2, <2>3, <2>4, <2>5, <2>6, <2>7 DEF NeedsBytes, Typed
  <2>14. file # None
    BY <1>a DEF OpensToRead
  <2>15. ByGoes(j, "open", s, 0)
    BY <2>1, <2>12, <2>13, <2>14 DEF ByGoes
  <2> QED
    BY <2>15, StepByGoes
<1>2. CASE r.format \notin TextFormat
  <2> DEFINE s == [r EXCEPT !.at = "fstat", !.fd = fd, !.alone = alone]
  <2>1. /\ Goes(j, "open", s) /\ Counted(j, 0) /\ leaked' \subseteq Descriptor
       /\ UNCHANGED <<file, crashed, calls>>
    BY <1>0, <1>2, <1>a, <1>b DEF Counted, OpensToRead
  <2>2. r.at = "open"
    BY <2>1 DEF Goes
  <2>3. Elsewhere(r, s, {"at", "fd", "alone"}) /\ s.at = "fstat" /\ s.fd = fd /\ s.alone = alone
    BY <1>0 DEF Elsewhere, Fields
  <2> HIDE DEF s
  <2>4. /\ s.op = r.op /\ s.format = r.format /\ s.values = r.values /\ s.size = r.size
       /\ s.buf = r.buf /\ s.mapped = r.mapped /\ s.roaring = r.roaring /\ s.frozenBuffer = r.frozenBuffer
    BY <2>3 DEF Elsewhere, Fields
  <2>5. fd \in Descriptor /\ alone \in BOOLEAN
    BY <1>b
  <2>6. r.op \in Readers /\ file # None
    BY <1>a DEF OpensToRead
  <2>7. r.format \notin TextFormat
    BY <1>2
  <2>8. Flags(s)
    BY <1>0, <2>2, <2>3, <2>5, <2>6, <2>7 DEF Typed, Flags, Elsewhere, Fields
  <2>9. Typed(s)
    BY <1>0, <2>2, <2>3, <2>5, <2>6, <2>7, <2>8, NoneIsApart DEF Typed, Elsewhere, Fields, Places, Made
  <2>10. Placed(s)
    BY <1>0, <2>2, <2>3, <2>4, <2>5, <2>6, <2>7, <2>9, NoneIsApart, Constants DEF Placed, Typed, Made
  <2>11. Holding(s) = Holding(r) + 0
    BY <1>0, <2>2, <2>3, <2>4, <2>5, <2>6, <2>7, NoneIsApart DEF Holding, Placed, Typed
  <2>12. Moves(r, s, 0)
    BY <2>2, <2>3, <2>4, <2>9, <2>10, <2>11 DEF Moves
  <2>13. s.alone /\ NeedsBytes(s) => Len(file) >= s.size
    BY <1>0, <2>2, <2>3, <2>4, <2>5, <2>6, <2>7 DEF NeedsBytes, Typed
  <2>14. file # None
    BY <1>a DEF OpensToRead
  <2>15. ByGoes(j, "open", s, 0)
    BY <2>1, <2>12, <2>13, <2>14 DEF ByGoes
  <2> QED
    BY <2>15, StepByGoes
<1> QED
  BY <1>1, <1>2 

\* The steps of a call that do not stay between its opening and its end.
LEMMA OtherSteps ==
  ASSUME Invariant, NEW j \in Job, NEW from, NEW s, Goes(j, from, s), UNCHANGED <<file, crashed>>,
         leaked' \subseteq Descriptor, calls' \in 0 .. MaxCalls, Typed(s), Placed(s), s.fd = None, ~NeedsBytes(s),
         job'[j] = s => Accounts(j)
  PROVE  Steps(j)
<1>1. Frame(j) /\ job'[j] = s
  BY GoesFrame DEF Invariant
<1> QED
  BY <1>1 DEF Steps, Lands

StartsWith(j, op, format, S, size) ==
  /\ job[j].at = "unused" /\ calls < MaxCalls /\ calls' = calls + 1
  /\ op \in Readers \cup {"serializeFileAsync"} /\ format \in BinaryFormat \cup TextFormat
  /\ op = "serializeFileAsync" => S \in Contents
  /\ size \in Nat
  /\ Goes(j, "unused", [job[j] EXCEPT !.at = "open", !.op = op, !.format = format, !.values = S, !.size = size])
  /\ UNCHANGED <<file, open, memory, crashed, leaked>>

LEMMA StartSerializeStarts ==
  ASSUME Invariant, NEW j \in Job, StartSerialize(j)
  PROVE  \E op, format, S, size : StartsWith(j, op, format, S, size)
<1>1. PICK S \in Contents, format \in WriteFormats :
        /\ Goes(j, "unused", [job[j] EXCEPT !.at = "open", !.op = "serializeFileAsync", !.format = format,
                                            !.values = S, !.size = Len(Written(S, format))])
        /\ calls' = calls + 1
        /\ UNCHANGED <<file, open, memory, crashed, leaked>>
  BY Zenon DEF StartSerialize
<1>2. job[j].at = "unused" /\ calls < MaxCalls
  BY Zenon DEF StartSerialize, Starts
<1>3. format \in BinaryFormat \cup TextFormat
  BY JobsAssumption DEF JobsAssumption
<1>4. Len(Written(S, format)) \in Nat
  BY <1>3, WrittenType
<1>5. StartsWith(j, "serializeFileAsync", format, S, Len(Written(S, format)))
  BY Zenon, <1>1, <1>2, <1>3, <1>4 DEF StartsWith
<1> QED
  BY Zenon, <1>5

LEMMA StartDeserializeStarts ==
  ASSUME Invariant, NEW j \in Job, StartDeserialize(j)
  PROVE  \E op, format, S, size : StartsWith(j, op, format, S, size)
<1>1. PICK op \in Readers, format \in ReadFormats :
        /\ Goes(j, "unused", [job[j] EXCEPT !.at = "open", !.op = op, !.format = format])
        /\ calls' = calls + 1
        /\ UNCHANGED <<file, open, memory, crashed, leaked>>
  BY Zenon DEF StartDeserialize
<1>2. job[j].at = "unused" /\ calls < MaxCalls
  BY Zenon DEF StartDeserialize, Starts
<1>3. format \in BinaryFormat \cup TextFormat
  BY JobsAssumption DEF JobsAssumption
<1>4. op # "serializeFileAsync"
  BY DEF Readers
<1>5. job[j].size \in Nat /\ DOMAIN job[j] = Fields
  BY HasDescriptor DEF Typed
<1>6. [job[j] EXCEPT !.at = "open", !.op = op, !.format = format]
        = [job[j] EXCEPT !.at = "open", !.op = op, !.format = format, !.values = job[j].values, !.size = job[j].size]
  BY <1>5 DEF Fields
<1>7. Goes(j, "unused", [job[j] EXCEPT !.at = "open", !.op = op, !.format = format, !.values = job[j].values,
                                      !.size = job[j].size])
  BY Zenon, <1>1, <1>6
<1>8. StartsWith(j, op, format, job[j].values, job[j].size)
  BY Zenon, <1>1, <1>2, <1>3, <1>4, <1>5, <1>7 DEF StartsWith
<1> QED
  BY Zenon, <1>8

LEMMA StartsSteps ==
  ASSUME Invariant, NEW j \in Job, StartSerialize(j) \/ StartDeserialize(j)
  PROVE  Steps(j)
<1> DEFINE r == job[j]
<1>0. /\ Typed(r) /\ Placed(r) /\ DOMAIN r = Fields /\ leaked \subseteq Descriptor
  BY HasDescriptor
<1> USE DEF WriterPlaces, ReaderPlaces, TextPlaces, ImagePlaces
<1>a. PICK op, format, S, size : StartsWith(j, op, format, S, size)
  BY StartSerializeStarts, StartDeserializeStarts
<1> DEFINE s == [r EXCEPT !.at = "open", !.op = op, !.format = format, !.values = S, !.size = size]
<1>1. /\ Goes(j, "unused", s) /\ UNCHANGED <<file, open, memory, crashed, leaked>>
      /\ r.at = "unused" /\ calls' = calls + 1 /\ calls < MaxCalls
  BY Zenon, <1>a DEF StartsWith
<1>2. /\ op \in Readers \cup {"serializeFileAsync"} /\ format \in BinaryFormat \cup TextFormat
      /\ (op = "serializeFileAsync" => S \in Contents) /\ size \in Nat
  BY Zenon, <1>a DEF StartsWith
<1>3. /\ Elsewhere(r, s, {"at", "op", "format", "values", "size"})
      /\ s.at = "open" /\ s.op = op /\ s.format = format /\ s.values = S /\ s.size = size
  BY <1>0 DEF Elsewhere, Fields
<1> HIDE DEF s
<1>4. /\ s.fd = r.fd /\ s.buf = r.buf /\ s.mapped = r.mapped /\ s.roaring = r.roaring
      /\ s.frozenBuffer = r.frozenBuffer
  BY <1>3 DEF Elsewhere, Fields
<1>5. Flags(s)
  BY <1>0, <1>3 DEF Typed, Flags, Elsewhere, Fields
<1>6. Typed(s)
  BY <1>0, <1>2, <1>3, <1>5 DEF Typed, Elsewhere, Fields, Places
<1>7. Placed(s)
  BY <1>0, <1>1, <1>2, <1>3, <1>4 DEF Placed
<1>8. Holding(s) = Holding(r) /\ Unreported(s) = 0 /\ Unreported(r) = 0
  BY <1>0, <1>1, <1>3, <1>4 DEF Holding, Unreported, Placed
<1>9. job'[j] = s => Accounts(j)
  BY <1>1, <1>8, SameAccounts DEF Invariant
<1>10. s.fd = None /\ ~NeedsBytes(s)
  BY <1>1, <1>3, <1>4 DEF NeedsBytes, Invariant, Closed, Idle
<1>11. calls' \in 0 .. MaxCalls
  BY <1>1, JobsAssumption DEF JobsAssumption, Invariant, Calls
<1>12. leaked' \subseteq Descriptor /\ UNCHANGED <<file, crashed>>
  BY <1>0, <1>1
<1> QED
  BY <1>1, <1>6, <1>7, <1>9, <1>10, <1>11, <1>12, OtherSteps

Settles(j, handed) ==
  /\ Goes(j, "workDone",
          IF handed THEN [job[j] EXCEPT !.at = "settled"]
          ELSE [job[j] EXCEPT !.at = "settled", !.ok = FALSE, !.roaring = None, !.frozenBuffer = FALSE])
  /\ total' = total + (IF ~handed /\ job[j].roaring # None THEN -1 ELSE 0)
  /\ external' = external + pending[j] + (IF ~handed /\ job[j].roaring # None THEN -1 ELSE 0)
  /\ pending' = [pending EXCEPT ![j] = 0]
  /\ UNCHANGED <<file, open, calls, crashed, leaked, drift>>
LEMMA SettleSettles == ASSUME NEW j, Settle(j) PROVE \E handed \in {TRUE, FALSE} : Settles(j, handed)
  BY Zenon DEF Settle, Settles

\* The memory of a call that is settled.
LEMMA SettledAccounts ==
  ASSUME Accounted, NEW j \in Job, NEW freed \in Int,
         total' = total + freed, external' = external + pending[j] + freed,
         pending' = [pending EXCEPT ![j] = 0], UNCHANGED drift,
         Holding(job'[j]) = Holding(job[j]) + freed, Unreported(job'[j]) = 0
  PROVE  Accounts(j)
<1> DEFINE h == Holding(job[j])
           g == Holding(job'[j])
           u == Unreported(job[j])
<1>1. h \in Int /\ g \in Int /\ g = h + freed /\ u \in Int
  BY DEF Holding, Unreported
<1>2. pending[j] = u
  BY PendingIsUnreported
<1>3. total \in Int /\ external \in Int /\ drift \in Nat /\ drift' = drift
  BY DEF Accounted
<1>4. total' = total + freed /\ external' = external + u + freed
  BY <1>2
<1>5. pending' = [pending EXCEPT ![j] = Unreported(job'[j])]
  OBVIOUS
<1> HIDE DEF h, g, u
<1>6. total' = total + drift - drift' + g - h /\ external' = external + drift - drift' + (g - 0) - (h - u)
  BY <1>1, <1>3, <1>4
<1> QED
  BY <1>3, <1>5, <1>6 DEF Accounts, h, g, u

LEMMA SettleSteps ==
  ASSUME Invariant, NEW j \in Job, Settle(j)
  PROVE  Steps(j)
<1> DEFINE r == job[j]
<1>0. /\ Typed(r) /\ Placed(r) /\ DOMAIN r = Fields /\ leaked \subseteq Descriptor
  BY HasDescriptor
<1> USE DEF WriterPlaces, ReaderPlaces, TextPlaces, ImagePlaces
<1>a. PICK handed \in {TRUE, FALSE} : Settles(j, handed)
  BY SettleSettles
<1>b. calls' \in 0 .. MaxCalls /\ leaked' \subseteq Descriptor /\ UNCHANGED <<file, crashed, drift>>
  BY <1>0, <1>a DEF Settles, Invariant, Calls
<1>1. CASE handed
  <2> DEFINE s == [r EXCEPT !.at = "settled"]
             freed == 0
  <2>1. Goes(j, "workDone", s)
    BY <1>1, <1>a DEF Settles
  <2>2. r.at = "workDone"
    BY <2>1 DEF Goes
  <2>3. Elsewhere(r, s, {"at"}) /\ s.at = "settled"
    BY <1>0 DEF Elsewhere, Fields
  <2> HIDE DEF s
  <2>4. s.op = r.op /\ s.format = r.format /\ s.values = r.values /\ s.fd = r.fd /\ s.size = r.size /\ s.buf = r.buf /\ s.mapped = r.mapped /\ s.roaring = r.roaring /\ s.frozenBuffer = r.frozenBuffer /\ s.alone = r.alone
    BY <2>3 DEF Elsewhere, Fields
  <2>5. Flags(s)
    BY <1>0, <2>3 DEF Typed, Flags, Elsewhere, Fields
  <2>6. Typed(s)
    BY <1>0, <2>3, <2>5 DEF Typed, Elsewhere, Fields, Places
  <2>7. Placed(s)
    BY <1>0, <2>2, <2>3, <2>4 DEF Placed
  <2>8. freed \in Int /\ Holding(s) = Holding(r) + freed
    BY <1>0, <2>2, <2>3, <2>4 DEF Holding, Placed
  <2>9. Unreported(s) = 0
    BY <2>3 DEF Unreported
  <2>10. total' = total + freed /\ external' = external + pending[j] + freed /\ pending' = [pending EXCEPT ![j] = 0]
    BY <1>1, <1>a DEF Settles
  <2> HIDE DEF freed
  <2>11. job'[j] = s => Accounts(j)
    BY <1>b, <2>8, <2>9, <2>10, SettledAccounts DEF Invariant
  <2>12. s.fd = None /\ ~NeedsBytes(s)
    BY <2>2, <2>3, <2>4 DEF NeedsBytes, Invariant, Closed, Idle
  <2> QED
    BY <1>b, <2>1, <2>6, <2>7, <2>11, <2>12, OtherSteps
<1>2. CASE ~handed
  <2> DEFINE s == [r EXCEPT !.at = "settled", !.ok = FALSE, !.roaring = None, !.frozenBuffer = FALSE]
             freed == (IF r.roaring # None THEN -1 ELSE 0)
  <2>1. Goes(j, "workDone", s)
    BY <1>2, <1>a DEF Settles
  <2>2. r.at = "workDone"
    BY <2>1 DEF Goes
  <2>3. Elsewhere(r, s, {"at", "ok", "roaring", "frozenBuffer"}) /\ s.at = "settled" /\ s.ok = FALSE /\ s.roaring = None /\ s.frozenBuffer = FALSE
    BY <1>0 DEF Elsewhere, Fields
  <2> HIDE DEF s
  <2>4. s.op = r.op /\ s.format = r.format /\ s.values = r.values /\ s.fd = r.fd /\ s.size = r.size /\ s.buf = r.buf /\ s.mapped = r.mapped /\ s.alone = r.alone
    BY <2>3 DEF Elsewhere, Fields
  <2>5. Flags(s)
    BY <1>0, <2>3 DEF Typed, Flags, Elsewhere, Fields
  <2>6. Typed(s)
    BY <1>0, <2>3, <2>5 DEF Typed, Elsewhere, Fields, Places
  <2>7. Placed(s)
    BY <1>0, <2>2, <2>3, <2>4 DEF Placed
  <2>8. freed \in Int /\ Holding(s) = Holding(r) + freed
    BY <1>0, <2>2, <2>3, <2>4 DEF Holding, Placed
  <2>9. Unreported(s) = 0
    BY <2>3 DEF Unreported
  <2>10. total' = total + freed /\ external' = external + pending[j] + freed /\ pending' = [pending EXCEPT ![j] = 0]
    BY <1>2, <1>a DEF Settles
  <2> HIDE DEF freed
  <2>11. job'[j] = s => Accounts(j)
    BY <1>b, <2>8, <2>9, <2>10, SettledAccounts DEF Invariant
  <2>12. s.fd = None /\ ~NeedsBytes(s)
    BY <2>2, <2>3, <2>4 DEF NeedsBytes, Invariant, Closed, Idle
  <2> QED
    BY <1>b, <2>1, <2>6, <2>7, <2>11, <2>12, OtherSteps
<1> QED
  BY <1>1, <1>2

LEMMA ForgottenAccounts ==
  ASSUME Accounted, NEW j \in Job, NEW bitmap \in Int, NEW uncounted \in Nat,
         total' = total - bitmap - uncounted, external' = external - bitmap - uncounted,
         drift' = drift + uncounted, UNCHANGED pending,
         Holding(job[j]) = bitmap, Unreported(job[j]) = 0, Holding(job'[j]) = 0, Unreported(job'[j]) = 0
  PROVE  Accounts(j)
<1>1. total \in Int /\ external \in Int /\ drift \in Nat
  BY DEF Accounted
<1>2. pending[j] = 0 /\ pending \in [Job -> Int]
  BY PendingIsUnreported
<1>3. pending' = [pending EXCEPT ![j] = 0]
  BY <1>2
<1>4. total' = total + drift - drift' + 0 - bitmap /\ external' = external + drift - drift' + (0 - 0) - (bitmap - 0)
  BY <1>1
<1>5. drift' \in Nat
  BY <1>1
<1> QED
  BY <1>3, <1>4, <1>5 DEF Accounts

LEMMA ForgetSteps ==
  ASSUME Invariant, NEW j \in Job, Forget(j)
  PROVE  Steps(j)
<1> DEFINE r == job[j]
<1>0. /\ Typed(r) /\ Placed(r) /\ DOMAIN r = Fields /\ leaked \subseteq Descriptor
  BY HasDescriptor
<1> USE DEF WriterPlaces, ReaderPlaces, TextPlaces, ImagePlaces
<1> DEFINE bitmap == IF r.roaring # None THEN 1 ELSE 0
           uncounted == IF r.frozenBuffer THEN 1 ELSE 0
<1>1. /\ Goes(j, "settled", Unused) /\ r.at = "settled"
      /\ total' = total - bitmap - uncounted /\ external' = external - bitmap - uncounted
      /\ drift' = drift + uncounted
      /\ UNCHANGED <<file, open, pending, calls, crashed, leaked>>
  BY DEF Forget, Goes
<1>2. /\ DOMAIN Unused = Fields /\ Unused.at = "unused" /\ Unused.fd = None /\ Unused.pos = 0 /\ Unused.size = 0
      /\ Unused.buf = None /\ Unused.todo = <<>> /\ Unused.parse = ParseInit /\ Unused.roaring = None
      /\ Unused.mapped = FALSE
  BY DEF Unused, Fields
<1>3. Flags(Unused)
  BY DEF Unused, Flags
<1>4. ParseInit \in Parsing
  BY Constants DEF ParseInit, Parsing
<1>5. Typed(Unused)
  BY <1>2, <1>3, <1>4 DEF Typed, Places
<1>6. Placed(Unused)
  BY <1>2 DEF Placed
<1>7. bitmap \in Int /\ uncounted \in Nat
  OBVIOUS
<1>8. Holding(r) = bitmap /\ Unreported(r) = 0
  BY <1>0, <1>1 DEF Holding, Unreported, Placed
<1>9. Holding(Unused) = 0 /\ Unreported(Unused) = 0
  BY <1>2 DEF Holding, Unreported
<1> HIDE DEF bitmap, uncounted
<1>10. job'[j] = Unused => Accounts(j)
  BY <1>1, <1>7, <1>8, <1>9, ForgottenAccounts DEF Invariant
<1>11. ~NeedsBytes(Unused)
  BY <1>2 DEF NeedsBytes
<1>12. calls' \in 0 .. MaxCalls /\ leaked' \subseteq Descriptor /\ UNCHANGED <<file, crashed>>
  BY <1>0, <1>1 DEF Invariant, Calls
<1> QED
  BY <1>1, <1>2, <1>5, <1>6, <1>10, <1>11, <1>12, OtherSteps

LEMMA CrashInvariant ==
  ASSUME Invariant, NEW j \in Job, Crash(j, "fill") \/ Crash(j, "decode")
  PROVE  Invariant'
<1> DEFINE r == job[j]
<1>0. /\ Typed(r) /\ Placed(r)
      /\ r.at \notin Idle => file \in Seq(Byte)
      /\ r.alone /\ NeedsBytes(r) => Len(file) >= r.size
  BY HasDescriptor
<1>1. /\ r.at \in {"fill", "decode"} /\ r.mapped /\ Len(file) < r.size /\ crashed' = TRUE
      /\ UNCHANGED <<file, open, job, memory, calls, leaked>>
  BY DEF Crash
<1>2. Len(file) \in Nat /\ r.size \in Nat
  <2>1. file \in Seq(Byte)
    BY <1>0, <1>1 DEF Idle
  <2>2. r.size \in Nat
    BY <1>0 DEF Typed
  <2> QED
    BY <2>1, <2>2
<1>3. ~r.alone
  BY <1>0, <1>1, <1>2 DEF NeedsBytes
<1>4. Closed'
  BY <1>1, SameClosed DEF Invariant
<1>5. Calls'
  BY <1>1, <1>3 DEF Invariant, Calls, memory
<1>6. Accounted'
  BY <1>1 DEF Invariant, Accounted, MemoryAccounted, Allocated, Kept, OnMainThread, memory
<1> QED
  BY <1>4, <1>5, <1>6 DEF Invariant

LEMMA StepsKeepInvariant ==
  ASSUME Invariant, Closed', NEW j \in Job, Steps(j)
  PROVE  Invariant'
<1>1. drift' \in Nat
  BY DEF Steps, Accounts
<1>2. Calls'
  BY <1>1, CallsStep DEF Invariant, Steps
<1>3. Accounted'
  BY AccountedStep DEF Invariant, Steps
<1> QED
  BY <1>2, <1>3 DEF Invariant

LEMMA InitInvariant == Init => Invariant
<1> SUFFICES ASSUME Init PROVE Invariant
  OBVIOUS
<1>1. Closed
  BY InitClosed
<1>2. \A j \in Job : job[j] = Unused
  BY DEF Init
<1>3. /\ DOMAIN Unused = Fields /\ Unused.at = "unused" /\ Unused.fd = None /\ Unused.pos = 0 /\ Unused.size = 0
      /\ Unused.buf = None /\ Unused.todo = <<>> /\ Unused.parse = ParseInit /\ Unused.roaring = None
      /\ Unused.mapped = FALSE /\ Unused.op = None
  BY DEF Unused, Fields
<1>4. Flags(Unused)
  BY DEF Unused, Flags
<1>5. ParseInit \in Parsing
  BY Constants DEF ParseInit, Parsing
<1>6. Typed(Unused)
  BY <1>3, <1>4, <1>5 DEF Typed, Places
<1>7. Placed(Unused)
  BY <1>3 DEF Placed, WriterPlaces, ReaderPlaces, TextPlaces, ImagePlaces
<1>8. file \in Seq(Byte) \cup {None} /\ MaxCalls \in Nat
  BY JobsAssumption DEF JobsAssumption, Init
<1>9. Calls
  <2>1. \A j \in Job : Typed(job[j]) /\ Placed(job[j]) /\ job[j].fd = None /\ ~NeedsBytes(job[j])
    BY <1>2, <1>3, <1>6, <1>7 DEF NeedsBytes
  <2>2. DOMAIN job = Job /\ leaked \subseteq Descriptor /\ drift \in Nat
    BY DEF Init
  <2>3. calls \in 0 .. MaxCalls
    BY <1>8 DEF Init
  <2>4. crashed \in BOOLEAN /\ ~crashed
    BY DEF Init
  <2> QED
    BY <1>8, <2>1, <2>2, <2>3, <2>4 DEF Calls
<1>10. pending \in [Job -> Int] /\ total = 0 /\ external = 0 /\ drift = 0 /\ \A j \in Job : pending[j] = 0
  BY DEF Init
<1>11. \A J \in SUBSET Job : Allocated(J) = 0
  <2> SUFFICES ASSUME NEW J \in SUBSET Job PROVE Allocated(J) = 0
    OBVIOUS
  <2>1. {j \in J : job[j].buf # None} = {} /\ {j \in J : job[j].roaring # None} = {}
    BY <1>2, <1>3
  <2>2. Cardinality({}) = 0
    BY FS_EmptySet
  <2>3. Allocated(J) = Cardinality({}) + Cardinality({})
    BY <2>1 DEF Allocated
  <2> QED
    BY <2>2, <2>3
<1>12. MemoryAccounted
  <2>1. {j \in Job : ~Kept(j)} \in SUBSET Job /\ Job \in SUBSET Job
    OBVIOUS
  <2>2. Allocated(Job) = 0 /\ Allocated({j \in Job : ~Kept(j)}) = 0
    BY <1>11, <2>1
  <2>3. \A j \in Job : ~Kept(j)
    BY <1>2, <1>3 DEF Kept
  <2> QED
    BY <1>10, <2>2, <2>3 DEF MemoryAccounted
<1> QED
  BY <1>1, <1>9, <1>10, <1>12 DEF Invariant, Accounted

LEMMA NextInvariant == Invariant /\ [Next]_vars => Invariant'
<1> SUFFICES ASSUME Invariant, [Next]_vars PROVE Invariant'
  OBVIOUS
<1>0. Closed'
  BY NextClosed DEF Invariant
<1>1. CASE UNCHANGED vars
  BY <1>0, <1>1 DEF vars, Invariant, Calls, Accounted, MemoryAccounted, Allocated, Kept, OnMainThread
<1>2. ASSUME NEW j \in Job, Works(j) \/ Fails(j) PROVE Invariant'
  <2>1. CASE Crash(j, "fill") \/ Crash(j, "decode")
    BY <2>1, CrashInvariant
  <2>2. CASE \/ OpenToWrite(j) \/ OpenToRead(j) \/ OpenFails(j) \/ Close(j) \/ Settle(j)
             \/ MakeBuffer(j) \/ AppendItem(j) \/ Flush(j) \/ FlushFails(j) \/ TextWritten(j)
    <3>1. Steps(j)
      BY <2>2, OpenToWriteSteps, OpenToReadSteps, OpenFailsSteps, CloseSteps, SettleSteps, MakeBufferSteps,
         AppendItemSteps, FlushSteps, FlushFailsSteps, TextWrittenSteps
    <3> QED
      BY <1>0, <3>1, StepsKeepInvariant
  <2>3. CASE \/ Truncate(j) \/ TruncateFails(j) \/ MapToWrite(j) \/ MapToWriteFails(j) \/ Fill(j)
             \/ WriteImage(j) \/ WriteImageFails(j)
    <3>1. Steps(j)
      BY <2>3, TruncateSteps, TruncateFailsSteps, MapToWriteSteps, MapToWriteFailsSteps, FillSteps,
         WriteImageSteps, WriteImageFailsSteps
    <3> QED
      BY <1>0, <3>1, StepsKeepInvariant
  <2>4. CASE \/ CreateForText(j) \/ ReadText(j) \/ TextEnds(j) \/ ReadTextFails(j) \/ Stat(j)
             \/ MapToRead(j) \/ MapToReadFails(j) \/ ReadImage(j) \/ ReadImageFails(j) \/ Decode(j)
    <3>1. Steps(j)
      BY <2>4, CreateForTextSteps, ReadTextSteps, TextEndsSteps, ReadTextFailsSteps, StatSteps,
         MapToReadSteps, MapToReadFailsSteps, ReadImageSteps, ReadImageFailsSteps, DecodeSteps
    <3> QED
      BY <1>0, <3>1, StepsKeepInvariant
  <2> QED
    BY <1>2, <2>1, <2>2, <2>3, <2>4 DEF Works, Serializes, Deserializes, Fails
<1>3. ASSUME NEW j \in Job, StartSerialize(j) \/ StartDeserialize(j) \/ Forget(j) PROVE Invariant'
  <2>1. Steps(j)
    BY <1>3, StartsSteps, ForgetSteps
  <2> QED
    BY <1>0, <2>1, StepsKeepInvariant
<1> QED
  BY <1>1, <1>2, <1>3 DEF Next

\* Every call is somewhere and holds what it may hold, for any bytes in the file
\* and in whatever pieces they are written and read; text never outgrows the
\* buffer of the writer.
THEOREM TypesHold == Spec => []TypeOK
<1>1. Invariant => TypeOK
  <2> SUFFICES ASSUME Invariant PROVE TypeOK
    OBVIOUS
  <2>1. /\ open = Held \cup leaked /\ leaked \subseteq Descriptor
        /\ \A j \in Job : Typed(job[j]) /\ Placed(job[j])
        /\ total \in Int /\ external \in Int /\ pending \in [Job -> Int] /\ drift \in Nat
        /\ calls \in 0 .. MaxCalls /\ crashed \in BOOLEAN
    BY DEF Invariant, Closed, DescriptorsClosed, Calls, Accounted
  <2>2. Held \subseteq Descriptor
    BY <2>1 DEF Held, Typed
  <2>3. ASSUME NEW j \in Job
        PROVE  /\ job[j].at \in Places /\ job[j].fd \in Descriptor \cup {None} /\ job[j].parse \in Parsing
               /\ job[j].at = "append" => Len(job[j].buf) <= BUFFER_SIZE
               /\ job[j].roaring # None => job[j].roaring.values \subseteq 0 .. UINT32_MAX
    BY <2>1 DEF Typed, Placed, Made
  <2>4. {total, external} \cup {pending[j] : j \in Job} \subseteq Int
    BY <2>1
  <2> QED
    BY <2>1, <2>2, <2>3, <2>4 DEF TypeOK
<1> QED
  BY <1>1, InitInvariant, NextInvariant, PTL DEF Spec

\* The counter of allocated bytes is what is allocated, but for the frozen
\* results that were collected; what V8 was told and what the workers keep for
\* it add up to the same, whatever fails and however calls overlap.
THEOREM MemoryIsAccounted == Spec => []MemoryAccounted
<1>1. Invariant => MemoryAccounted
  BY DEF Invariant, Accounted
<1> QED
  BY <1>1, InitInvariant, NextInvariant, PTL DEF Spec

\* No bitmap points into bytes that are gone, and the process only ends inside a
\* mapping when another call changed the file.
THEOREM BytesStay == Spec => []BytesAreThere
<1>1. Invariant => BytesAreThere
  <2> SUFFICES ASSUME Invariant PROVE BytesAreThere
    OBVIOUS
  <2>1. ASSUME NEW j \in Job, job[j].roaring # None
        PROVE  /\ job[j].roaring.in \in {"memory", "frozenBuffer"}
               /\ job[j].roaring.in = "frozenBuffer" => job[j].frozenBuffer
    BY <2>1, HasDescriptor DEF Typed, Placed, Made
  <2>2. crashed => \E j \in Job : job[j].mapped /\ ~job[j].alone
    BY DEF Invariant, Calls
  <2> QED
    BY <2>1, <2>2 DEF BytesAreThere
<1> QED
  BY <1>1, InitInvariant, NextInvariant, PTL DEF Spec

-----------------------------------------------------------------------------
(* What a call has written, or read, when it is at a place; of the file it  *)
(* knows as long as no other call changes it.                               *)

Progress(r, f, m) ==
  LET items == ToAppend(r.values, r.format) IN
  /\ m \in 0 .. Len(items)
  /\ Len(r.todo) = Len(items) - m /\ \A i \in 1 .. Len(r.todo) : r.todo[i] = items[m + i]
  /\ r.pos = Len(f) /\ f \o r.buf = Appended(r.values, r.format, m)
  /\ m <= Len(Opening(r.format)) + Cardinality(r.values)
        => (r.separate <=> m > Len(Opening(r.format)))

Finished == {"close", "workDone", "settled"}

WriterKnows(r, f) ==
  /\ r.at = "buffer" => f = <<>> /\ r.pos = 0 /\ ~r.separate
  /\ r.at = "append" => \E m : Progress(r, f, m)
  /\ r.at \in {"mapToWrite", "fill", "write"} => Len(f) = r.size
  /\ r.at = "write" => r.buf = Image[r.values][r.format]
  /\ r.at \in Finished => f = Written(r.values, r.format)
Writes(r, f) ==
  /\ r.size = Len(Written(r.values, r.format))
  /\ r.at = "open" => r.pos = 0 /\ ~r.separate
  /\ r.at \notin Finished /\ r.cut => r.format \in TextFormat
  /\ r.ok /\ r.alone /\ ~r.cut => WriterKnows(r, f)

Loaded(r, f) ==
  /\ f \in Seq(Byte)
  /\ r.format \in TextFormat => r.roaring.values = Taken(Parse(ParseInit, f)) /\ ~r.frozenBuffer
  /\ r.format \in BinaryFormat /\ f = <<>> => r.roaring.values = {} /\ ~r.frozenBuffer
  /\ r.format \in BinaryFormat /\ f # <<>> =>
        /\ r.roaring.values \in Decoded(f, r.format)
        /\ r.frozenBuffer <=> r.format = "unsafe_frozen_croaring"
ReaderKnows(r, f) ==
  /\ r.at = "readText" => r.pos <= Len(f) /\ r.parse = Parse(ParseInit, SubSeq(f, 1, r.pos))
  /\ r.at \in {"mapToRead", "readImage", "decode"} => r.size = Len(f) /\ f # <<>>
  /\ r.at = "decode" /\ ~r.mapped => r.buf = f
  /\ r.at \in Finished => Loaded(r, f)
ReadsOf(r, f) ==
  /\ r.at \in {"open", "create"} => r.pos = 0 /\ r.parse = ParseInit
  /\ r.at \notin Finished => ~r.frozenBuffer
  /\ r.ok /\ r.alone => ReaderKnows(r, f)

Tells(r, f) ==
  /\ r.at = "unused" => r = Unused
  /\ r.at # "unused" /\ r.op = "serializeFileAsync" => Writes(r, f)
  /\ r.at # "unused" /\ r.op \in Readers => ReadsOf(r, f)
Told == \A j \in Job : Tells(job[j], file)

\* The other calls of a step: they know no more of the file than before, and
\* nothing when it was written.
Stays(j) ==
  /\ DOMAIN job' = Job
  /\ \A k \in Job \ {j} :
       \/ job'[k] = job[k] /\ (file' = file \/ job[k].at \in {"unused", "open"})
       \/ job'[k] = [job[k] EXCEPT !.alone = FALSE] /\ job[k].at # "unused"

LEMMA EarlyTells ==
  ASSUME NEW r, NEW f, NEW g, Tells(r, f), r.at \in {"unused", "open"}
  PROVE  Tells(r, g)
  BY DEF Tells, Writes, ReadsOf, WriterKnows, ReaderKnows, Finished

LEMMA OvertakenTells ==
  ASSUME NEW r, NEW s, NEW f, NEW g, Typed(r), Tells(r, f), r.at # "unused", s = [r EXCEPT !.alone = FALSE]
  PROVE  Tells(s, g)
<1>1. /\ DOMAIN s = Fields /\ ~s.alone
      /\ s.at = r.at /\ s.op = r.op /\ s.format = r.format /\ s.values = r.values
      /\ s.pos = r.pos /\ s.size = r.size /\ s.separate = r.separate
      /\ s.parse = r.parse /\ s.frozenBuffer = r.frozenBuffer /\ s.cut = r.cut
  BY DEF Typed, Fields
<1>2. r.op = "serializeFileAsync" => Writes(s, g)
  BY <1>1 DEF Tells, Writes
<1>3. r.op \in Readers => ReadsOf(s, g)
  BY <1>1 DEF Tells, ReadsOf
<1> QED
  BY <1>1, <1>2, <1>3 DEF Tells

LEMMA ToldStep ==
  ASSUME Invariant, Told, NEW j \in Job, Stays(j), Tells(job'[j], file')
  PROVE  Told'
<1>1. ASSUME NEW k \in Job PROVE Tells(job'[k], file')
  <2>1. Typed(job[k]) /\ Tells(job[k], file)
    BY DEF Invariant, Calls, Told
  <2>2. CASE k = j
    BY <2>2
  <2>3. CASE k # j /\ job'[k] = job[k] /\ file' = file
    BY <2>1, <2>3
  <2>4. CASE k # j /\ job'[k] = job[k] /\ job[k].at \in {"unused", "open"}
    BY <2>1, <2>4, EarlyTells
  <2>5. CASE k # j /\ job'[k] = [job[k] EXCEPT !.alone = FALSE] /\ job[k].at # "unused"
    BY <2>1, <2>5, OvertakenTells
  <2> QED
    BY <2>2, <2>3, <2>4, <2>5 DEF Stays
<1> QED
  BY <1>1 DEF Told

LEMMA ToldByGoes ==
  ASSUME Invariant, Told, NEW j \in Job, NEW from, NEW s, Goes(j, from, s), UNCHANGED file, Tells(s, file)
  PROVE  Told'
<1>1. Stays(j) /\ job'[j] = s
  BY DEF Goes, Stays, Invariant, Calls
<1> QED
  BY <1>1, ToldStep

LEMMA ToldByWrites ==
  ASSUME Invariant, Told, NEW j \in Job, NEW from, NEW s, GoesAndWrites(j, from, s), Tells(s, file')
  PROVE  Told'
<1>1. /\ job' = [k \in Job |-> IF k = j THEN s
                               ELSE IF Opened(k) THEN [job[k] EXCEPT !.alone = FALSE] ELSE job[k]]
  BY DEF GoesAndWrites
<1>2. ASSUME NEW k \in Job
      PROVE  /\ Opened(k) => job[k].at # "unused"
             /\ ~Opened(k) => job[k].at \in {"unused", "open"}
  BY DEF Opened, Invariant, Closed, Idle
<1>3. \A k \in Job \ {j} : job'[k] = IF Opened(k) THEN [job[k] EXCEPT !.alone = FALSE] ELSE job[k]
  BY <1>1
<1>4. DOMAIN job' = Job /\ job'[j] = s
  BY <1>1
<1>5. Stays(j)
  BY <1>2, <1>3, <1>4 DEF Stays
<1> QED
  BY <1>4, <1>5, ToldStep

\* What is told of a call by what it does.
LEMMA WriterTells ==
  ASSUME NEW s, NEW f, s.op = "serializeFileAsync", s.at # "unused", Writes(s, f)
  PROVE  Tells(s, f)
  BY DEF Tells, Readers
LEMMA ReaderTells ==
  ASSUME NEW s, NEW f, s.op \in Readers, s.at # "unused", ReadsOf(s, f)
  PROVE  Tells(s, f)
  BY DEF Tells, Readers

LEMMA FailedTells ==
  ASSUME NEW r, NEW s, NEW f, NEW g, Tells(r, f), r.at # "unused", ~s.ok, s.at \in Finished,
         s.op = r.op, s.format = r.format, s.values = r.values, s.size = r.size
  PROVE  Tells(s, g)
<1>1. s.at # "unused" /\ s.at # "open" /\ s.at # "create"
  BY DEF Finished
<1>2. r.op = "serializeFileAsync" => Writes(s, g)
  BY <1>1 DEF Tells, Writes
<1>3. r.op \in Readers => ReadsOf(s, g)
  BY <1>1 DEF Tells, ReadsOf
<1> QED
  BY <1>1, <1>2, <1>3 DEF Tells

LEMMA ToldOf ==
  ASSUME Invariant, Told, NEW j \in Job
  PROVE  /\ Typed(job[j]) /\ Placed(job[j]) /\ DOMAIN job[j] = Fields /\ Tells(job[j], file)
         /\ job[j].at \notin Idle => file \in Seq(Byte)
  BY HasDescriptor DEF Told
LEMMA OpenFailsTold ==
  ASSUME Invariant, Told, NEW j \in Job, OpenFails(j)
  PROVE  Told'
<1> DEFINE r == job[j]
<1>0. /\ Typed(r) /\ Placed(r) /\ DOMAIN r = Fields /\ Tells(r, file)
      /\ r.at \notin Idle => file \in Seq(Byte)
  BY ToldOf
<1> DEFINE s == [r EXCEPT !.at = "workDone", !.ok = FALSE]
<1>1. Goes(j, "open", s) /\ UNCHANGED file
  BY DEF OpenFails, Failed
<1>2. r.at = "open"
  BY <1>1 DEF Goes
<1>3. Elsewhere(r, s, {"at", "ok"}) /\ s.at = "workDone" /\ s.ok = FALSE
  BY <1>0 DEF Elsewhere, Fields
<1> HIDE DEF s
<1>4. /\ s.op = r.op /\ s.format = r.format /\ s.values = r.values /\ s.fd = r.fd /\ s.pos = r.pos /\ s.size = r.size /\ s.buf = r.buf /\ s.todo = r.todo
     /\ s.separate = r.separate /\ s.parse = r.parse /\ s.mapped = r.mapped /\ s.roaring = r.roaring /\ s.frozenBuffer = r.frozenBuffer /\ s.cut = r.cut /\ s.alone = r.alone
  BY <1>3 DEF Elsewhere, Fields
<1>5. ~s.ok /\ r.at # "unused" /\ s.at \in Finished
  BY <1>2, <1>3 DEF Finished
<1>9. Tells(s, file)
  BY <1>0, <1>4, <1>5, FailedTells
<1> QED
  BY <1>1, <1>9, ToldByGoes

LEMMA FlushFailsTold ==
  ASSUME Invariant, Told, NEW j \in Job, FlushFails(j)
  PROVE  Told'
<1> DEFINE r == job[j]
<1>0. /\ Typed(r) /\ Placed(r) /\ DOMAIN r = Fields /\ Tells(r, file)
      /\ r.at \notin Idle => file \in Seq(Byte)
  BY ToldOf
<1> DEFINE s == [r EXCEPT !.at = "close", !.ok = FALSE, !.buf = None, !.todo = <<>>]
<1>1. Goes(j, "append", s) /\ UNCHANGED file
  BY DEF FlushFails, Failed
<1>2. r.at = "append"
  BY <1>1 DEF Goes
<1>3. Elsewhere(r, s, {"at", "ok", "buf", "todo"}) /\ s.at = "close" /\ s.ok = FALSE /\ s.buf = None /\ s.todo = <<>>
  BY <1>0 DEF Elsewhere, Fields
<1> HIDE DEF s
<1>4. /\ s.op = r.op /\ s.format = r.format /\ s.values = r.values /\ s.fd = r.fd /\ s.pos = r.pos /\ s.size = r.size /\ s.separate = r.separate
     /\ s.parse = r.parse /\ s.mapped = r.mapped /\ s.roaring = r.roaring /\ s.frozenBuffer = r.frozenBuffer /\ s.cut = r.cut /\ s.alone = r.alone
  BY <1>3 DEF Elsewhere, Fields
<1>5. ~s.ok /\ r.at # "unused" /\ s.at \in Finished
  BY <1>2, <1>3 DEF Finished
<1>9. Tells(s, file)
  BY <1>0, <1>4, <1>5, FailedTells
<1> QED
  BY <1>1, <1>9, ToldByGoes

LEMMA TruncateFailsTold ==
  ASSUME Invariant, Told, NEW j \in Job, TruncateFails(j)
  PROVE  Told'
<1> DEFINE r == job[j]
<1>0. /\ Typed(r) /\ Placed(r) /\ DOMAIN r = Fields /\ Tells(r, file)
      /\ r.at \notin Idle => file \in Seq(Byte)
  BY ToldOf
<1> DEFINE s == [r EXCEPT !.at = "close", !.ok = FALSE]
<1>1. Goes(j, "ftruncate", s) /\ UNCHANGED file
  BY DEF TruncateFails, Failed
<1>2. r.at = "ftruncate"
  BY <1>1 DEF Goes
<1>3. Elsewhere(r, s, {"at", "ok"}) /\ s.at = "close" /\ s.ok = FALSE
  BY <1>0 DEF Elsewhere, Fields
<1> HIDE DEF s
<1>4. /\ s.op = r.op /\ s.format = r.format /\ s.values = r.values /\ s.fd = r.fd /\ s.pos = r.pos /\ s.size = r.size /\ s.buf = r.buf /\ s.todo = r.todo
     /\ s.separate = r.separate /\ s.parse = r.parse /\ s.mapped = r.mapped /\ s.roaring = r.roaring /\ s.frozenBuffer = r.frozenBuffer /\ s.cut = r.cut /\ s.alone = r.alone
  BY <1>3 DEF Elsewhere, Fields
<1>5. ~s.ok /\ r.at # "unused" /\ s.at \in Finished
  BY <1>2, <1>3 DEF Finished
<1>9. Tells(s, file)
  BY <1>0, <1>4, <1>5, FailedTells
<1> QED
  BY <1>1, <1>9, ToldByGoes

LEMMA WriteImageFailsTold ==
  ASSUME Invariant, Told, NEW j \in Job, WriteImageFails(j)
  PROVE  Told'
<1> DEFINE r == job[j]
<1>0. /\ Typed(r) /\ Placed(r) /\ DOMAIN r = Fields /\ Tells(r, file)
      /\ r.at \notin Idle => file \in Seq(Byte)
  BY ToldOf
<1> DEFINE s == [r EXCEPT !.at = "close", !.buf = None, !.ok = FALSE]
<1>1. Goes(j, "write", s) /\ UNCHANGED file
  BY DEF WriteImageFails, Failed
<1>2. r.at = "write"
  BY <1>1 DEF Goes
<1>3. Elsewhere(r, s, {"at", "buf", "ok"}) /\ s.at = "close" /\ s.buf = None /\ s.ok = FALSE
  BY <1>0 DEF Elsewhere, Fields
<1> HIDE DEF s
<1>4. /\ s.op = r.op /\ s.format = r.format /\ s.values = r.values /\ s.fd = r.fd /\ s.pos = r.pos /\ s.size = r.size /\ s.todo = r.todo
     /\ s.separate = r.separate /\ s.parse = r.parse /\ s.mapped = r.mapped /\ s.roaring = r.roaring /\ s.frozenBuffer = r.frozenBuffer /\ s.cut = r.cut /\ s.alone = r.alone
  BY <1>3 DEF Elsewhere, Fields
<1>5. ~s.ok /\ r.at # "unused" /\ s.at \in Finished
  BY <1>2, <1>3 DEF Finished
<1>9. Tells(s, file)
  BY <1>0, <1>4, <1>5, FailedTells
<1> QED
  BY <1>1, <1>9, ToldByGoes

LEMMA ReadTextFailsTold ==
  ASSUME Invariant, Told, NEW j \in Job, ReadTextFails(j)
  PROVE  Told'
<1> DEFINE r == job[j]
<1>0. /\ Typed(r) /\ Placed(r) /\ DOMAIN r = Fields /\ Tells(r, file)
      /\ r.at \notin Idle => file \in Seq(Byte)
  BY ToldOf
<1> DEFINE s == [r EXCEPT !.at = "close", !.ok = FALSE, !.buf = None]
<1>1. Goes(j, "readText", s) /\ UNCHANGED file
  BY DEF ReadTextFails, Failed
<1>2. r.at = "readText"
  BY <1>1 DEF Goes
<1>3. Elsewhere(r, s, {"at", "ok", "buf"}) /\ s.at = "close" /\ s.ok = FALSE /\ s.buf = None
  BY <1>0 DEF Elsewhere, Fields
<1> HIDE DEF s
<1>4. /\ s.op = r.op /\ s.format = r.format /\ s.values = r.values /\ s.fd = r.fd /\ s.pos = r.pos /\ s.size = r.size /\ s.todo = r.todo
     /\ s.separate = r.separate /\ s.parse = r.parse /\ s.mapped = r.mapped /\ s.roaring = r.roaring /\ s.frozenBuffer = r.frozenBuffer /\ s.cut = r.cut /\ s.alone = r.alone
  BY <1>3 DEF Elsewhere, Fields
<1>5. ~s.ok /\ r.at # "unused" /\ s.at \in Finished
  BY <1>2, <1>3 DEF Finished
<1>9. Tells(s, file)
  BY <1>0, <1>4, <1>5, FailedTells
<1> QED
  BY <1>1, <1>9, ToldByGoes

LEMMA ReadImageFailsTold ==
  ASSUME Invariant, Told, NEW j \in Job, ReadImageFails(j)
  PROVE  Told'
<1> DEFINE r == job[j]
<1>0. /\ Typed(r) /\ Placed(r) /\ DOMAIN r = Fields /\ Tells(r, file)
      /\ r.at \notin Idle => file \in Seq(Byte)
  BY ToldOf
<1> DEFINE s == [r EXCEPT !.at = "close", !.ok = FALSE, !.buf = None]
<1>1. Goes(j, "readImage", s) /\ UNCHANGED file
  BY DEF ReadImageFails, Failed
<1>2. r.at = "readImage"
  BY <1>1 DEF Goes
<1>3. Elsewhere(r, s, {"at", "ok", "buf"}) /\ s.at = "close" /\ s.ok = FALSE /\ s.buf = None
  BY <1>0 DEF Elsewhere, Fields
<1> HIDE DEF s
<1>4. /\ s.op = r.op /\ s.format = r.format /\ s.values = r.values /\ s.fd = r.fd /\ s.pos = r.pos /\ s.size = r.size /\ s.todo = r.todo
     /\ s.separate = r.separate /\ s.parse = r.parse /\ s.mapped = r.mapped /\ s.roaring = r.roaring /\ s.frozenBuffer = r.frozenBuffer /\ s.cut = r.cut /\ s.alone = r.alone
  BY <1>3 DEF Elsewhere, Fields
<1>5. ~s.ok /\ r.at # "unused" /\ s.at \in Finished
  BY <1>2, <1>3 DEF Finished
<1>9. Tells(s, file)
  BY <1>0, <1>4, <1>5, FailedTells
<1> QED
  BY <1>1, <1>9, ToldByGoes

LEMMA MapToWriteTold ==
  ASSUME Invariant, Told, NEW j \in Job, MapToWrite(j)
  PROVE  Told'
<1> DEFINE r == job[j]
<1>0. /\ Typed(r) /\ Placed(r) /\ DOMAIN r = Fields /\ Tells(r, file)
      /\ r.at \notin Idle => file \in Seq(Byte)
  BY ToldOf
<1> DEFINE s == [r EXCEPT !.at = "fill", !.mapped = TRUE]
<1>1. Goes(j, "mapToWrite", s) /\ UNCHANGED file
  BY DEF MapToWrite
<1>2. r.at = "mapToWrite"
  BY <1>1 DEF Goes
<1>3. Elsewhere(r, s, {"at", "mapped"}) /\ s.at = "fill" /\ s.mapped = TRUE
  BY <1>0 DEF Elsewhere, Fields
<1> HIDE DEF s
<1>4. /\ s.op = r.op /\ s.format = r.format /\ s.values = r.values /\ s.fd = r.fd /\ s.pos = r.pos /\ s.size = r.size /\ s.buf = r.buf /\ s.todo = r.todo
     /\ s.separate = r.separate /\ s.parse = r.parse /\ s.roaring = r.roaring /\ s.frozenBuffer = r.frozenBuffer /\ s.ok = r.ok /\ s.cut = r.cut /\ s.alone = r.alone
  BY <1>3 DEF Elsewhere, Fields
<1>5. /\ r.op = "serializeFileAsync" /\ r.at # "unused" /\ Writes(r, file)
     /\ r.format \in BinaryFormat \cup TextFormat /\ r.values \in Contents
  BY <1>0, <1>2 DEF Placed, WriterPlaces, Tells
<1>8. Writes(s, file)
  BY <1>0, <1>2, <1>3, <1>4, <1>5 DEF Writes, WriterKnows, Finished
<1>9. Tells(s, file)
  BY <1>3, <1>4, <1>5, <1>8, WriterTells
<1> QED
  BY <1>1, <1>9, ToldByGoes

LEMMA MapToReadTold ==
  ASSUME Invariant, Told, NEW j \in Job, MapToRead(j)
  PROVE  Told'
<1> DEFINE r == job[j]
<1>0. /\ Typed(r) /\ Placed(r) /\ DOMAIN r = Fields /\ Tells(r, file)
      /\ r.at \notin Idle => file \in Seq(Byte)
  BY ToldOf
<1> DEFINE s == [r EXCEPT !.at = "decode", !.mapped = TRUE]
<1>1. Goes(j, "mapToRead", s) /\ UNCHANGED file
  BY DEF MapToRead
<1>2. r.at = "mapToRead"
  BY <1>1 DEF Goes
<1>3. Elsewhere(r, s, {"at", "mapped"}) /\ s.at = "decode" /\ s.mapped = TRUE
  BY <1>0 DEF Elsewhere, Fields
<1> HIDE DEF s
<1>4. /\ s.op = r.op /\ s.format = r.format /\ s.values = r.values /\ s.fd = r.fd /\ s.pos = r.pos /\ s.size = r.size /\ s.buf = r.buf /\ s.todo = r.todo
     /\ s.separate = r.separate /\ s.parse = r.parse /\ s.roaring = r.roaring /\ s.frozenBuffer = r.frozenBuffer /\ s.ok = r.ok /\ s.cut = r.cut /\ s.alone = r.alone
  BY <1>3 DEF Elsewhere, Fields
<1>5. /\ r.op \in Readers /\ r.at # "unused" /\ ReadsOf(r, file)
     /\ r.format \in BinaryFormat \cup TextFormat
  BY <1>0, <1>2 DEF Placed, ReaderPlaces, Tells
<1>8. ReadsOf(s, file)
  BY <1>0, <1>2, <1>3, <1>4, <1>5 DEF ReadsOf, ReaderKnows, Finished
<1>9. Tells(s, file)
  BY <1>2, <1>3, <1>4, <1>5, <1>8, ReaderTells
<1> QED
  BY <1>1, <1>9, ToldByGoes

LEMMA FillTold ==
  ASSUME Invariant, Told, NEW j \in Job, Fill(j)
  PROVE  Told'
<1> DEFINE r == job[j]
<1>0. /\ Typed(r) /\ Placed(r) /\ DOMAIN r = Fields /\ Tells(r, file)
      /\ r.at \notin Idle => file \in Seq(Byte)
  BY ToldOf
<1> DEFINE s == [r EXCEPT !.at = "close", !.mapped = FALSE]
<1>1. GoesAndWrites(j, "fill", s)
  BY DEF Fill
<1>2. r.at = "fill"
  BY <1>1 DEF GoesAndWrites
<1>3. Elsewhere(r, s, {"at", "mapped"}) /\ s.at = "close" /\ s.mapped = FALSE
  BY <1>0 DEF Elsewhere, Fields
<1> HIDE DEF s
<1>4. /\ s.op = r.op /\ s.format = r.format /\ s.values = r.values /\ s.fd = r.fd /\ s.pos = r.pos /\ s.size = r.size /\ s.buf = r.buf /\ s.todo = r.todo
     /\ s.separate = r.separate /\ s.parse = r.parse /\ s.roaring = r.roaring /\ s.frozenBuffer = r.frozenBuffer /\ s.ok = r.ok /\ s.cut = r.cut /\ s.alone = r.alone
  BY <1>3 DEF Elsewhere, Fields
<1>5. /\ r.op = "serializeFileAsync" /\ r.at # "unused" /\ Writes(r, file)
     /\ r.format \in BinaryFormat \cup TextFormat /\ r.values \in Contents
  BY <1>0, <1>2 DEF Placed, WriterPlaces, Tells
<1>6. r.format \in BinaryFormat /\ file \in Seq(Byte) /\ Image[r.values][r.format] \in Seq(Byte)
  <2>1. r.format \in BinaryFormat
    BY <1>0, <1>2 DEF Placed, ImagePlaces, WriterPlaces, TextPlaces
  <2> QED
    BY <1>0, <1>2, <1>5, <2>1, Idles, ImageType
<1>7. Len(file) = r.size => file' = Written(r.values, r.format)
  <2>1. Written(r.values, r.format) = Image[r.values][r.format] /\ r.size = Len(Written(r.values, r.format))
    BY <1>5, <1>6 DEF Written, Writes, BinaryFormat, TextFormat
  <2>2. file' = WrittenAt(file, 0, Image[r.values][r.format])
    BY DEF Fill
  <2> QED
    BY <1>6, <2>1, <2>2, WrittenOver
<1>8. Writes(s, file')
  BY <1>0, <1>2, <1>3, <1>4, <1>5, <1>7 DEF Writes, WriterKnows, Finished
<1>9. Tells(s, file')
  BY <1>3, <1>4, <1>5, <1>8, WriterTells
<1> QED
  BY <1>1, <1>9, ToldByWrites

LEMMA TextWrittenTold ==
  ASSUME Invariant, Told, NEW j \in Job, TextWritten(j)
  PROVE  Told'
<1> DEFINE r == job[j]
<1>0. /\ Typed(r) /\ Placed(r) /\ DOMAIN r = Fields /\ Tells(r, file)
      /\ r.at \notin Idle => file \in Seq(Byte)
  BY ToldOf
<1> DEFINE s == [r EXCEPT !.at = "close", !.buf = None]
<1>1. Goes(j, "append", s) /\ UNCHANGED file
  BY DEF TextWritten
<1>2. r.at = "append"
  BY <1>1 DEF Goes
<1>3. Elsewhere(r, s, {"at", "buf"}) /\ s.at = "close" /\ s.buf = None
  BY <1>0 DEF Elsewhere, Fields
<1> HIDE DEF s
<1>4. /\ s.op = r.op /\ s.format = r.format /\ s.values = r.values /\ s.fd = r.fd /\ s.pos = r.pos /\ s.size = r.size /\ s.todo = r.todo /\ s.separate = r.separate
     /\ s.parse = r.parse /\ s.mapped = r.mapped /\ s.roaring = r.roaring /\ s.frozenBuffer = r.frozenBuffer /\ s.ok = r.ok /\ s.cut = r.cut /\ s.alone = r.alone
  BY <1>3 DEF Elsewhere, Fields
<1>5. /\ r.op = "serializeFileAsync" /\ r.at # "unused" /\ Writes(r, file)
     /\ r.format \in BinaryFormat \cup TextFormat /\ r.values \in Contents
  BY <1>0, <1>2 DEF Placed, WriterPlaces, Tells
<1>6. r.format \in TextFormat /\ file \in Seq(Byte) /\ r.buf = <<>> /\ r.todo = <<>>
  BY <1>0, <1>2, Idles DEF Placed, TextPlaces, TextWritten
<1>7. ASSUME NEW m, Progress(r, file, m) PROVE file = Written(r.values, r.format)
  <2> DEFINE n == Len(ToAppend(r.values, r.format))
  <2>1. n \in Nat
    BY <1>5, <1>6, ToAppendType
  <2>2. m \in 0 .. n /\ 0 = n - m /\ file \o <<>> = Appended(r.values, r.format, m)
    BY <1>6, <1>7 DEF Progress
  <2> HIDE DEF n
  <2>3. m = n
    BY <2>1, <2>2
  <2>4. file = Appended(r.values, r.format, n)
    BY <1>6, <2>2, <2>3
  <2> QED
    BY <1>5, <1>6, <2>4, AppendedEnds DEF Written, n
<1>8. Writes(s, file)
  BY <1>0, <1>2, <1>3, <1>4, <1>5, <1>7 DEF Writes, WriterKnows, Finished
<1>9. Tells(s, file)
  BY <1>3, <1>4, <1>5, <1>8, WriterTells
<1> QED
  BY <1>1, <1>9, ToldByGoes

LEMMA AppendItemTold ==
  ASSUME Invariant, Told, NEW j \in Job, AppendItem(j)
  PROVE  Told'
<1> DEFINE r == job[j]
<1>0. /\ Typed(r) /\ Placed(r) /\ DOMAIN r = Fields /\ Tells(r, file)
      /\ r.at \notin Idle => file \in Seq(Byte)
  BY ToldOf
<1> DEFINE item == Head(r.todo)
<1> DEFINE s == [r EXCEPT !.buf = r.buf \o Characters(j, item), !.todo = Tail(r.todo), !.separate = (r.separate \/ item.kind = "value")]
<1>1. Goes(j, "append", s) /\ UNCHANGED file
  BY DEF AppendItem
<1>2. r.at = "append"
  BY <1>1 DEF Goes
<1>3. Elsewhere(r, s, {"buf", "todo", "separate"}) /\ s.buf = r.buf \o Characters(j, item) /\ s.todo = Tail(r.todo) /\ s.separate = (r.separate \/ item.kind = "value")
  BY <1>0 DEF Elsewhere, Fields
<1> HIDE DEF s
<1>4. /\ s.at = r.at /\ s.op = r.op /\ s.format = r.format /\ s.values = r.values /\ s.fd = r.fd /\ s.pos = r.pos /\ s.size = r.size
     /\ s.parse = r.parse /\ s.mapped = r.mapped /\ s.roaring = r.roaring /\ s.frozenBuffer = r.frozenBuffer /\ s.ok = r.ok /\ s.cut = r.cut /\ s.alone = r.alone
  BY <1>3 DEF Elsewhere, Fields
<1>5. /\ r.op = "serializeFileAsync" /\ r.at # "unused" /\ Writes(r, file)
     /\ r.format \in BinaryFormat \cup TextFormat /\ r.values \in Contents
  BY <1>0, <1>2 DEF Placed, WriterPlaces, Tells
<1>6. /\ r.format \in TextFormat /\ file \in Seq(Byte) /\ r.buf \in Seq(Byte) /\ r.todo \in Seq(Item) /\ r.todo # <<>>
     /\ item.kind \in {"char", "value"} /\ Characters(j, item) \in Seq(Byte)
  <2>1. r.format \in TextFormat /\ file \in Seq(Byte) /\ r.buf \in Seq(Byte) /\ r.todo \in Seq(Item) /\ r.todo # <<>>
    BY <1>0, <1>2, Idles, NoneIsApart DEF Placed, TextPlaces, AppendItem, Typed
  <2>2. item \in Item
    BY <2>1
  <2>3. item.kind \in {"char", "value"}
    BY <2>2 DEF Item
  <2>4. Characters(j, item) \in Seq(Byte)
    BY <2>1, <2>2, CharactersFit
  <2> QED
    BY <2>1, <2>3, <2>4
<1>7. ASSUME NEW m, Progress(r, file, m) PROVE Progress(s, file, m + 1)
  <2> DEFINE items == ToAppend(r.values, r.format)
             n == Len(items)
             o == Len(Opening(r.format))
             c == Cardinality(r.values)
             A(i) == Appended(r.values, r.format, i)
             t == r.todo
             chars == Characters(j, item)
  <2>1. n \in Nat /\ o \in Nat /\ c \in Nat
    BY <1>5, <1>6, ToAppendType, EndsAreShort, ContentsAreFinite
  <2>2. /\ m \in 0 .. n /\ Len(t) = n - m /\ (\A i \in 1 .. Len(t) : t[i] = items[m + i])
        /\ r.pos = Len(file) /\ file \o r.buf = A(m)
        /\ (m <= o + c => (r.separate <=> m > o))
    BY <1>7 DEF Progress
  <2>3. item = t[1] /\ Len(t) \in Nat /\ Len(t) >= 1 /\ t \in Seq(Item)
    BY <1>6
  <2> HIDE DEF n, t
  <2>4. m \in 0 .. n - 1 /\ item = items[m + 1]
    BY <2>1, <2>2, <2>3
  <2> HIDE DEF items, item
  <2>5. /\ item.kind = "char" => A(m + 1) = A(m) \o <<item.of>>
        /\ item.kind # "char" =>
             /\ m <= o + c
             /\ A(m + 1) = A(m) \o ((IF m > o THEN <<Separator(r.format)>> ELSE <<>>) \o Decimal[item.of])
        /\ m + 1 <= o + c => (item.kind = "value" <=> m + 1 > o)
    <3>1. AppendedBy(r.values, r.format, m, items[m + 1])
      BY <1>5, <1>6, <2>4, AppendedNext DEF items, n
    <3> QED
      BY <2>4, <3>1 DEF AppendedBy
  <2> HIDE DEF A, o, c
  <2>6. A(m + 1) = A(m) \o chars
    <3>1. CASE item.kind = "char"
      BY <2>5, <3>1 DEF Characters
    <3>2. CASE item.kind # "char"
      BY <2>2, <2>5, <3>2 DEF Characters
    <3> QED
      BY <3>1, <3>2
  <2> HIDE DEF chars
  <2>7. file \o s.buf = A(m + 1)
    <3>1. file \in Seq(Byte) /\ r.buf \in Seq(Byte) /\ chars \in Seq(Byte)
      BY <1>6 DEF chars
    <3>2. s.buf = r.buf \o chars
      BY <1>3 DEF chars
    <3> DEFINE p == r.buf
    <3> HIDE DEF p
    <3>3. (file \o p) \o chars = file \o (p \o chars)
      <4>1. p \in Seq(Byte)
        BY <3>1 DEF p
      <4> QED
        BY ONLY <3>1, <4>1, ConcatAssociative
    <3> QED
      BY <2>2, <2>6, <3>2, <3>3 DEF p
  <2>8. Len(s.todo) = n - (m + 1) /\ \A i \in 1 .. Len(s.todo) : s.todo[i] = items[(m + 1) + i]
    <3> DEFINE u == Tail(t)
    <3>1. Len(u) = Len(t) - 1 /\ \A i \in 1 .. Len(u) : u[i] = t[i + 1] /\ i + 1 \in 1 .. Len(t)
      BY <2>3
    <3> HIDE DEF u
    <3>2. \A i \in 1 .. Len(u) : u[i] = items[m + (i + 1)]
      BY <2>2, <3>1
    <3>3. \A i \in Nat : m + (i + 1) = (m + 1) + i
      BY <2>4, <2>1
    <3>4. Len(u) \in Nat
      BY <2>3, <3>1
    <3>6. Len(u) = n - (m + 1)
      BY <2>1, <2>2, <2>3, <2>4, <3>1
    <3>7. \A i \in 1 .. Len(u) : u[i] = items[(m + 1) + i]
      <4> TAKE i \in 1 .. Len(u)
      <4>1. i \in Nat
        BY <3>4
      <4>2. u[i] = items[m + (i + 1)] /\ m + (i + 1) = (m + 1) + i
        BY <3>2, <3>3, <4>1
      <4> QED
        BY <4>2
    <3>5. Len(u) = n - (m + 1) /\ \A i \in 1 .. Len(u) : u[i] = items[(m + 1) + i]
      BY <3>6, <3>7
    <3> QED
      BY <1>3, <3>5 DEF u, t
  <2>9. m + 1 <= o + c => (s.separate <=> m + 1 > o)
    <3>1. s.separate <=> (r.separate \/ item.kind = "value")
      BY <1>3
    <3>2. m \in Nat /\ (m + 1 <= o + c => m <= o + c) /\ (m > o => m + 1 > o)
      BY <2>1, <2>4
    <3> QED
      BY <2>2, <2>5, <3>1, <3>2
  <2>10. m + 1 \in 0 .. n /\ s.pos = Len(file)
    BY <2>1, <2>2, <2>4, <1>4
  <2> HIDE DEF s
  <2> QED
    BY <1>4, <2>7, <2>8, <2>9, <2>10 DEF Progress, items, n, A, o, c
<1>8. Writes(s, file)
  BY <1>0, <1>2, <1>3, <1>4, <1>5, <1>7 DEF Writes, WriterKnows, Finished
<1>9. Tells(s, file)
  BY <1>3, <1>4, <1>5, <1>8, WriterTells
<1> QED
  BY <1>1, <1>9, ToldByGoes

LEMMA FlushTold ==
  ASSUME Invariant, Told, NEW j \in Job, Flush(j)
  PROVE  Told'
<1> DEFINE r == job[j]
<1>0. /\ Typed(r) /\ Placed(r) /\ DOMAIN r = Fields /\ Tells(r, file)
      /\ r.at \notin Idle => file \in Seq(Byte)
  BY ToldOf
<1>n. PICK n : Flushes(j, n)
  BY FlushFlushes
<1>a. /\ n \in Takes(r.buf)
      /\ GoesAndWrites(j, "append", [r EXCEPT !.buf = <<>>, !.pos = r.pos + n, !.cut = (r.cut \/ n < Len(r.buf))])
      /\ file' = WrittenAt(file, r.pos, SubSeq(r.buf, 1, n))
  BY <1>n DEF Flushes
<1> DEFINE s == [r EXCEPT !.buf = <<>>, !.pos = r.pos + n, !.cut = (r.cut \/ n < Len(r.buf))]
<1>1. GoesAndWrites(j, "append", s)
  BY <1>a
<1>2. r.at = "append"
  BY <1>1 DEF GoesAndWrites
<1>3. Elsewhere(r, s, {"buf", "pos", "cut"}) /\ s.buf = <<>> /\ s.pos = r.pos + n /\ s.cut = (r.cut \/ n < Len(r.buf))
  BY <1>0 DEF Elsewhere, Fields
<1> HIDE DEF s
<1>4. /\ s.at = r.at /\ s.op = r.op /\ s.format = r.format /\ s.values = r.values /\ s.fd = r.fd /\ s.size = r.size /\ s.todo = r.todo
     /\ s.separate = r.separate /\ s.parse = r.parse /\ s.mapped = r.mapped /\ s.roaring = r.roaring /\ s.frozenBuffer = r.frozenBuffer /\ s.ok = r.ok /\ s.alone = r.alone
  BY <1>3 DEF Elsewhere, Fields
<1>5. /\ r.op = "serializeFileAsync" /\ r.at # "unused" /\ Writes(r, file)
     /\ r.format \in BinaryFormat \cup TextFormat /\ r.values \in Contents
  BY <1>0, <1>2 DEF Placed, WriterPlaces, Tells
<1>6. /\ r.format \in TextFormat /\ file \in Seq(Byte) /\ r.buf \in Seq(Byte) /\ n \in Nat /\ n <= Len(r.buf)
     /\ file' \in Seq(Byte)
  <2>1. r.format \in TextFormat /\ file \in Seq(Byte) /\ r.buf \in Seq(Byte) /\ r.pos \in Nat
    BY <1>0, <1>2, Idles, NoneIsApart DEF Placed, TextPlaces, Typed
  <2>2. n \in Nat /\ n <= Len(r.buf) /\ SubSeq(r.buf, 1, n) \in Seq(Byte)
    BY <1>a, <2>1, TakesPrefix
  <2> QED
    BY <1>a, <2>1, <2>2, WrittenAtType
<1>7. ASSUME NEW m, Progress(r, file, m), ~s.cut PROVE Progress(s, file', m)
  <2> DEFINE b == r.buf
  <2>0. ~(n < Len(b))
    BY Zenon, <1>3, <1>7
  <2>1. n = Len(b) /\ b \in Seq(Byte)
    BY <1>6, <2>0
  <2>2. SubSeq(b, 1, n) = b
    BY <2>1
  <2>3. /\ r.pos = Len(file) /\ file \o b = Appended(r.values, r.format, m)
    BY <1>7 DEF Progress
  <2> HIDE DEF b
  <2>4. file' = file \o b
    <3>1. file' = WrittenAt(file, r.pos, SubSeq(b, 1, n))
      BY <1>a DEF b
    <3> QED
      BY <1>6, <2>1, <2>2, <2>3, <3>1, WrittenAtEnd
  <2>5. Len(file') = Len(file) + Len(b) /\ (file \o b) \o <<>> = file \o b
    BY <1>6, <2>1, <2>4
  <2>6. s.pos = Len(file') /\ file' \o s.buf = Appended(s.values, s.format, m)
    BY <1>3, <1>4, <2>1, <2>3, <2>4, <2>5
  <2>7. s.values = r.values /\ s.format = r.format /\ s.todo = r.todo /\ s.separate = r.separate
    BY <1>4
  <2> HIDE DEF s
  <2> QED
    BY <1>7, <2>6, <2>7 DEF Progress
<1>e. ASSUME s.ok, s.alone, ~s.cut PROVE \E m : Progress(s, file', m)
  <2>1. ~r.cut
    BY Zenon, <1>3, <1>e
  <2>2. WriterKnows(r, file)
    BY <1>4, <1>5, <1>e, <2>1 DEF Writes
  <2>3. PICK m : Progress(r, file, m)
    BY <1>2, <2>2 DEF WriterKnows
  <2>4. Progress(s, file', m)
    BY <1>7, <1>e, <2>3
  <2> QED
    BY <2>4
<1>8. Writes(s, file')
  BY <1>0, <1>2, <1>3, <1>4, <1>5, <1>6, <1>e DEF Writes, WriterKnows, Finished
<1>9. Tells(s, file')
  BY <1>3, <1>4, <1>5, <1>8, WriterTells
<1> QED
  BY <1>1, <1>9, ToldByWrites

LEMMA MakeBufferTold ==
  ASSUME Invariant, Told, NEW j \in Job, MakeBuffer(j)
  PROVE  Told'
<1> DEFINE r == job[j]
<1>0. /\ Typed(r) /\ Placed(r) /\ DOMAIN r = Fields /\ Tells(r, file)
      /\ r.at \notin Idle => file \in Seq(Byte)
  BY ToldOf
<1>1. CASE Goes(j, "buffer", [r EXCEPT !.at = "append", !.buf = <<>>, !.todo = ToAppend(r.values, r.format)]) /\ UNCHANGED file
  <2> DEFINE s == [r EXCEPT !.at = "append", !.buf = <<>>, !.todo = ToAppend(r.values, r.format)]
  <2>1. Goes(j, "buffer", s) /\ UNCHANGED file
    BY <1>1
  <2>2. r.at = "buffer"
    BY <2>1 DEF Goes
  <2>3. Elsewhere(r, s, {"at", "buf", "todo"}) /\ s.at = "append" /\ s.buf = <<>> /\ s.todo = ToAppend(r.values, r.format)
    BY <1>0 DEF Elsewhere, Fields
  <2> HIDE DEF s
  <2>4. /\ s.op = r.op /\ s.format = r.format /\ s.values = r.values /\ s.fd = r.fd /\ s.pos = r.pos /\ s.size = r.size /\ s.separate = r.separate
       /\ s.parse = r.parse /\ s.mapped = r.mapped /\ s.roaring = r.roaring /\ s.frozenBuffer = r.frozenBuffer /\ s.ok = r.ok /\ s.cut = r.cut /\ s.alone = r.alone
    BY <2>3 DEF Elsewhere, Fields
  <2>5. /\ r.op = "serializeFileAsync" /\ r.at # "unused" /\ Writes(r, file)
       /\ r.format \in BinaryFormat \cup TextFormat /\ r.values \in Contents
    BY <1>0, <2>2 DEF Placed, WriterPlaces, Tells
  <2>6. r.format \in TextFormat
    BY <1>0, <2>2 DEF Placed, TextPlaces
  <2>7. file = <<>> /\ r.pos = 0 /\ ~r.separate => Progress(s, file, 0)
    <3> DEFINE items == ToAppend(r.values, r.format)
               n == Len(items)
    <3> SUFFICES ASSUME file = <<>>, r.pos = 0, ~r.separate PROVE Progress(s, file, 0)
      OBVIOUS
    <3>1. n \in Nat /\ Len(Opening(r.format)) \in Nat /\ <<>> \o <<>> = <<>> /\ Len(<<>>) = 0
      BY <2>5, <2>6, ToAppendType, EndsAreShort
    <3>2. Appended(r.values, r.format, 0) = <<>>
      BY <2>5, <2>6, AppendedEnds
    <3>3. s.pos = Len(file) /\ file \o s.buf = Appended(s.values, s.format, 0)
      BY <2>3, <2>4, <3>1, <3>2
    <3>4. Len(s.todo) = n - 0 /\ \A i \in 1 .. Len(s.todo) : s.todo[i] = items[0 + i]
      BY <2>3, <3>1
    <3>5. 0 \in 0 .. n /\ (0 <= Len(Opening(r.format)) + Cardinality(r.values) => (s.separate <=> 0 > Len(Opening(r.format))))
      BY <2>4, <3>1
    <3>6. s.values = r.values /\ s.format = r.format
      BY <2>4
    <3> HIDE DEF s, n, items
    <3>7. Progress(s, file, 0)
      BY <3>3, <3>4, <3>5, <3>6 DEF Progress, n, items
    <3> QED
      BY <3>7
  <2>8. Writes(s, file)
    BY <1>0, <2>2, <2>3, <2>4, <2>5, <2>7 DEF Writes, WriterKnows, Finished
  <2>9. Tells(s, file)
    BY <2>3, <2>4, <2>5, <2>8, WriterTells
  <2> QED
    BY <2>1, <2>9, ToldByGoes
<1>2. CASE Goes(j, "buffer", [r EXCEPT !.at = "close", !.cut = TRUE]) /\ UNCHANGED file
  <2> DEFINE s == [r EXCEPT !.at = "close", !.cut = TRUE]
  <2>1. Goes(j, "buffer", s) /\ UNCHANGED file
    BY <1>2
  <2>2. r.at = "buffer"
    BY <2>1 DEF Goes
  <2>3. Elsewhere(r, s, {"at", "cut"}) /\ s.at = "close" /\ s.cut = TRUE
    BY <1>0 DEF Elsewhere, Fields
  <2> HIDE DEF s
  <2>4. /\ s.op = r.op /\ s.format = r.format /\ s.values = r.values /\ s.fd = r.fd /\ s.pos = r.pos /\ s.size = r.size /\ s.buf = r.buf /\ s.todo = r.todo
       /\ s.separate = r.separate /\ s.parse = r.parse /\ s.mapped = r.mapped /\ s.roaring = r.roaring /\ s.frozenBuffer = r.frozenBuffer /\ s.ok = r.ok /\ s.alone = r.alone
    BY <2>3 DEF Elsewhere, Fields
  <2>5. /\ r.op = "serializeFileAsync" /\ r.at # "unused" /\ Writes(r, file)
       /\ r.format \in BinaryFormat \cup TextFormat /\ r.values \in Contents
    BY <1>0, <2>2 DEF Placed, WriterPlaces, Tells
  <2>8. Writes(s, file)
    BY <1>0, <2>2, <2>3, <2>4, <2>5 DEF Writes, WriterKnows, Finished
  <2>9. Tells(s, file)
    BY <2>3, <2>4, <2>5, <2>8, WriterTells
  <2> QED
    BY <2>1, <2>9, ToldByGoes
<1> QED
  BY <1>1, <1>2 DEF MakeBuffer

LEMMA TruncateTold ==
  ASSUME Invariant, Told, NEW j \in Job, Truncate(j)
  PROVE  Told'
<1> DEFINE r == job[j]
<1>0. /\ Typed(r) /\ Placed(r) /\ DOMAIN r = Fields /\ Tells(r, file)
      /\ r.at \notin Idle => file \in Seq(Byte)
  BY ToldOf
<1> DEFINE at == IF r.size = 0 THEN "close" ELSE "mapToWrite"
<1> DEFINE s == [r EXCEPT !.at = at]
<1>1. GoesAndWrites(j, "ftruncate", s)
  BY DEF Truncate
<1>2. r.at = "ftruncate"
  BY <1>1 DEF GoesAndWrites
<1>3. Elsewhere(r, s, {"at"}) /\ s.at = at
  BY <1>0 DEF Elsewhere, Fields
<1> HIDE DEF s
<1>4. /\ s.op = r.op /\ s.format = r.format /\ s.values = r.values /\ s.fd = r.fd /\ s.pos = r.pos /\ s.size = r.size /\ s.buf = r.buf /\ s.todo = r.todo
     /\ s.separate = r.separate /\ s.parse = r.parse /\ s.mapped = r.mapped /\ s.roaring = r.roaring /\ s.frozenBuffer = r.frozenBuffer /\ s.ok = r.ok /\ s.cut = r.cut /\ s.alone = r.alone
  BY <1>3 DEF Elsewhere, Fields
<1>5. /\ r.op = "serializeFileAsync" /\ r.at # "unused" /\ Writes(r, file)
     /\ r.format \in BinaryFormat \cup TextFormat /\ r.values \in Contents
  BY <1>0, <1>2 DEF Placed, WriterPlaces, Tells
<1>6. /\ r.format \in BinaryFormat /\ file \in Seq(Byte) /\ r.size \in Nat /\ Image[r.values][r.format] \in Seq(Byte)
     /\ Written(r.values, r.format) = Image[r.values][r.format]
  <2>1. r.format \in BinaryFormat
    BY <1>0, <1>2 DEF Placed, ImagePlaces, WriterPlaces, TextPlaces
  <2>2. file \in Seq(Byte) /\ r.size \in Nat
    BY <1>0, <1>2 DEF Idle, Typed
  <2> QED
    BY <1>5, <2>1, <2>2, ImageType DEF Written, BinaryFormat, TextFormat
<1>7. file' \in Seq(Byte) /\ Len(file') = r.size
  <2>1. file' = Resized(file, r.size)
    BY DEF Truncate
  <2> QED
    BY <1>6, <2>1, ResizedType
<1>e. r.size = 0 => file' = Written(r.values, r.format)
  <2>1. r.size = Len(Image[r.values][r.format])
    BY <1>5, <1>6 DEF Writes
  <2>2. \A t \in Seq(Byte) : Len(t) = 0 => t = <<>>
    OBVIOUS
  <2> QED
    BY <1>6, <1>7, <2>1, <2>2
<1>8. Writes(s, file')
  BY <1>0, <1>2, <1>3, <1>4, <1>5, <1>6, <1>7, <1>e DEF Writes, WriterKnows, Finished
<1>9. Tells(s, file')
  BY <1>3, <1>4, <1>5, <1>8, WriterTells
<1> QED
  BY <1>1, <1>9, ToldByWrites

LEMMA MapToWriteFailsTold ==
  ASSUME Invariant, Told, NEW j \in Job, MapToWriteFails(j)
  PROVE  Told'
<1> DEFINE r == job[j]
<1>0. /\ Typed(r) /\ Placed(r) /\ DOMAIN r = Fields /\ Tells(r, file)
      /\ r.at \notin Idle => file \in Seq(Byte)
  BY ToldOf
<1>1. CASE Goes(j, "mapToWrite", [r EXCEPT !.at = "write", !.buf = Image[r.values][r.format]]) /\ UNCHANGED file
  <2> DEFINE s == [r EXCEPT !.at = "write", !.buf = Image[r.values][r.format]]
  <2>1. Goes(j, "mapToWrite", s) /\ UNCHANGED file
    BY <1>1
  <2>2. r.at = "mapToWrite"
    BY <2>1 DEF Goes
  <2>3. Elsewhere(r, s, {"at", "buf"}) /\ s.at = "write" /\ s.buf = Image[r.values][r.format]
    BY <1>0 DEF Elsewhere, Fields
  <2> HIDE DEF s
  <2>4. /\ s.op = r.op /\ s.format = r.format /\ s.values = r.values /\ s.fd = r.fd /\ s.pos = r.pos /\ s.size = r.size /\ s.todo = r.todo /\ s.separate = r.separate
       /\ s.parse = r.parse /\ s.mapped = r.mapped /\ s.roaring = r.roaring /\ s.frozenBuffer = r.frozenBuffer /\ s.ok = r.ok /\ s.cut = r.cut /\ s.alone = r.alone
    BY <2>3 DEF Elsewhere, Fields
  <2>5. /\ r.op = "serializeFileAsync" /\ r.at # "unused" /\ Writes(r, file)
       /\ r.format \in BinaryFormat \cup TextFormat /\ r.values \in Contents
    BY <1>0, <2>2 DEF Placed, WriterPlaces, Tells
  <2>8. Writes(s, file)
    BY <1>0, <2>2, <2>3, <2>4, <2>5 DEF Writes, WriterKnows, Finished
  <2>9. Tells(s, file)
    BY <2>3, <2>4, <2>5, <2>8, WriterTells
  <2> QED
    BY <2>1, <2>9, ToldByGoes
<1>2. CASE Goes(j, "mapToWrite", [r EXCEPT !.at = "close", !.ok = FALSE]) /\ UNCHANGED file
  <2> DEFINE s == [r EXCEPT !.at = "close", !.ok = FALSE]
  <2>1. Goes(j, "mapToWrite", s) /\ UNCHANGED file
    BY <1>2
  <2>2. r.at = "mapToWrite"
    BY <2>1 DEF Goes
  <2>3. Elsewhere(r, s, {"at", "ok"}) /\ s.at = "close" /\ s.ok = FALSE
    BY <1>0 DEF Elsewhere, Fields
  <2> HIDE DEF s
  <2>4. /\ s.op = r.op /\ s.format = r.format /\ s.values = r.values /\ s.fd = r.fd /\ s.pos = r.pos /\ s.size = r.size /\ s.buf = r.buf /\ s.todo = r.todo
       /\ s.separate = r.separate /\ s.parse = r.parse /\ s.mapped = r.mapped /\ s.roaring = r.roaring /\ s.frozenBuffer = r.frozenBuffer /\ s.cut = r.cut /\ s.alone = r.alone
    BY <2>3 DEF Elsewhere, Fields
  <2>5. ~s.ok /\ r.at # "unused" /\ s.at \in Finished
    BY <2>2, <2>3 DEF Finished
  <2>9. Tells(s, file)
    BY <1>0, <2>4, <2>5, FailedTells
  <2> QED
    BY <2>1, <2>9, ToldByGoes
<1> QED
  BY <1>1, <1>2 DEF MapToWriteFails, Failed

LEMMA MapToReadFailsTold ==
  ASSUME Invariant, Told, NEW j \in Job, MapToReadFails(j)
  PROVE  Told'
<1> DEFINE r == job[j]
<1>0. /\ Typed(r) /\ Placed(r) /\ DOMAIN r = Fields /\ Tells(r, file)
      /\ r.at \notin Idle => file \in Seq(Byte)
  BY ToldOf
<1>1. CASE Goes(j, "mapToRead", [r EXCEPT !.at = "readImage", !.buf = <<>>]) /\ UNCHANGED file
  <2> DEFINE s == [r EXCEPT !.at = "readImage", !.buf = <<>>]
  <2>1. Goes(j, "mapToRead", s) /\ UNCHANGED file
    BY <1>1
  <2>2. r.at = "mapToRead"
    BY <2>1 DEF Goes
  <2>3. Elsewhere(r, s, {"at", "buf"}) /\ s.at = "readImage" /\ s.buf = <<>>
    BY <1>0 DEF Elsewhere, Fields
  <2> HIDE DEF s
  <2>4. /\ s.op = r.op /\ s.format = r.format /\ s.values = r.values /\ s.fd = r.fd /\ s.pos = r.pos /\ s.size = r.size /\ s.todo = r.todo /\ s.separate = r.separate
       /\ s.parse = r.parse /\ s.mapped = r.mapped /\ s.roaring = r.roaring /\ s.frozenBuffer = r.frozenBuffer /\ s.ok = r.ok /\ s.cut = r.cut /\ s.alone = r.alone
    BY <2>3 DEF Elsewhere, Fields
  <2>5. /\ r.op \in Readers /\ r.at # "unused" /\ ReadsOf(r, file)
       /\ r.format \in BinaryFormat \cup TextFormat
    BY <1>0, <2>2 DEF Placed, ReaderPlaces, Tells
  <2>8. ReadsOf(s, file)
    BY <1>0, <2>2, <2>3, <2>4, <2>5 DEF ReadsOf, ReaderKnows, Finished
  <2>9. Tells(s, file)
    BY <2>2, <2>3, <2>4, <2>5, <2>8, ReaderTells
  <2> QED
    BY <2>1, <2>9, ToldByGoes
<1>2. CASE Goes(j, "mapToRead", [r EXCEPT !.at = "close", !.ok = FALSE]) /\ UNCHANGED file
  <2> DEFINE s == [r EXCEPT !.at = "close", !.ok = FALSE]
  <2>1. Goes(j, "mapToRead", s) /\ UNCHANGED file
    BY <1>2
  <2>2. r.at = "mapToRead"
    BY <2>1 DEF Goes
  <2>3. Elsewhere(r, s, {"at", "ok"}) /\ s.at = "close" /\ s.ok = FALSE
    BY <1>0 DEF Elsewhere, Fields
  <2> HIDE DEF s
  <2>4. /\ s.op = r.op /\ s.format = r.format /\ s.values = r.values /\ s.fd = r.fd /\ s.pos = r.pos /\ s.size = r.size /\ s.buf = r.buf /\ s.todo = r.todo
       /\ s.separate = r.separate /\ s.parse = r.parse /\ s.mapped = r.mapped /\ s.roaring = r.roaring /\ s.frozenBuffer = r.frozenBuffer /\ s.cut = r.cut /\ s.alone = r.alone
    BY <2>3 DEF Elsewhere, Fields
  <2>5. ~s.ok /\ r.at # "unused" /\ s.at \in Finished
    BY <2>2, <2>3 DEF Finished
  <2>9. Tells(s, file)
    BY <1>0, <2>4, <2>5, FailedTells
  <2> QED
    BY <2>1, <2>9, ToldByGoes
<1> QED
  BY <1>1, <1>2 DEF MapToReadFails, Failed

LEMMA WriteImageTold ==
  ASSUME Invariant, Told, NEW j \in Job, WriteImage(j)
  PROVE  Told'
<1> DEFINE r == job[j]
<1>0. /\ Typed(r) /\ Placed(r) /\ DOMAIN r = Fields /\ Tells(r, file)
      /\ r.at \notin Idle => file \in Seq(Byte)
  BY ToldOf
<1>n. PICK n : WritesImage(j, n)
  BY WriteImageWrites
<1>a. /\ n \in Takes(r.buf)
      /\ GoesAndWrites(j, "write", [r EXCEPT !.at = "workDone", !.buf = None, !.fd = None, !.cut = (n < Len(r.buf))])
      /\ file' = WrittenAt(file, 0, SubSeq(r.buf, 1, n))
  BY <1>n DEF WritesImage
<1> DEFINE s == [r EXCEPT !.at = "workDone", !.buf = None, !.fd = None, !.cut = (n < Len(r.buf))]
<1>1. GoesAndWrites(j, "write", s)
  BY <1>a
<1>2. r.at = "write"
  BY <1>1 DEF GoesAndWrites
<1>3. Elsewhere(r, s, {"at", "buf", "fd", "cut"}) /\ s.at = "workDone" /\ s.buf = None /\ s.fd = None /\ s.cut = (n < Len(r.buf))
  BY <1>0 DEF Elsewhere, Fields
<1> HIDE DEF s
<1>4. /\ s.op = r.op /\ s.format = r.format /\ s.values = r.values /\ s.pos = r.pos /\ s.size = r.size /\ s.todo = r.todo /\ s.separate = r.separate
     /\ s.parse = r.parse /\ s.mapped = r.mapped /\ s.roaring = r.roaring /\ s.frozenBuffer = r.frozenBuffer /\ s.ok = r.ok /\ s.alone = r.alone
  BY <1>3 DEF Elsewhere, Fields
<1>5. /\ r.op = "serializeFileAsync" /\ r.at # "unused" /\ Writes(r, file)
     /\ r.format \in BinaryFormat \cup TextFormat /\ r.values \in Contents
  BY <1>0, <1>2 DEF Placed, WriterPlaces, Tells
<1>6. /\ r.format \in BinaryFormat /\ file \in Seq(Byte) /\ r.buf \in Seq(Byte) /\ n \in Nat /\ n <= Len(r.buf)
     /\ Written(r.values, r.format) = Image[r.values][r.format]
  <2>1. r.format \in BinaryFormat
    BY <1>0, <1>2 DEF Placed, ImagePlaces, WriterPlaces, TextPlaces
  <2>2. file \in Seq(Byte) /\ r.buf \in Seq(Byte)
    BY <1>0, <1>2, Idles, NoneIsApart DEF Placed, Typed
  <2>3. n \in Nat /\ n <= Len(r.buf)
    BY <1>a, <2>2, TakesPrefix
  <2> QED
    BY <1>5, <2>1, <2>2, <2>3 DEF Written, BinaryFormat, TextFormat
<1>7. ~r.cut
  <2>1. r.format \notin TextFormat
    BY <1>6 DEF BinaryFormat, TextFormat
  <2> QED
    BY <1>2, <1>5, <2>1 DEF Writes, Finished
<1>e. ASSUME ~s.cut, Len(file) = r.size, r.buf = Image[r.values][r.format]
    PROVE  file' = Written(r.values, r.format)
  <2> DEFINE b == r.buf
  <2>0. ~(n < Len(b))
    BY Zenon, <1>3, <1>e
  <2>1. n = Len(b) /\ b \in Seq(Byte) /\ Len(file) = Len(b) /\ b = Written(r.values, r.format)
    BY <1>5, <1>6, <1>e, <2>0 DEF Writes
  <2>2. SubSeq(b, 1, n) = b
    BY <2>1
  <2>3. file' = WrittenAt(file, 0, SubSeq(b, 1, n))
    BY <1>a
  <2> HIDE DEF b
  <2> QED
    <3>1. file' = WrittenAt(file, 0, b)
      BY <2>2, <2>3
    <3>2. WrittenAt(file, 0, b) = b
      BY <1>6, <2>1, WrittenOver
    <3> QED
      BY <2>1, <3>1, <3>2
<1>8. Writes(s, file')
  BY <1>0, <1>2, <1>3, <1>4, <1>5, <1>7, <1>e DEF Writes, WriterKnows, Finished
<1>9. Tells(s, file')
  BY <1>3, <1>4, <1>5, <1>8, WriterTells
<1> QED
  BY <1>1, <1>9, ToldByWrites

LEMMA CloseTold ==
  ASSUME Invariant, Told, NEW j \in Job, Close(j)
  PROVE  Told'
<1> DEFINE r == job[j]
<1>0. /\ Typed(r) /\ Placed(r) /\ DOMAIN r = Fields /\ Tells(r, file)
      /\ r.at \notin Idle => file \in Seq(Byte)
  BY ToldOf
<1> DEFINE s == [r EXCEPT !.at = "workDone", !.fd = None]
<1>1. Goes(j, "close", s) /\ UNCHANGED file
  BY DEF Close
<1>2. r.at = "close"
  BY <1>1 DEF Goes
<1>3. Elsewhere(r, s, {"at", "fd"}) /\ s.at = "workDone" /\ s.fd = None
  BY <1>0 DEF Elsewhere, Fields
<1> HIDE DEF s
<1>4. /\ s.op = r.op /\ s.format = r.format /\ s.values = r.values /\ s.pos = r.pos /\ s.size = r.size /\ s.buf = r.buf /\ s.todo = r.todo /\ s.separate = r.separate
     /\ s.parse = r.parse /\ s.mapped = r.mapped /\ s.roaring = r.roaring /\ s.frozenBuffer = r.frozenBuffer /\ s.ok = r.ok /\ s.cut = r.cut /\ s.alone = r.alone
  BY <1>3 DEF Elsewhere, Fields
<1>5. r.at # "unused" /\ r.op \in Readers \cup {"serializeFileAsync"} /\ r.at \in Finished /\ s.at \in Finished /\ s.at # "unused"
  BY <1>0, <1>2, <1>3 DEF Placed, Finished
<1>6. ASSUME r.op = "serializeFileAsync" PROVE Tells(s, file)
  <2>1. Writes(r, file)
    BY <1>0, <1>5, <1>6 DEF Tells
  <2>2. Writes(s, file)
    BY <1>3, <1>4, <1>5, <2>1 DEF Writes, WriterKnows, Finished
  <2> QED
    BY <1>4, <1>5, <1>6, <2>2, WriterTells
<1>7. ASSUME r.op \in Readers PROVE Tells(s, file)
  <2>1. ReadsOf(r, file)
    BY <1>0, <1>5, <1>7 DEF Tells
  <2>2. Loaded(r, file) => Loaded(s, file)
    BY <1>4 DEF Loaded
  <2>3. ReadsOf(s, file)
    BY <1>3, <1>4, <1>5, <2>1, <2>2 DEF ReadsOf, ReaderKnows, Finished
  <2> QED
    BY <1>4, <1>5, <1>7, <2>3, ReaderTells
<1>9. Tells(s, file)
  BY <1>5, <1>6, <1>7
<1> QED
  BY <1>1, <1>9, ToldByGoes

LEMMA SettleTold ==
  ASSUME Invariant, Told, NEW j \in Job, Settle(j)
  PROVE  Told'
<1> DEFINE r == job[j]
<1>0. /\ Typed(r) /\ Placed(r) /\ DOMAIN r = Fields /\ Tells(r, file)
      /\ r.at \notin Idle => file \in Seq(Byte)
  BY ToldOf
<1>a. PICK handed \in {TRUE, FALSE} : Settles(j, handed)
  BY SettleSettles
<1>1. CASE Goes(j, "workDone", [r EXCEPT !.at = "settled"]) /\ UNCHANGED file
  <2> DEFINE s == [r EXCEPT !.at = "settled"]
  <2>1. Goes(j, "workDone", s) /\ UNCHANGED file
    BY <1>1
  <2>2. r.at = "workDone"
    BY <2>1 DEF Goes
  <2>3. Elsewhere(r, s, {"at"}) /\ s.at = "settled"
    BY <1>0 DEF Elsewhere, Fields
  <2> HIDE DEF s
  <2>4. /\ s.op = r.op /\ s.format = r.format /\ s.values = r.values /\ s.fd = r.fd /\ s.pos = r.pos /\ s.size = r.size /\ s.buf = r.buf /\ s.todo = r.todo
       /\ s.separate = r.separate /\ s.parse = r.parse /\ s.mapped = r.mapped /\ s.roaring = r.roaring /\ s.frozenBuffer = r.frozenBuffer /\ s.ok = r.ok /\ s.cut = r.cut /\ s.alone = r.alone
    BY <2>3 DEF Elsewhere, Fields
  <2>5. r.at # "unused" /\ r.op \in Readers \cup {"serializeFileAsync"} /\ r.at \in Finished /\ s.at \in Finished /\ s.at # "unused"
    BY <1>0, <2>2, <2>3 DEF Placed, Finished
  <2>6. ASSUME r.op = "serializeFileAsync" PROVE Tells(s, file)
    <3>1. Writes(r, file)
      BY <1>0, <2>5, <2>6 DEF Tells
    <3>2. Writes(s, file)
      BY <2>3, <2>4, <2>5, <3>1 DEF Writes, WriterKnows, Finished
    <3> QED
      BY <2>4, <2>5, <2>6, <3>2, WriterTells
  <2>7. ASSUME r.op \in Readers PROVE Tells(s, file)
    <3>1. ReadsOf(r, file)
      BY <1>0, <2>5, <2>7 DEF Tells
    <3>2. Loaded(r, file) => Loaded(s, file)
      BY <2>4 DEF Loaded
    <3>3. ReadsOf(s, file)
      BY <2>3, <2>4, <2>5, <3>1, <3>2 DEF ReadsOf, ReaderKnows, Finished
    <3> QED
      BY <2>4, <2>5, <2>7, <3>3, ReaderTells
  <2>9. Tells(s, file)
    BY <2>5, <2>6, <2>7
  <2> QED
    BY <2>1, <2>9, ToldByGoes
<1>2. CASE Goes(j, "workDone", [r EXCEPT !.at = "settled", !.ok = FALSE, !.roaring = None, !.frozenBuffer = FALSE]) /\ UNCHANGED file
  <2> DEFINE s == [r EXCEPT !.at = "settled", !.ok = FALSE, !.roaring = None, !.frozenBuffer = FALSE]
  <2>1. Goes(j, "workDone", s) /\ UNCHANGED file
    BY <1>2
  <2>2. r.at = "workDone"
    BY <2>1 DEF Goes
  <2>3. Elsewhere(r, s, {"at", "ok", "roaring", "frozenBuffer"}) /\ s.at = "settled" /\ s.ok = FALSE /\ s.roaring = None /\ s.frozenBuffer = FALSE
    BY <1>0 DEF Elsewhere, Fields
  <2> HIDE DEF s
  <2>4. /\ s.op = r.op /\ s.format = r.format /\ s.values = r.values /\ s.fd = r.fd /\ s.pos = r.pos /\ s.size = r.size /\ s.buf = r.buf
       /\ s.todo = r.todo /\ s.separate = r.separate /\ s.parse = r.parse /\ s.mapped = r.mapped /\ s.cut = r.cut /\ s.alone = r.alone
    BY <2>3 DEF Elsewhere, Fields
  <2>5. ~s.ok /\ r.at # "unused" /\ s.at \in Finished
    BY <2>2, <2>3 DEF Finished
  <2>9. Tells(s, file)
    BY <1>0, <2>4, <2>5, FailedTells
  <2> QED
    BY <2>1, <2>9, ToldByGoes
<1> QED
  BY <1>a, <1>1, <1>2 DEF Settles

LEMMA StartSerializeTold ==
  ASSUME Invariant, Told, NEW j \in Job, StartSerialize(j)
  PROVE  Told'
<1> DEFINE r == job[j]
<1>0. /\ Typed(r) /\ Placed(r) /\ DOMAIN r = Fields /\ Tells(r, file)
      /\ r.at \notin Idle => file \in Seq(Byte)
  BY ToldOf
<1>a. PICK S \in Contents, format \in WriteFormats :
         Goes(j, "unused", [r EXCEPT !.at = "open", !.op = "serializeFileAsync", !.format = format,
                                     !.values = S, !.size = Len(Written(S, format))]) /\ UNCHANGED file
  BY Zenon DEF StartSerialize
<1>b. r = Unused
  BY <1>0 DEF StartSerialize, Starts, Tells
<1> DEFINE s == [r EXCEPT !.at = "open", !.op = "serializeFileAsync", !.format = format, !.values = S, !.size = Len(Written(S, format))]
<1>1. Goes(j, "unused", s) /\ UNCHANGED file
  BY <1>a
<1>2. r.at = "unused"
  BY <1>1 DEF Goes
<1>3. Elsewhere(r, s, {"at", "op", "format", "values", "size"}) /\ s.at = "open" /\ s.op = "serializeFileAsync" /\ s.format = format /\ s.values = S /\ s.size = Len(Written(S, format))
  BY <1>0 DEF Elsewhere, Fields
<1> HIDE DEF s
<1>4. /\ s.fd = r.fd /\ s.pos = r.pos /\ s.buf = r.buf /\ s.todo = r.todo /\ s.separate = r.separate /\ s.parse = r.parse
     /\ s.mapped = r.mapped /\ s.roaring = r.roaring /\ s.frozenBuffer = r.frozenBuffer /\ s.ok = r.ok /\ s.cut = r.cut /\ s.alone = r.alone
  BY <1>3 DEF Elsewhere, Fields
<1>5. s.pos = 0 /\ ~s.separate /\ ~s.cut
  BY <1>b, <1>4 DEF Unused
<1>6. Writes(s, file)
  BY <1>3, <1>5 DEF Writes, WriterKnows, Finished
<1>9. Tells(s, file)
  BY <1>3, <1>6, WriterTells
<1> QED
  BY <1>1, <1>9, ToldByGoes

LEMMA StartDeserializeTold ==
  ASSUME Invariant, Told, NEW j \in Job, StartDeserialize(j)
  PROVE  Told'
<1> DEFINE r == job[j]
<1>0. /\ Typed(r) /\ Placed(r) /\ DOMAIN r = Fields /\ Tells(r, file)
      /\ r.at \notin Idle => file \in Seq(Byte)
  BY ToldOf
<1>a. PICK op \in Readers, format \in ReadFormats :
         Goes(j, "unused", [r EXCEPT !.at = "open", !.op = op, !.format = format]) /\ UNCHANGED file
  BY Zenon DEF StartDeserialize
<1>b. r = Unused
  BY <1>0 DEF StartDeserialize, Starts, Tells
<1> DEFINE s == [r EXCEPT !.at = "open", !.op = op, !.format = format]
<1>1. Goes(j, "unused", s) /\ UNCHANGED file
  BY <1>a
<1>2. r.at = "unused"
  BY <1>1 DEF Goes
<1>3. Elsewhere(r, s, {"at", "op", "format"}) /\ s.at = "open" /\ s.op = op /\ s.format = format
  BY <1>0 DEF Elsewhere, Fields
<1> HIDE DEF s
<1>4. /\ s.values = r.values /\ s.fd = r.fd /\ s.pos = r.pos /\ s.size = r.size /\ s.buf = r.buf /\ s.todo = r.todo /\ s.separate = r.separate
     /\ s.parse = r.parse /\ s.mapped = r.mapped /\ s.roaring = r.roaring /\ s.frozenBuffer = r.frozenBuffer /\ s.ok = r.ok /\ s.cut = r.cut /\ s.alone = r.alone
  BY <1>3 DEF Elsewhere, Fields
<1>5. s.pos = 0 /\ s.parse = ParseInit /\ ~s.frozenBuffer
  BY <1>b, <1>4 DEF Unused
<1>6. ReadsOf(s, file)
  BY <1>3, <1>5 DEF ReadsOf, ReaderKnows, Finished
<1>9. Tells(s, file)
  BY <1>3, <1>6, ReaderTells
<1> QED
  BY <1>1, <1>9, ToldByGoes

LEMMA OpenToWriteTold ==
  ASSUME Invariant, Told, NEW j \in Job, OpenToWrite(j)
  PROVE  Told'
<1> DEFINE r == job[j]
<1>0. /\ Typed(r) /\ Placed(r) /\ DOMAIN r = Fields /\ Tells(r, file)
      /\ r.at \notin Idle => file \in Seq(Byte)
  BY ToldOf
<1>n. PICK fd, at, alone : OpensToWrite(j, fd, at, alone)
  BY OpenToWriteOpens
<1>a. /\ at \in {"buffer", "ftruncate"} /\ file' = <<>> /\ r.op = "serializeFileAsync"
      /\ GoesAndWrites(j, "open", [r EXCEPT !.at = at, !.fd = fd, !.alone = alone])
  BY <1>n DEF OpensToWrite
<1> DEFINE s == [r EXCEPT !.at = at, !.fd = fd, !.alone = alone]
<1>1. GoesAndWrites(j, "open", s)
  BY <1>a
<1>2. r.at = "open"
  BY <1>1 DEF GoesAndWrites
<1>3. Elsewhere(r, s, {"at", "fd", "alone"}) /\ s.at = at /\ s.fd = fd /\ s.alone = alone
  BY <1>0 DEF Elsewhere, Fields
<1> HIDE DEF s
<1>4. /\ s.op = r.op /\ s.format = r.format /\ s.values = r.values /\ s.pos = r.pos /\ s.size = r.size /\ s.buf = r.buf /\ s.todo = r.todo
     /\ s.separate = r.separate /\ s.parse = r.parse /\ s.mapped = r.mapped /\ s.roaring = r.roaring /\ s.frozenBuffer = r.frozenBuffer /\ s.ok = r.ok /\ s.cut = r.cut
  BY <1>3 DEF Elsewhere, Fields
<1>5. Writes(r, file)
  BY <1>0, <1>a, <1>2 DEF Tells
<1>6. Writes(s, file')
  BY <1>a, <1>2, <1>3, <1>4, <1>5 DEF Writes, WriterKnows, Finished
<1>9. Tells(s, file')
  BY <1>a, <1>3, <1>4, <1>6, WriterTells
<1> QED
  BY <1>1, <1>9, ToldByWrites

LEMMA OpenToReadTold ==
  ASSUME Invariant, Told, NEW j \in Job, OpenToRead(j)
  PROVE  Told'
<1> DEFINE r == job[j]
<1>0. /\ Typed(r) /\ Placed(r) /\ DOMAIN r = Fields /\ Tells(r, file)
      /\ r.at \notin Idle => file \in Seq(Byte)
  BY ToldOf
<1>n. PICK fd, at, alone : OpensToRead(j, fd, at, alone)
  BY OpenToReadOpens
<1>a. /\ at \in {"create", "fstat"} /\ UNCHANGED file /\ r.op \in Readers
      /\ Goes(j, "open", [r EXCEPT !.at = at, !.fd = fd, !.alone = alone])
  BY <1>n DEF OpensToRead
<1> DEFINE s == [r EXCEPT !.at = at, !.fd = fd, !.alone = alone]
<1>1. Goes(j, "open", s) /\ UNCHANGED file
  BY <1>a
<1>2. r.at = "open"
  BY <1>1 DEF Goes
<1>3. Elsewhere(r, s, {"at", "fd", "alone"}) /\ s.at = at /\ s.fd = fd /\ s.alone = alone
  BY <1>0 DEF Elsewhere, Fields
<1> HIDE DEF s
<1>4. /\ s.op = r.op /\ s.format = r.format /\ s.values = r.values /\ s.pos = r.pos /\ s.size = r.size /\ s.buf = r.buf /\ s.todo = r.todo
     /\ s.separate = r.separate /\ s.parse = r.parse /\ s.mapped = r.mapped /\ s.roaring = r.roaring /\ s.frozenBuffer = r.frozenBuffer /\ s.ok = r.ok /\ s.cut = r.cut
  BY <1>3 DEF Elsewhere, Fields
<1>5. ReadsOf(r, file)
  BY <1>0, <1>a, <1>2 DEF Tells
<1>6. ReadsOf(s, file)
  BY <1>a, <1>2, <1>3, <1>4, <1>5 DEF ReadsOf, ReaderKnows, Finished
<1>9. Tells(s, file)
  BY <1>a, <1>3, <1>4, <1>6, ReaderTells
<1> QED
  BY <1>1, <1>9, ToldByGoes

LEMMA CreateForTextTold ==
  ASSUME Invariant, Told, NEW j \in Job, CreateForText(j)
  PROVE  Told'
<1> DEFINE r == job[j]
<1>0. /\ Typed(r) /\ Placed(r) /\ DOMAIN r = Fields /\ Tells(r, file)
      /\ r.at \notin Idle => file \in Seq(Byte)
  BY ToldOf
<1>1. CASE Goes(j, "create", [r EXCEPT !.at = "readText", !.roaring = Bitmap({}, "memory"), !.buf = <<>>]) /\ UNCHANGED file
  <2> DEFINE s == [r EXCEPT !.at = "readText", !.roaring = Bitmap({}, "memory"), !.buf = <<>>]
  <2>1. Goes(j, "create", s) /\ UNCHANGED file
    BY <1>1
  <2>2. r.at = "create"
    BY <2>1 DEF Goes
  <2>3. Elsewhere(r, s, {"at", "roaring", "buf"}) /\ s.at = "readText" /\ s.roaring = Bitmap({}, "memory") /\ s.buf = <<>>
    BY <1>0 DEF Elsewhere, Fields
  <2> HIDE DEF s
  <2>4. /\ s.op = r.op /\ s.format = r.format /\ s.values = r.values /\ s.fd = r.fd /\ s.pos = r.pos /\ s.size = r.size /\ s.todo = r.todo
       /\ s.separate = r.separate /\ s.parse = r.parse /\ s.mapped = r.mapped /\ s.frozenBuffer = r.frozenBuffer /\ s.ok = r.ok /\ s.cut = r.cut /\ s.alone = r.alone
    BY <2>3 DEF Elsewhere, Fields
  <2>5. /\ r.op \in Readers /\ r.at # "unused" /\ ReadsOf(r, file)
       /\ r.format \in BinaryFormat \cup TextFormat
    BY <1>0, <2>2 DEF Placed, ReaderPlaces, Tells
  <2>6. file \in Seq(Byte)
    BY <1>0, <2>2, Idles
  <2>7. SubSeq(file, 1, 0) = <<>> /\ 0 <= Len(file) /\ Parse(ParseInit, <<>>) = ParseInit
    <3>1. ParseInit \in Parsing
      BY Constants DEF ParseInit, Parsing
    <3> QED
      BY <2>6, <3>1, ParseOfNothing
  <2>8. ReadsOf(s, file)
    BY <1>0, <2>2, <2>3, <2>4, <2>5, <2>7 DEF ReadsOf, ReaderKnows, Finished
  <2>9. Tells(s, file)
    BY <2>2, <2>3, <2>4, <2>5, <2>8, ReaderTells
  <2> QED
    BY <2>1, <2>9, ToldByGoes
<1>2. CASE Goes(j, "create", [r EXCEPT !.at = "close", !.ok = FALSE, !.roaring = Bitmap({}, "memory")]) /\ UNCHANGED file
  <2> DEFINE s == [r EXCEPT !.at = "close", !.ok = FALSE, !.roaring = Bitmap({}, "memory")]
  <2>1. Goes(j, "create", s) /\ UNCHANGED file
    BY <1>2
  <2>2. r.at = "create"
    BY <2>1 DEF Goes
  <2>3. Elsewhere(r, s, {"at", "ok", "roaring"}) /\ s.at = "close" /\ s.ok = FALSE /\ s.roaring = Bitmap({}, "memory")
    BY <1>0 DEF Elsewhere, Fields
  <2> HIDE DEF s
  <2>4. /\ s.op = r.op /\ s.format = r.format /\ s.values = r.values /\ s.fd = r.fd /\ s.pos = r.pos /\ s.size = r.size /\ s.buf = r.buf
       /\ s.todo = r.todo /\ s.separate = r.separate /\ s.parse = r.parse /\ s.mapped = r.mapped /\ s.frozenBuffer = r.frozenBuffer /\ s.cut = r.cut /\ s.alone = r.alone
    BY <2>3 DEF Elsewhere, Fields
  <2>5. ~s.ok /\ r.at # "unused" /\ s.at \in Finished
    BY <2>2, <2>3 DEF Finished
  <2>9. Tells(s, file)
    BY <1>0, <2>4, <2>5, FailedTells
  <2> QED
    BY <2>1, <2>9, ToldByGoes
<1>3. CASE Goes(j, "create", [r EXCEPT !.at = "workDone", !.fd = None, !.ok = FALSE]) /\ UNCHANGED file
  <2> DEFINE s == [r EXCEPT !.at = "workDone", !.fd = None, !.ok = FALSE]
  <2>1. Goes(j, "create", s) /\ UNCHANGED file
    BY <1>3
  <2>2. r.at = "create"
    BY <2>1 DEF Goes
  <2>3. Elsewhere(r, s, {"at", "fd", "ok"}) /\ s.at = "workDone" /\ s.fd = None /\ s.ok = FALSE
    BY <1>0 DEF Elsewhere, Fields
  <2> HIDE DEF s
  <2>4. /\ s.op = r.op /\ s.format = r.format /\ s.values = r.values /\ s.pos = r.pos /\ s.size = r.size /\ s.buf = r.buf /\ s.todo = r.todo
       /\ s.separate = r.separate /\ s.parse = r.parse /\ s.mapped = r.mapped /\ s.roaring = r.roaring /\ s.frozenBuffer = r.frozenBuffer /\ s.cut = r.cut /\ s.alone = r.alone
    BY <2>3 DEF Elsewhere, Fields
  <2>5. ~s.ok /\ r.at # "unused" /\ s.at \in Finished
    BY <2>2, <2>3 DEF Finished
  <2>9. Tells(s, file)
    BY <1>0, <2>4, <2>5, FailedTells
  <2> QED
    BY <2>1, <2>9, ToldByGoes
<1> QED
  BY <1>1, <1>2, <1>3 DEF CreateForText

LEMMA RestOfFile ==
  ASSUME NEW j, file \in Seq(Byte), job[j].pos \in Nat
  PROVE  Rest(j) = IF Len(file) - job[j].pos >= 0 THEN Len(file) - job[j].pos ELSE 0
<1>1. Len(file) - job[j].pos \in Int /\ 0 \in Int
  <2>1. Len(file) \in Nat
    OBVIOUS
  <2> QED
    BY <2>1
<1>2. Rest(j) = Max({Len(file) - job[j].pos, 0})
  BY DEF Rest
<1> QED
  BY <1>1, <1>2, MaxOfTwo

LEMMA ReadIsInFile ==
  ASSUME NEW j, NEW n, NEW parsed, Reads(j, n, parsed), file \in Seq(Byte), job[j].pos \in Nat
  PROVE  n \in Nat /\ job[j].pos + n <= Len(file)
<1> DEFINE p == job[j].pos
           m == Min({BUFFER_SIZE, Rest(j)})
<1>1. Len(file) \in Nat /\ p \in Nat
  OBVIOUS
<1>2. Rest(j) = IF Len(file) - p >= 0 THEN Len(file) - p ELSE 0
  BY RestOfFile
<1>3. m = IF BUFFER_SIZE <= Rest(j) THEN BUFFER_SIZE ELSE Rest(j)
  BY <1>1, <1>2, Constants, MinOfTwo
<1>4. n \in 1 .. m
  BY DEF Reads
<1>5. m \in Int /\ m <= Rest(j) /\ Rest(j) \in Int
  BY <1>1, <1>2, <1>3, Constants
<1> HIDE DEF m, p
<1> QED
  BY <1>1, <1>2, <1>4, <1>5 DEF p

LEMMA PiecesOfFile ==
  ASSUME NEW bytes \in Seq(Byte), NEW p \in Nat, NEW n \in Nat, p + n <= Len(bytes)
  PROVE  /\ SubSeq(bytes, 1, p) \in Seq(Byte) /\ SubSeq(bytes, p + 1, p + n) \in Seq(Byte)
         /\ SubSeq(bytes, 1, p) \o SubSeq(bytes, p + 1, p + n) = SubSeq(bytes, 1, p + n)
<1> DEFINE a == SubSeq(bytes, 1, p)
           b == SubSeq(bytes, p + 1, p + n)
           c == SubSeq(bytes, 1, p + n)
<1>1. \A i \in 1 .. Len(bytes) : bytes[i] \in Byte
  OBVIOUS
<1>2. a \in Seq(Byte) /\ Len(a) = p /\ \A i \in 1 .. p : a[i] = bytes[i]
  BY <1>1
<1>3. b \in Seq(Byte) /\ Len(b) = n /\ \A i \in 1 .. n : b[i] = bytes[p + i]
  <2>1. p + 1 \in Nat /\ (p + n) - (p + 1) + 1 = n /\ \A i \in 1 .. n : (p + 1) + i - 1 = p + i
    OBVIOUS
  <2>2. \A i \in p + 1 .. p + n : bytes[i] \in Byte
    BY <1>1
  <2> QED
    BY <2>1, <2>2
<1>4. c \in Seq(Byte) /\ Len(c) = p + n /\ \A i \in 1 .. p + n : c[i] = bytes[i]
  BY <1>1
<1> HIDE DEF a, b, c
<1>5. (a \o b) \in Seq(Byte) /\ Len(a \o b) = p + n /\ \A i \in 1 .. p + n : (a \o b)[i] = IF i <= p THEN a[i] ELSE b[i - p]
  <2>1. /\ (a \o b) \in Seq(Byte) /\ Len(a \o b) = Len(a) + Len(b)
        /\ \A i \in 1 .. Len(a) + Len(b) : (a \o b)[i] = IF i <= Len(a) THEN a[i] ELSE b[i - Len(a)]
    <3>1. a \in Seq(Byte) /\ b \in Seq(Byte)
      BY <1>2, <1>3
    <3> QED
      BY ONLY <3>1
  <2> QED
    BY <1>2, <1>3, <2>1
<1>6. \A i \in 1 .. p + n : (a \o b)[i] = c[i]
  <2> TAKE i \in 1 .. p + n
  <2>1. CASE i <= p
    BY <1>2, <1>4, <1>5, <2>1
  <2>2. CASE ~(i <= p)
    <3>1. i - p \in 1 .. n /\ p + (i - p) = i
      BY <2>2
    <3> QED
      BY <1>3, <1>4, <1>5, <2>2, <3>1
  <2> QED
    BY <2>1, <2>2
<1>7. a \o b = c
  BY <1>4, <1>5, <1>6, SequencesEqual
<1> QED
  BY <1>2, <1>3, <1>7 DEF a, b, c

LEMMA ReadTextTold ==
  ASSUME Invariant, Told, NEW j \in Job, ReadText(j)
  PROVE  Told'
<1> DEFINE r == job[j]
<1>0. /\ Typed(r) /\ Placed(r) /\ DOMAIN r = Fields /\ Tells(r, file)
      /\ r.at \notin Idle => file \in Seq(Byte)
  BY ToldOf
<1>n. PICK n : Reads(j, n, Parse(job[j].parse, SubSeq(file, job[j].pos + 1, job[j].pos + n)))
  BY ReadTextReads
<1> DEFINE parsed == Parse(r.parse, SubSeq(file, r.pos + 1, r.pos + n))
<1>a. /\ Goes(j, "readText", [r EXCEPT !.pos = r.pos + n, !.parse = parsed, !.roaring = Bitmap(parsed.found, "memory")])
      /\ UNCHANGED file
  BY <1>n DEF ReadText, Reads
<1>b. r.at = "readText" /\ file \in Seq(Byte) /\ r.pos \in Nat /\ r.parse \in Parsing
  BY <1>0, Idles DEF ReadText, Typed
<1>c. n \in Nat /\ r.pos + n <= Len(file)
  BY <1>b, <1>n, ReadIsInFile
<1>d. r.parse = Parse(ParseInit, SubSeq(file, 1, r.pos)) => parsed = Parse(ParseInit, SubSeq(file, 1, r.pos + n))
  <2> DEFINE a == SubSeq(file, 1, r.pos)
             b == SubSeq(file, r.pos + 1, r.pos + n)
  <2>1. a \in Seq(Byte) /\ b \in Seq(Byte) /\ a \o b = SubSeq(file, 1, r.pos + n)
    BY <1>b, <1>c, PiecesOfFile
  <2>2. ParseInit \in Parsing
    BY Constants DEF ParseInit, Parsing
  <2> HIDE DEF a, b
  <2>3. Parse(ParseInit, a \o b) = Parse(Parse(ParseInit, a), b)
    BY <2>1, <2>2, ParseInPieces
  <2> QED
    BY <2>1, <2>3 DEF a, b
<1> HIDE DEF parsed
<1> DEFINE s == [r EXCEPT !.pos = r.pos + n, !.parse = parsed, !.roaring = Bitmap(parsed.found, "memory")]
<1>1. Goes(j, "readText", s) /\ UNCHANGED file
  BY <1>a
<1>2. r.at = "readText"
  BY <1>1 DEF Goes
<1>3. Elsewhere(r, s, {"pos", "parse", "roaring"}) /\ s.pos = r.pos + n /\ s.parse = parsed /\ s.roaring = Bitmap(parsed.found, "memory")
  BY <1>0 DEF Elsewhere, Fields
<1> HIDE DEF s
<1>4. /\ s.at = r.at /\ s.op = r.op /\ s.format = r.format /\ s.values = r.values /\ s.fd = r.fd /\ s.size = r.size /\ s.buf = r.buf
     /\ s.todo = r.todo /\ s.separate = r.separate /\ s.mapped = r.mapped /\ s.frozenBuffer = r.frozenBuffer /\ s.ok = r.ok /\ s.cut = r.cut /\ s.alone = r.alone
  BY <1>3 DEF Elsewhere, Fields
<1>5. /\ r.op \in Readers /\ r.at # "unused" /\ ReadsOf(r, file)
     /\ r.format \in BinaryFormat \cup TextFormat
  BY <1>0, <1>2 DEF Placed, ReaderPlaces, Tells
<1>8. ReadsOf(s, file)
  BY <1>0, <1>2, <1>3, <1>4, <1>5, <1>c, <1>d DEF ReadsOf, ReaderKnows, Finished
<1>9. Tells(s, file)
  BY <1>2, <1>3, <1>4, <1>5, <1>8, ReaderTells
<1> QED
  BY <1>1, <1>9, ToldByGoes

LEMMA TextEndsTold ==
  ASSUME Invariant, Told, NEW j \in Job, TextEnds(j)
  PROVE  Told'
<1> DEFINE r == job[j]
<1>0. /\ Typed(r) /\ Placed(r) /\ DOMAIN r = Fields /\ Tells(r, file)
      /\ r.at \notin Idle => file \in Seq(Byte)
  BY ToldOf
<1> DEFINE s == [r EXCEPT !.at = "close", !.buf = None, !.roaring = Bitmap(Taken(r.parse), "memory")]
<1>1. Goes(j, "readText", s) /\ UNCHANGED file
  BY DEF TextEnds
<1>2. r.at = "readText"
  BY <1>1 DEF Goes
<1>3. Elsewhere(r, s, {"at", "buf", "roaring"}) /\ s.at = "close" /\ s.buf = None /\ s.roaring = Bitmap(Taken(r.parse), "memory")
  BY <1>0 DEF Elsewhere, Fields
<1> HIDE DEF s
<1>4. /\ s.op = r.op /\ s.format = r.format /\ s.values = r.values /\ s.fd = r.fd /\ s.pos = r.pos /\ s.size = r.size /\ s.todo = r.todo
     /\ s.separate = r.separate /\ s.parse = r.parse /\ s.mapped = r.mapped /\ s.frozenBuffer = r.frozenBuffer /\ s.ok = r.ok /\ s.cut = r.cut /\ s.alone = r.alone
  BY <1>3 DEF Elsewhere, Fields
<1>5. /\ r.op \in Readers /\ r.at # "unused" /\ ReadsOf(r, file)
     /\ r.format \in BinaryFormat \cup TextFormat
  BY <1>0, <1>2 DEF Placed, ReaderPlaces, Tells
<1>6. r.format \in TextFormat /\ r.format \notin BinaryFormat /\ file \in Seq(Byte) /\ r.pos \in Nat
  BY <1>0, <1>2, Idles DEF Placed, TextPlaces, Typed, TextFormat, BinaryFormat
<1>7. r.pos <= Len(file) => SubSeq(file, 1, r.pos) = file
  <2>1. Len(file) \in Nat
    BY <1>6
  <2>2. Rest(j) = IF Len(file) - r.pos >= 0 THEN Len(file) - r.pos ELSE 0
    BY <1>6, RestOfFile
  <2>3. Rest(j) = 0
    BY DEF TextEnds, EndOfText
  <2> DEFINE p == r.pos
  <2>4. p <= Len(file) => p = Len(file)
    BY <1>6, <2>1, <2>2, <2>3
  <2>5. SubSeq(file, 1, Len(file)) = file
    BY <1>6
  <2> HIDE DEF p
  <2>6. p <= Len(file) => SubSeq(file, 1, p) = file
    BY <2>4, <2>5
  <2> QED
    BY <2>6 DEF p
<1>8. s.roaring.values = Taken(r.parse)
  BY <1>3 DEF Bitmap
<1>a. ReadsOf(s, file)
  BY <1>2, <1>3, <1>4, <1>5, <1>6, <1>7, <1>8 DEF ReadsOf, ReaderKnows, Loaded, Finished
<1>9. Tells(s, file)
  BY <1>2, <1>3, <1>4, <1>5, <1>a, ReaderTells
<1> QED
  BY <1>1, <1>9, ToldByGoes

LEMMA StatTold ==
  ASSUME Invariant, Told, NEW j \in Job, Stat(j)
  PROVE  Told'
<1> DEFINE r == job[j]
<1>0. /\ Typed(r) /\ Placed(r) /\ DOMAIN r = Fields /\ Tells(r, file)
      /\ r.at \notin Idle => file \in Seq(Byte)
  BY ToldOf
<1>1. CASE file # <<>> /\ Goes(j, "fstat", [r EXCEPT !.at = "mapToRead", !.size = Len(file)]) /\ UNCHANGED file
  <2> DEFINE s == [r EXCEPT !.at = "mapToRead", !.size = Len(file)]
  <2>1. Goes(j, "fstat", s) /\ UNCHANGED file
    BY <1>1
  <2>2. r.at = "fstat"
    BY <2>1 DEF Goes
  <2>3. Elsewhere(r, s, {"at", "size"}) /\ s.at = "mapToRead" /\ s.size = Len(file)
    BY <1>0 DEF Elsewhere, Fields
  <2> HIDE DEF s
  <2>4. /\ s.op = r.op /\ s.format = r.format /\ s.values = r.values /\ s.fd = r.fd /\ s.pos = r.pos /\ s.buf = r.buf /\ s.todo = r.todo /\ s.separate = r.separate
       /\ s.parse = r.parse /\ s.mapped = r.mapped /\ s.roaring = r.roaring /\ s.frozenBuffer = r.frozenBuffer /\ s.ok = r.ok /\ s.cut = r.cut /\ s.alone = r.alone
    BY <2>3 DEF Elsewhere, Fields
  <2>5. /\ r.op \in Readers /\ r.at # "unused" /\ ReadsOf(r, file)
       /\ r.format \in BinaryFormat \cup TextFormat
    BY <1>0, <2>2 DEF Placed, ReaderPlaces, Tells
  <2>8. ReadsOf(s, file)
    BY <1>0, <2>2, <2>3, <2>4, <2>5, <1>1 DEF ReadsOf, ReaderKnows, Finished
  <2>9. Tells(s, file)
    BY <2>2, <2>3, <2>4, <2>5, <2>8, ReaderTells
  <2> QED
    BY <2>1, <2>9, ToldByGoes
<1>2. CASE file = <<>> /\ Goes(j, "fstat", [r EXCEPT !.at = "close", !.roaring = Bitmap({}, "memory")]) /\ UNCHANGED file
  <2> DEFINE s == [r EXCEPT !.at = "close", !.roaring = Bitmap({}, "memory")]
  <2>1. Goes(j, "fstat", s) /\ UNCHANGED file
    BY <1>2
  <2>2. r.at = "fstat"
    BY <2>1 DEF Goes
  <2>3. Elsewhere(r, s, {"at", "roaring"}) /\ s.at = "close" /\ s.roaring = Bitmap({}, "memory")
    BY <1>0 DEF Elsewhere, Fields
  <2> HIDE DEF s
  <2>4. /\ s.op = r.op /\ s.format = r.format /\ s.values = r.values /\ s.fd = r.fd /\ s.pos = r.pos /\ s.size = r.size /\ s.buf = r.buf /\ s.todo = r.todo
       /\ s.separate = r.separate /\ s.parse = r.parse /\ s.mapped = r.mapped /\ s.frozenBuffer = r.frozenBuffer /\ s.ok = r.ok /\ s.cut = r.cut /\ s.alone = r.alone
    BY <2>3 DEF Elsewhere, Fields
  <2>5. /\ r.op \in Readers /\ r.at # "unused" /\ ReadsOf(r, file)
       /\ r.format \in BinaryFormat \cup TextFormat
    BY <1>0, <2>2 DEF Placed, ReaderPlaces, Tells
  <2>6. r.format \in BinaryFormat /\ r.format \notin TextFormat /\ file \in Seq(Byte)
    <3>1. r.format \in BinaryFormat
      BY <1>0, <2>2 DEF Placed, ImagePlaces, ReaderPlaces, TextPlaces
    <3>2. file \in Seq(Byte)
      BY <1>2
    <3> QED
      BY <3>1, <3>2 DEF BinaryFormat, TextFormat
  <2>7. s.roaring.values = {}
    BY <2>3 DEF Bitmap
  <2>8. ReadsOf(s, file)
    BY <1>2, <2>2, <2>3, <2>4, <2>5, <2>6, <2>7 DEF ReadsOf, ReaderKnows, Loaded, Finished
  <2>9. Tells(s, file)
    BY <2>2, <2>3, <2>4, <2>5, <2>8, ReaderTells
  <2> QED
    BY <2>1, <2>9, ToldByGoes
<1>3. CASE Goes(j, "fstat", [r EXCEPT !.at = "close", !.ok = FALSE]) /\ UNCHANGED file
  <2> DEFINE s == [r EXCEPT !.at = "close", !.ok = FALSE]
  <2>1. Goes(j, "fstat", s) /\ UNCHANGED file
    BY <1>3
  <2>2. r.at = "fstat"
    BY <2>1 DEF Goes
  <2>3. Elsewhere(r, s, {"at", "ok"}) /\ s.at = "close" /\ s.ok = FALSE
    BY <1>0 DEF Elsewhere, Fields
  <2> HIDE DEF s
  <2>4. /\ s.op = r.op /\ s.format = r.format /\ s.values = r.values /\ s.fd = r.fd /\ s.pos = r.pos /\ s.size = r.size /\ s.buf = r.buf /\ s.todo = r.todo
       /\ s.separate = r.separate /\ s.parse = r.parse /\ s.mapped = r.mapped /\ s.roaring = r.roaring /\ s.frozenBuffer = r.frozenBuffer /\ s.cut = r.cut /\ s.alone = r.alone
    BY <2>3 DEF Elsewhere, Fields
  <2>5. ~s.ok /\ r.at # "unused" /\ s.at \in Finished
    BY <2>2, <2>3 DEF Finished
  <2>9. Tells(s, file)
    BY <1>0, <2>4, <2>5, FailedTells
  <2> QED
    BY <2>1, <2>9, ToldByGoes
<1> QED
  BY <1>1, <1>2, <1>3 DEF Stat, Failed

LEMMA ReadImageTold ==
  ASSUME Invariant, Told, NEW j \in Job, ReadImage(j)
  PROVE  Told'
<1> DEFINE r == job[j]
<1>0. /\ Typed(r) /\ Placed(r) /\ DOMAIN r = Fields /\ Tells(r, file)
      /\ r.at \notin Idle => file \in Seq(Byte)
  BY ToldOf
<1> DEFINE s == [r EXCEPT !.at = "decode", !.buf = SubSeq(file, 1, r.size)]
<1>1. Goes(j, "readImage", s) /\ UNCHANGED file
  BY DEF ReadImage
<1>2. r.at = "readImage"
  BY <1>1 DEF Goes
<1>3. Elsewhere(r, s, {"at", "buf"}) /\ s.at = "decode" /\ s.buf = SubSeq(file, 1, r.size)
  BY <1>0 DEF Elsewhere, Fields
<1> HIDE DEF s
<1>4. /\ s.op = r.op /\ s.format = r.format /\ s.values = r.values /\ s.fd = r.fd /\ s.pos = r.pos /\ s.size = r.size /\ s.todo = r.todo /\ s.separate = r.separate
     /\ s.parse = r.parse /\ s.mapped = r.mapped /\ s.roaring = r.roaring /\ s.frozenBuffer = r.frozenBuffer /\ s.ok = r.ok /\ s.cut = r.cut /\ s.alone = r.alone
  BY <1>3 DEF Elsewhere, Fields
<1>5. /\ r.op \in Readers /\ r.at # "unused" /\ ReadsOf(r, file)
     /\ r.format \in BinaryFormat \cup TextFormat
  BY <1>0, <1>2 DEF Placed, ReaderPlaces, Tells
<1>6. r.size = Len(file) => SubSeq(file, 1, r.size) = file
  BY <1>0, <1>2, Idles
<1>8. ReadsOf(s, file)
  BY <1>0, <1>2, <1>3, <1>4, <1>5, <1>6 DEF ReadsOf, ReaderKnows, Finished
<1>9. Tells(s, file)
  BY <1>2, <1>3, <1>4, <1>5, <1>8, ReaderTells
<1> QED
  BY <1>1, <1>9, ToldByGoes

LEMMA DecodeTold ==
  ASSUME Invariant, Told, NEW j \in Job, Decode(j)
  PROVE  Told'
<1> DEFINE r == job[j]
<1>0. /\ Typed(r) /\ Placed(r) /\ DOMAIN r = Fields /\ Tells(r, file)
      /\ r.at \notin Idle => file \in Seq(Byte)
  BY ToldOf
<1>a. /\ (\E S : DecodesTo(j, S)) \/ (\E copied : DecodeRefuses(j, copied))
      /\ r.at = "decode" /\ UNCHANGED file
  BY DecodeDecodes
<1>1. ASSUME NEW S, DecodesTo(j, S) PROVE Told'
  <2> DEFINE s == [r EXCEPT !.at = "close", !.mapped = FALSE, !.buf = None, !.frozenBuffer = (r.format = "unsafe_frozen_croaring"), !.roaring = Bitmap(S, BytesOf(r.format))]
  <2>1. Goes(j, "decode", s) /\ UNCHANGED file
    BY <1>a, <1>1 DEF DecodesTo
  <2>2. r.at = "decode"
    BY <2>1 DEF Goes
  <2>3. Elsewhere(r, s, {"at", "mapped", "buf", "frozenBuffer", "roaring"}) /\ s.at = "close" /\ s.mapped = FALSE /\ s.buf = None /\ s.frozenBuffer = (r.format = "unsafe_frozen_croaring") /\ s.roaring = Bitmap(S, BytesOf(r.format))
    BY <1>0 DEF Elsewhere, Fields
  <2> HIDE DEF s
  <2>4. /\ s.op = r.op /\ s.format = r.format /\ s.values = r.values /\ s.fd = r.fd /\ s.pos = r.pos /\ s.size = r.size
       /\ s.todo = r.todo /\ s.separate = r.separate /\ s.parse = r.parse /\ s.ok = r.ok /\ s.cut = r.cut /\ s.alone = r.alone
    BY <2>3 DEF Elsewhere, Fields
  <2>5. /\ r.op \in Readers /\ r.at # "unused" /\ ReadsOf(r, file)
       /\ r.format \in BinaryFormat \cup TextFormat
    BY <1>0, <2>2 DEF Placed, ReaderPlaces, Tells
  <2>6. r.format \in BinaryFormat /\ r.format \notin TextFormat /\ file \in Seq(Byte)
    <3>1. r.format \in BinaryFormat
      BY <1>0, <2>2 DEF Placed, ImagePlaces, ReaderPlaces, TextPlaces
    <3>2. file \in Seq(Byte)
      BY <1>0, <2>2, Idles
    <3> QED
      BY <3>1, <3>2 DEF BinaryFormat, TextFormat
  <2>7. ASSUME r.size = Len(file), ~r.mapped => r.buf = file PROVE S \in Decoded(file, r.format)
    <3>1. SubSeq(file, 1, Len(file)) = file
      BY <2>6
    <3>2. Bytes(j) = file
      BY <2>7, <3>1 DEF Bytes
    <3> QED
      BY <1>1, <3>2 DEF DecodesTo
  <2>8. s.roaring.values = S /\ (s.frozenBuffer <=> s.format = "unsafe_frozen_croaring")
    <3>1. s.roaring.values = S
      BY <2>3 DEF Bitmap
    <3>2. s.frozenBuffer <=> s.format = "unsafe_frozen_croaring"
      BY Zenon, <2>3, <2>4
    <3> QED
      BY <3>1, <3>2
  <2>a. ReadsOf(s, file)
    BY <2>2, <2>3, <2>4, <2>5, <2>6, <2>7, <2>8 DEF ReadsOf, ReaderKnows, Loaded, Finished
  <2>9. Tells(s, file)
    BY <2>2, <2>3, <2>4, <2>5, <2>a, ReaderTells
  <2> QED
    BY <2>1, <2>9, ToldByGoes
<1>2. ASSUME NEW copied, DecodeRefuses(j, copied) PROVE Told'
  <2> DEFINE s == [r EXCEPT !.at = "close", !.mapped = FALSE, !.buf = None, !.frozenBuffer = copied, !.ok = FALSE]
  <2>1. Goes(j, "decode", s) /\ UNCHANGED file
    BY <1>a, <1>2 DEF DecodeRefuses
  <2>2. r.at = "decode"
    BY <2>1 DEF Goes
  <2>3. Elsewhere(r, s, {"at", "mapped", "buf", "frozenBuffer", "ok"}) /\ s.at = "close" /\ s.mapped = FALSE /\ s.buf = None /\ s.frozenBuffer = copied /\ s.ok = FALSE
    BY <1>0 DEF Elsewhere, Fields
  <2> HIDE DEF s
  <2>4. /\ s.op = r.op /\ s.format = r.format /\ s.values = r.values /\ s.fd = r.fd /\ s.pos = r.pos /\ s.size = r.size
       /\ s.todo = r.todo /\ s.separate = r.separate /\ s.parse = r.parse /\ s.roaring = r.roaring /\ s.cut = r.cut /\ s.alone = r.alone
    BY <2>3 DEF Elsewhere, Fields
  <2>5. ~s.ok /\ r.at # "unused" /\ s.at \in Finished
    BY <2>2, <2>3 DEF Finished
  <2>9. Tells(s, file)
    BY <1>0, <2>4, <2>5, FailedTells
  <2> QED
    BY <2>1, <2>9, ToldByGoes
<1> QED
  BY <1>a, <1>1, <1>2

LEMMA EmptyImage ==
  ASSUME NEW S \in Contents, NEW format \in BinaryFormat, Image[S][format] = <<>>
  PROVE  S = {}
<1>1. Len(<<>>) = 0
  OBVIOUS
<1>2. CASE format # "uint32_array"
  <2>1. Image[S][format] = <<<<format, S, 1>>, <<format, S, 2>>>>
    BY <1>2 DEF Image
  <2> QED
    BY <2>1
<1>3. CASE format = "uint32_array"
  <2> DEFINE n == Cardinality(S)
  <2>1. n \in Nat /\ IsFiniteSet(S)
    BY ContentsAreFinite
  <2>2. DOMAIN Image[S][format] = 1 .. 2 * n
    BY <1>3 DEF Image
  <2>3. DOMAIN Image[S][format] = {}
    OBVIOUS
  <2>4. n = 0
    <3> HIDE DEF n
    <3>1. n > 0 => 1 \in 1 .. 2 * n
      BY <2>1
    <3> QED
      BY <2>1, <2>2, <2>3, <3>1
  <2> QED
    BY <2>1, <2>4, FS_EmptySet
<1> QED
  BY <1>2, <1>3

LEMMA ForgetTold ==
  ASSUME Invariant, Told, NEW j \in Job, Forget(j)
  PROVE  Told'
<1>1. Goes(j, "settled", Unused) /\ UNCHANGED file
  BY DEF Forget, Goes
<1>2. Unused.at = "unused"
  BY DEF Unused
<1>3. Tells(Unused, file)
  BY <1>2 DEF Tells
<1> QED
  BY <1>1, <1>3, ToldByGoes

LEMMA InitTold == Init => Told
<1> SUFFICES ASSUME Init PROVE Told
  OBVIOUS
<1>1. Unused.at = "unused"
  BY DEF Unused
<1>2. \A j \in Job : job[j] = Unused
  BY DEF Init
<1> QED
  BY <1>1, <1>2 DEF Told, Tells

LEMMA NextTold == Invariant /\ Told /\ [Next]_vars => Told'
<1> SUFFICES ASSUME Invariant, Told, [Next]_vars PROVE Told'
  OBVIOUS
<1>1. CASE UNCHANGED <<job, file>>
  BY <1>1 DEF Told
<1>2. ASSUME NEW j \in Job, Works(j) \/ Fails(j) PROVE Told'
  <2>1. CASE Crash(j, "fill") \/ Crash(j, "decode")
    BY <1>1, <2>1 DEF Crash
  <2>2. CASE \/ OpenToWrite(j) \/ OpenToRead(j) \/ OpenFails(j) \/ Close(j) \/ Settle(j)
             \/ MakeBuffer(j) \/ AppendItem(j) \/ Flush(j) \/ FlushFails(j) \/ TextWritten(j)
    BY <2>2, OpenToWriteTold, OpenToReadTold, OpenFailsTold, CloseTold, SettleTold, MakeBufferTold,
       AppendItemTold, FlushTold, FlushFailsTold, TextWrittenTold
  <2>3. CASE \/ Truncate(j) \/ TruncateFails(j) \/ MapToWrite(j) \/ MapToWriteFails(j) \/ Fill(j)
             \/ WriteImage(j) \/ WriteImageFails(j)
    BY <2>3, TruncateTold, TruncateFailsTold, MapToWriteTold, MapToWriteFailsTold, FillTold,
       WriteImageTold, WriteImageFailsTold
  <2>4. CASE \/ CreateForText(j) \/ ReadText(j) \/ TextEnds(j) \/ ReadTextFails(j) \/ Stat(j)
             \/ MapToRead(j) \/ MapToReadFails(j) \/ ReadImage(j) \/ ReadImageFails(j) \/ Decode(j)
    BY <2>4, CreateForTextTold, ReadTextTold, TextEndsTold, ReadTextFailsTold, StatTold,
       MapToReadTold, MapToReadFailsTold, ReadImageTold, ReadImageFailsTold, DecodeTold
  <2> QED
    BY <1>2, <2>1, <2>2, <2>3, <2>4 DEF Works, Serializes, Deserializes, Fails
<1>3. ASSUME NEW j \in Job, StartSerialize(j) \/ StartDeserialize(j) \/ Forget(j) PROVE Told'
  BY <1>3, StartSerializeTold, StartDeserializeTold, ForgetTold
<1> QED
  BY <1>1, <1>2, <1>3 DEF Next, vars

\* A serialization that reports success left the whole of the text or image in
\* the file, for every set and format and in whatever portions it was written,
\* unless a write was cut short, there was no buffer, or another call changed
\* the file.
THEOREM FilesAreWritten == Spec => []WrittenAsReported
<1>1. Told => WrittenAsReported
  BY DEF Told, Tells, Writes, WriterKnows, Finished, WrittenAsReported
<1> QED
  BY <1>1, InitInvariant, NextInvariant, InitTold, NextTold, PTL DEF Spec

\* A bitmap that was read has the values of the set that was written, of text in
\* whatever pieces it was read, and of any text the numbers that are in it; it is
\* frozen when the format says so, unless the file was empty.
THEOREM FilesAreRead == Spec => []ReadAsWritten
<1>1. Invariant /\ Told => ReadAsWritten
  <2> SUFFICES ASSUME Invariant, Told, NEW j \in Job,
                      job[j].op \in Readers, job[j].at \in {"workDone", "settled"}, job[j].ok, job[j].alone
               PROVE  /\ job[j].format \in TextFormat => job[j].roaring.values = TextValues(file)
                      /\ \A S \in Contents :
                           \/ job[j].format \in TextFormat /\ \E format \in TextFormat : file = Text[S][format]
                           \/ job[j].format \in BinaryFormat /\ file = Image[S][job[j].format]
                           => job[j].roaring.values = S
                      /\ job[j].frozenBuffer <=> job[j].format = "unsafe_frozen_croaring" /\ file # <<>>
    BY DEF ReadAsWritten
  <2> DEFINE r == job[j]
  <2>1. Tells(r, file) /\ Placed(r)
    BY ToldOf
  <2>2. r.format \in BinaryFormat \cup TextFormat
    BY <2>1 DEF Placed
  <2>3. Loaded(r, file)
    BY <2>1 DEF Tells, ReadsOf, ReaderKnows, Finished
  <2>4. r.format \in BinaryFormat <=> r.format \notin TextFormat
    BY <2>2 DEF BinaryFormat, TextFormat
  <2>5. "unsafe_frozen_croaring" \notin TextFormat
    BY DEF TextFormat
  <2>6. r.format \in TextFormat => r.roaring.values = TextValues(file)
    BY <2>3, ParserIsRight DEF Loaded
  <2>7. ASSUME NEW S \in Contents, NEW format \in TextFormat, r.format \in TextFormat, file = Text[S][format]
        PROVE  r.roaring.values = S
    BY <2>3, <2>7, TextIsRead DEF Loaded
  <2>8. ASSUME NEW S \in Contents, r.format \in BinaryFormat, file = Image[S][r.format]
        PROVE  r.roaring.values = S
    <3>1. CASE file = <<>>
      BY <2>3, <2>8, <3>1, EmptyImage DEF Loaded
    <3>2. CASE file # <<>>
      BY <2>3, <2>8, <3>2, ImageIsRead DEF Loaded
    <3> QED
      BY <3>1, <3>2
  <2>9. r.frozenBuffer <=> (r.format = "unsafe_frozen_croaring" /\ file # <<>>)
    BY <2>3, <2>4, <2>5 DEF Loaded
  <2> QED
    BY <2>6, <2>7, <2>8, <2>9
<1> QED
  BY <1>1, InitInvariant, NextInvariant, InitTold, NextTold, PTL DEF Spec
=============================================================================
