----------------------- MODULE BufferedIterator_proofs -----------------------
(***************************************************************************)
(* Theorems about BufferedIterator, for any number of iterators, bitmaps   *)
(* and values, any length of buffers and any size of the pool.             *)
(***************************************************************************)
EXTENDS BufferedIterator, FiniteSetTheorems, SequenceTheorems, TLAPS
-----------------------------------------------------------------------------
(* Values in order.  An iterator meets u before v.                          *)

Before(i, u, v) == IF i \in Reversed THEN u > v ELSE u < v
Earlier(i, v, S) == { u \in S : Before(i, u, v) }

\* Sequences that grow and shrink at their end.
LEMMA Appended ==
  ASSUME NEW S, NEW s \in Seq(S), NEW e \in S
  PROVE  /\ Append(s, e) \in Seq(S) /\ DOMAIN Append(s, e) = 1..(Len(s) + 1)
         /\ Len(Append(s, e)) = Len(s) + 1
         /\ \A k \in 1..Len(s) : Append(s, e)[k] = s[k]
         /\ Append(s, e)[Len(s) + 1] = e
  BY AppendProperties, LenProperties

LEMMA Shortened ==
  ASSUME NEW S, NEW s \in Seq(S), s # <<>>
  PROVE  /\ Len(s) \in Nat \ {0} /\ SubSeq(s, 1, Len(s) - 1) \in Seq(S)
         /\ Len(SubSeq(s, 1, Len(s) - 1)) = Len(s) - 1
         /\ DOMAIN SubSeq(s, 1, Len(s) - 1) = 1..(Len(s) - 1)
         /\ \A k \in 1..(Len(s) - 1) : SubSeq(s, 1, Len(s) - 1)[k] = s[k]
<1>1. Len(s) \in Nat \ {0}
  BY EmptySeq
<1>2. \A k \in 1..(Len(s) - 1) : s[k] \in S
  BY <1>1, ElementOfSeq
<1>3. /\ SubSeq(s, 1, Len(s) - 1) \in Seq(S)
      /\ DOMAIN SubSeq(s, 1, Len(s) - 1) = 1..(Len(s) - 1)
  BY <1>1, LenProperties
<1>4. \A k \in 1..(Len(s) - 1) : SubSeq(s, 1, Len(s) - 1)[k] = s[k]
  BY <1>1, LenProperties
<1>5. Len(SubSeq(s, 1, Len(s) - 1)) = Len(s) - 1
  <2> DEFINE t == SubSeq(s, 1, Len(s) - 1)
  <2> HIDE DEF t
  <2>1. t \in Seq(S) /\ DOMAIN t = 1..(Len(s) - 1)
    BY <1>3 DEF t
  <2>2. Len(t) \in Nat /\ DOMAIN t = 1..Len(t)
    BY <2>1, LenProperties
  <2>3. \A m, n \in Nat : 1..m = 1..n => m = n
    OBVIOUS
  <2>4. Len(s) - 1 \in Nat /\ Len(t) = Len(s) - 1
    BY <1>1, <2>1, <2>2, <2>3
  <2> QED
    BY <2>4 DEF t
<1> QED
  BY <1>1, <1>3, <1>4, <1>5

LEMMA LastOne == \A n \in Nat : \A k \in 1..n : k \notin 1..(n - 1) => k = n
  OBVIOUS

LEMMA SubsetsFinite ==
  ASSUME NEW S \in SUBSET Value
  PROVE  /\ IsFiniteSet(S) /\ Cardinality(S) \in Nat
         /\ \A T \in SUBSET S : /\ IsFiniteSet(T) /\ Cardinality(T) \in Nat
                                /\ Cardinality(T) <= Cardinality(S)
                                /\ Cardinality(S) = Cardinality(T) => S = T
<1>1. IsFiniteSet(S)
  BY Assumption, FS_Subset DEF Assumption
<1> QED
  BY <1>1, FS_Subset, FS_CardinalityType

LEMMA StrictlyFewer ==
  ASSUME NEW S \in SUBSET Value, NEW T \in SUBSET S, NEW x \in S, x \notin T
  PROVE  Cardinality(T) < Cardinality(S)
<1>1. S # T
  OBVIOUS
<1> QED
  BY <1>1, SubsetsFinite

LEMMA SplitCount ==
  ASSUME NEW S \in SUBSET Value, NEW T \in SUBSET S
  PROVE  Cardinality(S \ T) = Cardinality(S) - Cardinality(T)
<1>1. IsFiniteSet(S) /\ IsFiniteSet(T) /\ S \cap T = T
  BY SubsetsFinite
<1>2. Cardinality(S \ T) = Cardinality(S) - Cardinality(S \cap T)
  BY <1>1, FS_Difference
<1> QED
  BY <1>1, <1>2

(* The number of values met earlier tells the values apart. *)
LEMMA EarlierDistinct ==
  ASSUME NEW i \in Iterator, NEW S \in SUBSET Value, NEW u \in S, NEW v \in S
  PROVE  /\ Cardinality(Earlier(i, u, S)) \in 0..(Cardinality(S) - 1)
         /\ Before(i, u, v) => Cardinality(Earlier(i, u, S)) < Cardinality(Earlier(i, v, S))
         /\ Cardinality(Earlier(i, u, S)) = Cardinality(Earlier(i, v, S)) => u = v
<1>1. S \subseteq Nat
  BY Assumption DEF Assumption
<1>2. /\ Earlier(i, u, S) \in SUBSET S /\ u \notin Earlier(i, u, S)
      /\ Earlier(i, v, S) \in SUBSET S /\ v \notin Earlier(i, v, S)
  BY <1>1 DEF Earlier, Before
<1>3. Cardinality(Earlier(i, u, S)) \in 0..(Cardinality(S) - 1)
  BY <1>2, StrictlyFewer, SubsetsFinite
<1>4. ASSUME NEW x \in S, NEW y \in S, Before(i, x, y)
      PROVE  Cardinality(Earlier(i, x, S)) < Cardinality(Earlier(i, y, S))
  <2>1. /\ Earlier(i, y, S) \in SUBSET Value
        /\ Earlier(i, x, S) \in SUBSET Earlier(i, y, S)
        /\ x \in Earlier(i, y, S) /\ x \notin Earlier(i, x, S)
    <3>1. ASSUME NEW u1 \in S, Before(i, u1, x) PROVE Before(i, u1, y)
      BY <1>1, <1>4, <3>1 DEF Before
    <3>2. ~ Before(i, x, x)
      BY <1>1 DEF Before
    <3> QED
      BY <1>4, <3>1, <3>2 DEF Earlier
  <2> QED
    BY <2>1, StrictlyFewer
<1>5. Cardinality(Earlier(i, u, S)) \in Nat /\ Cardinality(Earlier(i, v, S)) \in Nat
  BY <1>2, SubsetsFinite
<1>6. u = v \/ Before(i, u, v) \/ Before(i, v, u)
  BY <1>1 DEF Before
<1> QED
  BY <1>3, <1>4, <1>5, <1>6

LEMMA RankReached ==
  ASSUME NEW S \in SUBSET Value, NEW k \in 0..(Cardinality(S) - 1)
  PROVE  \E v \in S : Rank(v, S) = k
<1> DEFINE n == Cardinality(S)
           T == 0..(n - 1)
           f == [v \in S |-> Rank(v, S)]
<1>1. n \in Nat /\ IsFiniteSet(S) /\ S \subseteq Nat
  BY SubsetsFinite, Assumption DEF Assumption
<1>2. IsFiniteSet(T) /\ Cardinality(T) = n
  <2> HIDE DEF n
  <2>1. 0 \in Int /\ n - 1 \in Int
    BY <1>1
  <2>2. /\ IsFiniteSet(0..(n - 1))
        /\ Cardinality(0..(n - 1)) = IF 0 > n - 1 THEN 0 ELSE (n - 1) - 0 + 1
    BY <2>1, FS_Interval
  <2> QED
    BY <1>1, <2>2
<1>3. ASSUME NEW v \in S PROVE Rank(v, S) \in T
  <2>1. { u \in S : u < v } \in SUBSET S /\ v \notin { u \in S : u < v }
    BY <1>1
  <2> QED
    BY <1>1, <2>1, StrictlyFewer, SubsetsFinite DEF Rank
<1>4. ASSUME NEW u \in S, NEW v \in S, u < v PROVE Rank(u, S) < Rank(v, S)
  <2>1. /\ { x \in S : x < v } \in SUBSET Value
        /\ { x \in S : x < u } \in SUBSET { x \in S : x < v }
        /\ u \in { x \in S : x < v } /\ u \notin { x \in S : x < u }
    <3>1. ASSUME NEW x \in S, x < u PROVE x < v
      BY <1>1, <1>4, <3>1
    <3>2. ~ u < u
      BY <1>1
    <3> QED
      BY <1>4, <3>1, <3>2
  <2> QED
    BY <2>1, StrictlyFewer DEF Rank
<1>5. f \in Injection(S, T)
  <2>1. f \in [S -> T]
    BY <1>3
  <2>2. ASSUME NEW u \in S, NEW v \in S, f[u] = f[v] PROVE u = v
    <3>1. u < v \/ v < u \/ u = v
      BY <1>1
    <3>2. Rank(u, S) \in Int /\ Rank(v, S) \in Int /\ Rank(u, S) = Rank(v, S)
      BY <1>3, <2>2
    <3> QED
      BY <1>4, <3>1, <3>2
  <2> QED
    BY <2>1, <2>2 DEF Injection, IsInjective
<1>6. f \in Surjection(S, T)
  BY <1>2, <1>5, FS_Injection
<1>7. PICK v \in S : f[v] = k
  BY <1>6 DEF Surjection
<1> QED
  BY <1>7

(* The k-th value in the order of an iterator has k - 1 values before it. *)
LEMMA OrderedValues ==
  ASSUME NEW i \in Iterator, NEW S \in SUBSET Value
  PROVE  /\ InOrder(i)[S] \in Seq(S) /\ Len(InOrder(i)[S]) = Cardinality(S)
         /\ \A k \in 1..Cardinality(S) :
              /\ InOrder(i)[S][k] \in S
              /\ Cardinality(Earlier(i, InOrder(i)[S][k], S)) = k - 1
<1> DEFINE n == Cardinality(S)
<1>1. n \in Nat /\ S \subseteq Nat
  BY SubsetsFinite, Assumption DEF Assumption
<1>2. CASE i \notin Reversed
  <2>1. InOrder(i)[S] = [ k \in 1..n |-> CHOOSE v \in S : Rank(v, S) = k - 1 ]
    BY <1>2 DEF InOrder, Ascending
  <2>2. ASSUME NEW k \in 1..n
        PROVE  InOrder(i)[S][k] \in S /\ Rank(InOrder(i)[S][k], S) = k - 1
    <3>1. k - 1 \in 0..(n - 1)
      BY <1>1
    <3>2. \E v \in S : Rank(v, S) = k - 1
      BY <3>1, RankReached
    <3> QED
      BY <2>1, <3>2
  <2>3. ASSUME NEW v PROVE Earlier(i, v, S) = { u \in S : u < v }
    BY <1>2 DEF Earlier, Before
  <2>4. InOrder(i)[S] \in [1..n -> S]
    BY <2>1, <2>2
  <2>5. InOrder(i)[S] \in Seq(S) /\ Len(InOrder(i)[S]) = n
    BY <1>1, <2>1, <2>4, IsASeq, LenProperties
  <2>6. ASSUME NEW k \in 1..n PROVE Cardinality(Earlier(i, InOrder(i)[S][k], S)) = k - 1
    BY <2>2, <2>3 DEF Rank
  <2> QED
    BY <2>2, <2>5, <2>6
<1>3. CASE i \in Reversed
  <2>1. InOrder(i)[S] = [ k \in 1..n |-> CHOOSE v \in S : Rank(v, S) = n - k ]
    BY <1>3 DEF InOrder, Descending
  <2>2. ASSUME NEW k \in 1..n
        PROVE  InOrder(i)[S][k] \in S /\ Rank(InOrder(i)[S][k], S) = n - k
    <3>1. n - k \in 0..(n - 1)
      BY <1>1
    <3>2. \E v \in S : Rank(v, S) = n - k
      BY <3>1, RankReached
    <3> QED
      BY <2>1, <3>2
  <2>3. ASSUME NEW v \in S PROVE Cardinality(Earlier(i, v, S)) = n - Rank(v, S) - 1
    <3> DEFINE Less == { u \in S : u < v }
    <3>1. Earlier(i, v, S) = S \ (Less \cup {v}) /\ v \notin Less /\ Less \in SUBSET S
      <4>1. ASSUME NEW u \in S PROVE u > v <=> ~(u < v \/ u = v)
        BY <1>1
      <4>2. ~ v < v
        BY <1>1
      <4> QED
        BY <1>3, <4>1, <4>2 DEF Earlier, Before
    <3>2. Cardinality(Less \cup {v}) = Cardinality(Less) + 1
      BY <3>1, SubsetsFinite, FS_AddElement
    <3>3. Cardinality(S \ (Less \cup {v})) = Cardinality(S) - Cardinality(Less \cup {v})
      BY <3>1, SplitCount
    <3>4. Cardinality(Less) \in Nat
      BY <3>1, SubsetsFinite
    <3> QED
      BY <1>1, <3>1, <3>2, <3>3, <3>4 DEF Rank
  <2>4. InOrder(i)[S] \in [1..n -> S]
    BY <2>1, <2>2
  <2>5. ASSUME NEW k \in 1..n PROVE Cardinality(Earlier(i, InOrder(i)[S][k], S)) = k - 1
    <3> DEFINE v == InOrder(i)[S][k]
    <3>1. v \in S /\ Rank(v, S) = n - k
      BY <2>2
    <3>2. Cardinality(Earlier(i, v, S)) = n - Rank(v, S) - 1
      BY <2>3, <3>1
    <3> HIDE DEF v, n
    <3>3. n - (n - k) - 1 = k - 1
      BY <1>1
    <3> QED
      BY <3>1, <3>2, <3>3 DEF v
  <2>6. InOrder(i)[S] \in Seq(S) /\ Len(InOrder(i)[S]) = n
    <3> HIDE DEF n
    <3>1. DOMAIN InOrder(i)[S] = 1..n
      BY <2>4
    <3> QED
      BY <1>1, <2>4, <3>1, IsASeq, LenProperties
  <2> QED
    BY <2>2, <2>5, <2>6
<1> QED
  BY <1>2, <1>3

\* What is left of an order after the first n values is in order.
LEMMA TailInOrder ==
  ASSUME NEW i \in Iterator, NEW S \in SUBSET Value,
         NEW n \in 0..(Cardinality(S) - 1), NEW x, x = InOrder(i)[S][n + 1],
         NEW T, T = { v \in S : IF i \in Reversed THEN v <= x ELSE v >= x }
  PROVE  /\ Len(InOrder(i)[T]) = Cardinality(S) - n
         /\ \A k \in 1..(Cardinality(S) - n) : InOrder(i)[T][k] = InOrder(i)[S][n + k]
<1> DEFINE m == Cardinality(S)
<1>1. m \in Nat /\ S \subseteq Nat /\ T \in SUBSET Value
  BY SubsetsFinite, Assumption DEF Assumption
<1>2. x \in S /\ Cardinality(Earlier(i, x, S)) = n
  <2>1. n + 1 \in 1..m /\ n \in Nat
    BY <1>1
  <2>2. InOrder(i)[S][n + 1] \in S /\ Cardinality(Earlier(i, InOrder(i)[S][n + 1], S)) = (n + 1) - 1
    BY <2>1, OrderedValues
  <2> QED
    BY <2>1, <2>2
<1>3. T = S \ Earlier(i, x, S) /\ Earlier(i, x, S) \in SUBSET S
  <2>1. ASSUME NEW v \in S
        PROVE  (IF i \in Reversed THEN v <= x ELSE v >= x) <=> ~ Before(i, v, x)
    BY <1>1, <1>2 DEF Before
  <2> QED
    BY <2>1 DEF Earlier
<1>4. Cardinality(T) = m - n
  BY <1>2, <1>3, SplitCount
<1>5. ASSUME NEW k \in 1..(m - n)
      PROVE  InOrder(i)[T][k] = InOrder(i)[S][n + k]
  <2> DEFINE y == InOrder(i)[S][n + k]
             z == InOrder(i)[T][k]
  <2>1. n \in Nat /\ n + k \in 1..m /\ k \in 1..Cardinality(T)
    BY <1>1, <1>4
  <2>2. y \in S /\ Cardinality(Earlier(i, y, S)) = n + k - 1
    BY <2>1, OrderedValues
  <2>3. z \in T /\ Cardinality(Earlier(i, z, T)) = k - 1
    BY <1>1, <2>1, OrderedValues
  <2> HIDE DEF y, z
  <2>4. ~ Before(i, y, x)
    <3>1. Before(i, y, x) => Cardinality(Earlier(i, y, S)) < Cardinality(Earlier(i, x, S))
      BY <1>2, <2>2, EarlierDistinct
    <3> QED
      BY <1>1, <1>2, <2>1, <2>2, <3>1
  <2>5. Earlier(i, y, T) = Earlier(i, y, S) \ Earlier(i, x, S)
    BY <1>3 DEF Earlier
  <2>6. Earlier(i, x, S) \in SUBSET Earlier(i, y, S) /\ Earlier(i, y, S) \in SUBSET Value
    <3>1. ASSUME NEW u \in S, Before(i, u, x) PROVE Before(i, u, y)
      BY <1>1, <1>2, <2>2, <2>4, <3>1 DEF Before
    <3> QED
      BY <3>1 DEF Earlier
  <2>7. Cardinality(Earlier(i, y, T)) = (n + k - 1) - n
    BY <1>2, <2>2, <2>5, <2>6, SplitCount
  <2>8. y \in T
    BY <1>3, <2>2, <2>4 DEF Earlier
  <2>9. Cardinality(Earlier(i, y, T)) = Cardinality(Earlier(i, z, T))
    BY <1>1, <2>1, <2>3, <2>7
  <2> QED
    BY <1>1, <2>3, <2>8, <2>9, EarlierDistinct DEF y, z
<1>6. Len(InOrder(i)[T]) = m - n
  BY <1>1, <1>4, OrderedValues
<1> QED
  BY <1>5, <1>6
-----------------------------------------------------------------------------
(* Types.                                                                   *)

\* What the variables of an iterator have to do with each other and with its
\* buffer, whoever else uses that.
Shape(i) ==
  /\ ~ js[i].made =>
       /\ js[i].chunk = None /\ ~ js[i].done /\ ~ js[i].reader
       /\ loop[i].at = "over" /\ loop[i].helper = "none"
  /\ js[i].done => js[i].chunk = None /\ ~ js[i].reader
  /\ js[i].made /\ ~ js[i].done /\ ~ js[i].reader => js[i].bitmap \in Bitmap
  /\ js[i].made /\ ~ js[i].done /\ js[i].chunk = None => js[i].bufferLength >= 1
  /\ ~ js[i].reader /\ ~ js[i].done => js[i].bufferIndex = 0 /\ js[i].bufferCount = 0
  /\ js[i].bufferReusable => js[i].chunk \notin Array
  /\ js[i].reader =>
       /\ js[i].made /\ js[i].chunk # None
       /\ js[i].bufferIndex <= js[i].bufferCount
       /\ native[i].on \in Bitmap
       /\ native[i].length = Len(memory[js[i].chunk])
       /\ native[i].version <= version[native[i].on]
  /\ js[i].chunk # None =>
       /\ Len(memory[js[i].chunk]) >= 1
       /\ js[i].bufferCount <= Len(memory[js[i].chunk])
       /\ \A k \in 1..js[i].bufferCount : memory[js[i].chunk][k] \in Value
  /\ loop[i].at # "over" => js[i].made /\ ~ js[i].done /\ loop[i].helper # "none"

\* A buffer somebody may take is not empty.
PoolFilled ==
  /\ \A k \in DOMAIN pool : Len(memory[pool[k]]) >= 1
  /\ \A a \in Array : Len(memory[a]) >= 1
Typed == TypeOK /\ PoolFilled /\ \A i \in Iterator : Shape(i)

\* A buffer keeps its length, and a place that got a value has one ever after.
MemoryGrows ==
  \A b \in Buffer : Len(memory[b]) >= 1 =>
    /\ Len(memory'[b]) = Len(memory[b])
    /\ \A k \in 1..Len(memory[b]) : memory[b][k] \in Value => memory'[b][k] \in Value

LEMMA InitTyped == Init => Typed
<1> SUFFICES ASSUME Init PROVE Typed
  OBVIOUS
<1>1. ASSUME NEW b \in Array
      PROVE  [k \in 1..ArrayLen |-> 0] \in Seq(Value \cup {0})
  BY Assumption DEF Assumption
<1>2. memory \in [Buffer -> Seq(Value \cup {0})]
  BY <1>1, EmptySeq DEF Init, Buffer
<1>3. js \in [Iterator -> Js] /\ native \in [Iterator -> Native] /\ loop \in [Iterator -> Loop]
  BY DEF Init, Js, Native, Loop, ClosedReader
<1>4. TypeOK
  BY <1>2, <1>3, EmptySeq DEF Init, TypeOK
<1>5. ASSUME NEW a \in Array PROVE Len(memory[a]) >= 1
  BY Assumption DEF Assumption, Init, Buffer
<1>6. PoolFilled
  <2>1. pool = <<>>
    BY DEF Init
  <2> QED
    BY <1>5, <2>1 DEF PoolFilled
<1> QED
  BY <1>4, <1>6 DEF Init, Typed, Shape

LEMMA SameMemoryGrows == ASSUME UNCHANGED memory PROVE MemoryGrows
  BY DEF MemoryGrows

LEMMA ShapeKept ==
  ASSUME Typed, NEW j \in Iterator,
         js'[j] = js[j], native'[j] = native[j], loop'[j] = loop[j],
         MemoryGrows, \A b \in Bitmap : version'[b] \in Nat /\ version'[b] >= version[b]
  PROVE  Shape(j)'
<1>1. js[j] \in Js /\ native[j] \in Native
  BY DEF Typed, TypeOK
<1>2. js[j].chunk = None \/ js[j].chunk \in Buffer
  BY <1>1 DEF Js
<1>3. js[j].chunk # None =>
        /\ Len(memory'[js[j].chunk]) = Len(memory[js[j].chunk])
        /\ \A k \in 1..js[j].bufferCount : memory'[js[j].chunk][k] \in Value
  <2> SUFFICES ASSUME js[j].chunk # None
               PROVE  /\ Len(memory'[js[j].chunk]) = Len(memory[js[j].chunk])
                      /\ \A k \in 1..js[j].bufferCount : memory'[js[j].chunk][k] \in Value
    OBVIOUS
  <2>1. memory[js[j].chunk] \in Seq(Value \cup {0})
    BY <1>2 DEF Typed, TypeOK
  <2>2. /\ Len(memory[js[j].chunk]) \in Nat /\ js[j].bufferCount \in Nat
        /\ Len(memory[js[j].chunk]) >= 1
        /\ js[j].bufferCount <= Len(memory[js[j].chunk])
        /\ \A k \in 1..js[j].bufferCount : memory[js[j].chunk][k] \in Value
    BY <1>1, <2>1, LenProperties DEF Js, Typed, Shape
  <2> QED
    BY <1>2, <2>2 DEF MemoryGrows
<1>4. native[j].on \in Bitmap => /\ native[j].version \in Nat /\ version[native[j].on] \in Nat
                                 /\ version'[native[j].on] \in Nat
                                 /\ version'[native[j].on] >= version[native[j].on]
  BY <1>1 DEF Typed, TypeOK, Native
<1>5. Shape(j)
  BY DEF Typed
<1> QED
  BY <1>3, <1>4, <1>5 DEF Shape

LEMMA PoolFilledKept == ASSUME Typed, MemoryGrows, UNCHANGED pool PROVE PoolFilled'
<1>1. ASSUME NEW k \in DOMAIN pool PROVE pool[k] \in Buffer /\ Len(memory[pool[k]]) >= 1
  <2>1. pool[k] \in Iterator
    BY LenProperties, ElementOfSeq DEF Typed, TypeOK
  <2> QED
    BY <2>1 DEF Typed, PoolFilled, Buffer
<1>2. ASSUME NEW a \in Array PROVE Len(memory'[a]) >= 1
  BY DEF Typed, PoolFilled, MemoryGrows, Buffer
<1> QED
  BY <1>1, <1>2 DEF MemoryGrows, PoolFilled

LEMMA NormalizedLength ==
  ASSUME NEW halves \in Halves \cup {None}
  PROVE  NormalizeIteratorChunkLength(halves) \in Nat \ {0}
<1>1. /\ DefaultLen \in Nat \ {0} /\ MaxLen \in Nat \ {0}
      /\ halves # None => halves \in Int
  BY Assumption DEF Assumption
<1> QED
  BY <1>1 DEF NormalizeIteratorChunkLength

LEMMA ChangeTyped == ASSUME Typed, NEW b \in Bitmap, Change(b) PROVE Typed'
<1>1. TypeOK'
  BY DEF Typed, TypeOK, Change
<1>2. \A c \in Bitmap : version'[c] \in Nat /\ version'[c] >= version[c]
  BY DEF Typed, TypeOK, Change
<1>3. MemoryGrows /\ UNCHANGED pool
  BY SameMemoryGrows DEF Change
<1>4. ASSUME NEW j \in Iterator PROVE Shape(j)'
  BY <1>2, <1>3, ShapeKept DEF Change
<1> QED
  BY <1>1, <1>3, <1>4, PoolFilledKept DEF Typed

\* An iterator that was just made, for a bitmap or for none.
LEMMA MadeTyped ==
  ASSUME Typed, NEW i \in Iterator, ~ js[i].made, NEW b \in Bitmap \cup {None},
         NEW buffer \in Array \cup {None}, NEW halves \in Halves \cup {None, 2 * DefaultLen},
         NormalizeIteratorInputs(i, b, buffer, halves)
  PROVE  /\ js' \in [Iterator -> Js]
         /\ \A j \in Iterator \ {i} : js'[j] = js[j]
         /\ js'[i].made /\ ~ js'[i].reader
         /\ js'[i].done <=> b = None
         /\ b = None => js'[i].chunk = None
         /\ b # None => js'[i].bitmap = b /\ js'[i].chunk = buffer /\ js'[i].bufferLength >= 1
         /\ js'[i].bufferReusable => js'[i].chunk = None
         /\ js'[i].bufferIndex = js[i].bufferIndex /\ js'[i].bufferCount = js[i].bufferCount
<1> DEFINE length == IF buffer = None THEN NormalizeIteratorChunkLength(halves) ELSE ArrayLen
<1>1. length \in Nat \ {0}
  <2>1. NormalizeIteratorChunkLength(2 * DefaultLen) \in Nat \ {0}
    BY Assumption DEF Assumption, NormalizeIteratorChunkLength
  <2> QED
    BY <2>1, Assumption, NormalizedLength DEF Assumption
<1>2. js \in [Iterator -> Js] /\ js[i] \in Js /\ Shape(i)
  BY DEF Typed, TypeOK
<1>3. /\ BufferReusable(buffer, length) \in BOOLEAN
      /\ BufferReusable(buffer, length) => buffer = None
  BY DEF BufferReusable
<1>4. buffer \in Buffer \cup {None}
  BY DEF Buffer
<1>5. CASE b = None
  BY <1>2, <1>5 DEF NormalizeIteratorInputs, Js, Shape
<1>6. CASE b # None
  <2>1. js' = [js EXCEPT ![i].made = TRUE, ![i].bitmap = b, ![i].chunk = buffer,
                         ![i].bufferLength = length,
                         ![i].bufferReusable = BufferReusable(buffer, length)]
    BY <1>6 DEF NormalizeIteratorInputs
  <2>2. ~ js[i].reader /\ ~ js[i].done
    BY <1>2 DEF Shape
  <2>3. length \in Nat /\ length >= 1 /\ BufferReusable(buffer, length) \in BOOLEAN
    BY <1>1, <1>3
  <2> HIDE DEF length
  <2>4. js' \in [Iterator -> Js]
    BY <1>2, <1>4, <1>6, <2>1, <2>3 DEF Js
  <2>5. /\ \A j \in Iterator \ {i} : js'[j] = js[j]
        /\ js'[i].made /\ js'[i].reader = js[i].reader /\ js'[i].done = js[i].done
        /\ js'[i].bitmap = b /\ js'[i].chunk = buffer /\ js'[i].bufferLength = length
        /\ js'[i].bufferReusable = BufferReusable(buffer, length)
        /\ js'[i].bufferIndex = js[i].bufferIndex /\ js'[i].bufferCount = js[i].bufferCount
    BY <1>2, <2>1 DEF Js
  <2> QED
    BY <1>1, <1>3, <1>6, <2>2, <2>3, <2>4, <2>5
<1> QED
  BY <1>5, <1>6

LEMMA MadeShape ==
  ASSUME Typed, NEW i \in Iterator, ~ js[i].made, NEW b \in Bitmap \cup {None},
         NEW buffer \in Array \cup {None}, NEW halves \in Halves \cup {None, 2 * DefaultLen},
         NormalizeIteratorInputs(i, b, buffer, halves), UNCHANGED <<version, memory, native>>,
         loop'[i].at # "over" => b # None /\ loop'[i].helper # "none"
  PROVE  Shape(i)'
<1>1. Shape(i) /\ js[i] \in Js /\ memory \in [Buffer -> Seq(Value \cup {0})]
  BY DEF Typed, TypeOK
<1>2. js[i].bufferIndex = 0 /\ js[i].bufferCount = 0
  BY <1>1 DEF Shape
<1>3. /\ js'[i].made /\ ~ js'[i].reader /\ js'[i].bufferIndex = 0 /\ js'[i].bufferCount = 0
      /\ js'[i].done <=> b = None
      /\ b = None => js'[i].chunk = None
      /\ b # None => js'[i].bitmap = b /\ js'[i].chunk = buffer /\ js'[i].bufferLength >= 1
      /\ js'[i].bufferReusable => js'[i].chunk = None
  BY <1>2, MadeTyped
<1>4. buffer # None => Len(memory[buffer]) >= 1
  BY DEF Typed, PoolFilled
<1>5. None \notin Array
  BY Assumption DEF Assumption
<1> QED
  BY <1>2, <1>3, <1>4, <1>5 DEF Shape

LEMMA NewIteratorTyped ==
  ASSUME Typed, NEW i \in Iterator, NEW b \in Bitmap \cup {None},
         NEW buffer \in Array \cup {None}, NEW halves \in Halves \cup {None},
         NewIterator(i, b, buffer, halves)
  PROVE  Typed'
<1>1. /\ ~ js[i].made /\ NormalizeIteratorInputs(i, b, buffer, halves)
      /\ UNCHANGED <<bits, version, pool, memory, native, loop, stack, taken, yielded>>
  BY DEF NewIterator
<1>2. MemoryGrows
  BY <1>1, SameMemoryGrows
<1>3. TypeOK'
  <2>1. js' \in [Iterator -> Js]
    BY <1>1, MadeTyped
  <2> QED
    BY <1>1, <2>1 DEF NewIterator, Typed, TypeOK
<1>4. ASSUME NEW j \in Iterator \ {i} PROVE Shape(j)'
  <2>1. js'[j] = js[j]
    BY <1>1, MadeTyped
  <2> QED
    BY <1>1, <1>2, <2>1, ShapeKept DEF Typed, TypeOK
<1>5. loop[i].at = "over"
  BY <1>1 DEF Typed, Shape
<1>6. Shape(i)'
  BY <1>1, <1>5, MadeShape
<1> QED
  BY <1>1, <1>2, <1>3, <1>4, <1>6, PoolFilledKept DEF Typed

LEMMA StartHelperTyped ==
  ASSUME Typed, NEW i \in Iterator, NEW b \in Bitmap,
         NEW helper \in {"forEach", "every", "some", "reduceRight"},
         StartHelper(i, b, helper)
  PROVE  Typed'
<1>1. /\ ~ js[i].made /\ NormalizeIteratorInputs(i, b, None, 2 * DefaultLen)
      /\ UNCHANGED <<bits, version, pool, memory, native, taken, yielded, told>>
      /\ loop' = [loop EXCEPT ![i] =
           [helper |-> helper, index |-> FirstIndex(helper, b), at |-> "next"]]
      /\ stack' = Append(stack, i)
  BY DEF StartHelper
<1>2. MemoryGrows
  BY <1>1, SameMemoryGrows
<1>3. FirstIndex(helper, b) \in Int
  <2>1. bits[b] \in SUBSET Value
    BY DEF Typed, TypeOK
  <2> QED
    BY <2>1, SubsetsFinite DEF FirstIndex
<1>4. loop' \in [Iterator -> Loop]
  BY <1>1, <1>3 DEF Typed, TypeOK, Loop
<1>5. b # None
  BY Assumption DEF Assumption
<1>6. TypeOK'
  <2>1. js' \in [Iterator -> Js]
    BY <1>1, MadeTyped
  <2>2. stack' \in Seq(Iterator)
    BY <1>1, AppendProperties DEF Typed, TypeOK
  <2> QED
    BY <1>1, <1>4, <2>1, <2>2 DEF StartHelper, Typed, TypeOK
<1>7. ASSUME NEW j \in Iterator \ {i} PROVE Shape(j)'
  <2>1. js'[j] = js[j] /\ loop'[j] = loop[j]
    BY <1>1, MadeTyped DEF Typed, TypeOK
  <2> QED
    BY <1>1, <1>2, <2>1, ShapeKept DEF Typed, TypeOK
<1>8. loop'[i].at # "over" => b # None /\ loop'[i].helper # "none"
  BY <1>1, <1>5 DEF Typed, TypeOK, Loop
<1>9. Shape(i)'
  BY <1>1, <1>8, MadeShape
<1> QED
  BY <1>1, <1>2, <1>6, <1>7, <1>9, PoolFilledKept DEF Typed

\* The pool without a chunk that is taken from it.
LEMMA ChunkPool ==
  ASSUME Typed, NEW i \in Iterator
  PROVE  /\ PoolAfterAcquire(i) \in Seq(Iterator)
         /\ \A k \in DOMAIN PoolAfterAcquire(i) : k \in DOMAIN pool /\ PoolAfterAcquire(i)[k] = pool[k]
<1>1. pool \in Seq(Iterator) /\ Len(pool) \in Nat /\ DOMAIN pool = 1..Len(pool)
  BY LenProperties DEF Typed, TypeOK
<1>2. CASE PoolAfterAcquire(i) = pool
  BY <1>1, <1>2
<1>3. CASE PoolAfterAcquire(i) # pool
  <2>1. PoolAfterAcquire(i) = SubSeq(pool, 1, Len(pool) - 1) /\ pool # <<>>
    BY <1>3 DEF PoolAfterAcquire
  <2>2. Len(pool) >= 1
    BY <1>1, <2>1, EmptySeq
  <2>3. /\ SubSeq(pool, 1, Len(pool) - 1) \in Seq(Iterator)
        /\ DOMAIN SubSeq(pool, 1, Len(pool) - 1) = 1..(Len(pool) - 1)
        /\ \A k \in 1..(Len(pool) - 1) : SubSeq(pool, 1, Len(pool) - 1)[k] = pool[k]
    BY <1>1, <2>2
  <2> QED
    BY <1>1, <2>1, <2>2, <2>3
<1> QED
  BY <1>2, <1>3

\* The chunk an iterator goes on with.
LEMMA ChunkFacts ==
  ASSUME Typed, NEW i \in Iterator, js[i].made, ~ js[i].done
  PROVE  /\ Chunk(i) \in Buffer
         /\ ChunkContent(i) \in Seq(Value \cup {0}) /\ Len(ChunkContent(i)) \in Nat \ {0}
         /\ memory[Chunk(i)] # <<>> => ChunkContent(i) = memory[Chunk(i)]
         /\ js[i].chunk # None => Chunk(i) = js[i].chunk /\ ChunkContent(i) = memory[js[i].chunk]
         /\ js[i].chunk = None => Chunk(i) \in Iterator
         /\ PoolAfterAcquire(i) \in Seq(Iterator)
         /\ \A k \in DOMAIN PoolAfterAcquire(i) : k \in DOMAIN pool /\ PoolAfterAcquire(i)[k] = pool[k]
<1>1. /\ js[i] \in Js /\ pool \in Seq(Iterator) /\ memory \in [Buffer -> Seq(Value \cup {0})]
      /\ Shape(i) /\ PoolFilled
  BY DEF Typed, TypeOK
<1>2. Len(pool) \in Nat /\ DOMAIN pool = 1..Len(pool)
  BY <1>1, LenProperties
<1>3. pool # <<>> => Len(pool) \in 1..Len(pool)
  BY <1>1, <1>2, EmptySeq
<1>4. pool # <<>> => pool[Len(pool)] \in Iterator /\ Len(memory[pool[Len(pool)]]) >= 1
  BY <1>1, <1>2, <1>3, ElementOfSeq DEF PoolFilled
<1>5. /\ Chunk(i) \in Buffer
      /\ js[i].chunk # None => Chunk(i) = js[i].chunk
      /\ js[i].chunk = None => Chunk(i) \in Iterator
  BY <1>1, <1>4 DEF Chunk, AcquireIteratorBuffer, Js, Buffer
<1>6. memory[Chunk(i)] \in Seq(Value \cup {0}) /\ Len(memory[Chunk(i)]) \in Nat
  BY <1>1, <1>5, LenProperties
<1>7. memory[Chunk(i)] = <<>> <=> Len(memory[Chunk(i)]) = 0
  BY <1>6, EmptySeq
<1>8. memory[Chunk(i)] # <<>> \/ (Chunk(i) = i /\ js[i].chunk = None)
  <2>1. js[i].chunk # None => Len(memory[js[i].chunk]) >= 1
    BY <1>1 DEF Shape
  <2>2. js[i].chunk = None => Chunk(i) = i \/ (pool # <<>> /\ Chunk(i) = pool[Len(pool)])
    BY DEF Chunk, AcquireIteratorBuffer
  <2>3. CASE js[i].chunk # None
    BY <1>5, <1>7, <2>1, <2>3
  <2>4. CASE js[i].chunk = None /\ Chunk(i) # i
    BY <1>4, <1>7, <2>2, <2>4
  <2> QED
    BY <2>3, <2>4
<1>9. CASE memory[Chunk(i)] # <<>>
  <2>1. ChunkContent(i) = memory[Chunk(i)]
    BY <1>9 DEF ChunkContent
  <2>2. Len(memory[Chunk(i)]) \in Nat \ {0}
    BY <1>6, <1>7, <1>9
  <2> QED
    BY <1>5, <1>6, <2>1, <2>2, ChunkPool
<1>10. CASE memory[Chunk(i)] = <<>>
  <2>1. Chunk(i) = i /\ js[i].chunk = None /\ js[i].bufferLength \in Nat \ {0}
    BY <1>1, <1>8, <1>10 DEF Js, Shape
  <2>2. ChunkContent(i) = [k \in 1..js[i].bufferLength |-> 0]
    BY <1>10, <2>1 DEF ChunkContent
  <2>3. ChunkContent(i) \in Seq(Value \cup {0}) /\ Len(ChunkContent(i)) = js[i].bufferLength
    BY <2>1, <2>2
  <2> QED
    BY <1>5, <1>10, <2>1, <2>3, ChunkPool
<1> QED
  BY <1>9, <1>10

LEMMA RestTyped ==
  ASSUME Typed, NEW i \in Iterator, NEW r \in Native, r.on \in Bitmap
  PROVE  Rest(i, r) \in Seq(Value) /\ Len(Rest(i, r)) \in Nat
<1>1. bits[r.on] \in SUBSET Value
  BY DEF Typed, TypeOK
<1> DEFINE T == { v \in bits[r.on] : IF i \in Reversed THEN v <= r.value ELSE v >= r.value }
<1>2. T \in SUBSET Value
  BY <1>1
<1> HIDE DEF T
<1>3. InOrder(i)[T] \in Seq(Value)
  BY <1>2, OrderedValues, SeqMonotonic
<1>4. Rest(i, r) = <<>> \/ Rest(i, r) = InOrder(i)[T]
  BY DEF Rest, T
<1>5. Rest(i, r) \in Seq(Value)
  BY <1>3, <1>4, EmptySeq
<1> QED
  BY <1>5, LenProperties

\* What a fill does to a chunk and to the native iterator.
LEMMA FillFacts ==
  ASSUME Typed, NEW i \in Iterator, NEW r \in Native, r.on \in Bitmap,
         NEW content \in Seq(Value \cup {0}), r.length = Len(content)
  PROVE  /\ FillCount(i, r) \in 0..Len(content) /\ FillCount(i, r) <= Len(Rest(i, r))
         /\ FilledChunk(i, r, content) \in Seq(Value \cup {0})
         /\ Len(FilledChunk(i, r, content)) = Len(content)
         /\ \A k \in 1..FillCount(i, r) : FilledChunk(i, r, content)[k] = Rest(i, r)[k]
         /\ \A k \in 1..FillCount(i, r) : FilledChunk(i, r, content)[k] \in Value
         /\ \A k \in 1..Len(content) :
              content[k] \in Value => FilledChunk(i, r, content)[k] \in Value
         /\ Filled(i, r) \in Native
         /\ FillCount(i, r) > 0 => /\ Filled(i, r).on = r.on /\ Filled(i, r).length = r.length
                                   /\ Filled(i, r).version = r.version
<1> DEFINE rest == Rest(i, r)
           n == FillCount(i, r)
<1>1. rest \in Seq(Value) /\ Len(rest) \in Nat /\ DOMAIN rest = 1..Len(rest)
  BY RestTyped, LenProperties
<1>2. Len(content) \in Nat /\ DOMAIN content = 1..Len(content)
  BY LenProperties
<1>3. n \in 0..Len(content) /\ n <= Len(rest) /\ n = AtMost(Len(rest), Len(content))
  BY <1>1, <1>2 DEF FillCount, AtMost
<1>4. \A k \in 1..Len(rest) : rest[k] \in Value
  BY <1>1, ElementOfSeq
<1>5. FilledChunk(i, r, content) = [ k \in 1..Len(content) |-> IF k <= n THEN rest[k] ELSE content[k] ]
  BY <1>2 DEF FilledChunk
<1>6. Filled(i, r) = IF n = 0 THEN [r EXCEPT !.on = None, !.buffer = None, !.length = 0]
                     ELSE [r EXCEPT !.hasValue = n < Len(rest),
                                    !.value = IF n < Len(rest) THEN rest[n + 1] ELSE 0]
  BY DEF Filled
<1>7. Value \subseteq Nat
  BY Assumption DEF Assumption
<1> HIDE DEF rest, n
<1>8. \A k \in 1..Len(content) : content[k] \in Value \cup {0}
  BY ElementOfSeq
<1>9. \A k \in 1..Len(content) : (IF k <= n THEN rest[k] ELSE content[k]) \in Value \cup {0}
  BY <1>1, <1>2, <1>3, <1>4, <1>8
<1>10. /\ FilledChunk(i, r, content) \in Seq(Value \cup {0})
       /\ Len(FilledChunk(i, r, content)) = Len(content)
  BY <1>2, <1>5, <1>9
<1>11. \A k \in 1..n : FilledChunk(i, r, content)[k] = rest[k] /\ rest[k] \in Value
  BY <1>1, <1>2, <1>3, <1>4, <1>5
<1>12. \A k \in 1..Len(content) : content[k] \in Value => FilledChunk(i, r, content)[k] \in Value
  BY <1>1, <1>2, <1>3, <1>4, <1>5
<1>13. Filled(i, r) \in Native
  <2>1. n < Len(rest) => rest[n + 1] \in Nat
    <3>1. n < Len(rest) => n + 1 \in 1..Len(rest)
      BY <1>1, <1>2, <1>3
    <3> QED
      BY <1>4, <1>7, <3>1
  <2>2. CASE n = 0
    <3>1. Filled(i, r) = [r EXCEPT !.on = None, !.buffer = None, !.length = 0]
      BY <1>6, <2>2
    <3>2. Filled(i, r) = [on |-> None, version |-> r.version, buffer |-> None, length |-> 0,
                          hasValue |-> r.hasValue, value |-> r.value]
      BY <3>1 DEF Native
    <3>3. r.hasValue \in BOOLEAN /\ r.value \in Nat /\ r.version \in Nat
      BY DEF Native
    <3> QED
      BY <3>2, <3>3 DEF Native
  <2>3. CASE n # 0
    <3>1. (n < Len(rest)) \in BOOLEAN /\ (IF n < Len(rest) THEN rest[n + 1] ELSE 0) \in Nat
      BY <2>1
    <3>2. Filled(i, r) = [r EXCEPT !.hasValue = n < Len(rest),
                                   !.value = IF n < Len(rest) THEN rest[n + 1] ELSE 0]
      BY <1>6, <2>3
    <3> QED
      BY <3>1, <3>2 DEF Native
  <2> QED
    BY <2>2, <2>3
<1>14. n > 0 => /\ Filled(i, r).on = r.on /\ Filled(i, r).length = r.length
                /\ Filled(i, r).version = r.version
  BY <1>3, <1>6 DEF Native
<1> QED
  BY <1>3, <1>10, <1>11, <1>12, <1>13, <1>14 DEF rest, n

\* What a helper does after an answer.
LEMMA AnswerTyped ==
  ASSUME Typed, NEW i \in Iterator, NEW result \in {"value", "end", "throws"},
         Answer(i, result), Asked(i)
  PROVE  /\ loop' \in [Iterator -> Loop] /\ stack' \in Seq(Iterator)
         /\ \A j \in Iterator \ {i} : loop'[j] = loop[j]
         /\ loop'[i].helper = loop[i].helper
         /\ result = "value" /\ loop[i].helper # "none" => loop'[i].at = "callback"
         /\ result # "value" /\ loop[i].helper # "none" => loop'[i].at = "over"
         /\ loop[i].helper = "none" => loop'[i] = loop[i]
         /\ loop'[i].at # "over" => loop'[i].helper # "none" /\ result = "value"
<1>1. /\ loop' = [loop EXCEPT ![i] = HelperAfter(i, result)]
      /\ stack' = IF loop[i].helper = "none" \/ HelperAfter(i, result).at # "over" THEN stack
                  ELSE SubSeq(stack, 1, Len(stack) - 1)
  BY DEF Answer
<1>2. loop \in [Iterator -> Loop] /\ loop[i] \in Loop /\ stack \in Seq(Iterator) /\ Shape(i)
  BY DEF Typed, TypeOK
<1>3. HelperAfter(i, result) = IF loop[i].helper = "none" THEN loop[i]
        ELSE [loop[i] EXCEPT !.at = IF result = "value" THEN "callback" ELSE "over"]
  BY DEF HelperAfter
<1>4. HelperAfter(i, result) \in Loop
  BY <1>2, <1>3 DEF Loop
<1>5. stack' \in Seq(Iterator)
  <2>1. Len(stack) \in Nat
    BY <1>2, LenProperties
  <2>2. SubSeq(stack, 1, Len(stack) - 1) \in Seq(Iterator)
    BY <1>2, <2>1
  <2> QED
    BY <1>1, <1>2, <2>2
<1>6. loop[i].helper = "none" => loop[i].at = "over"
  BY <1>2 DEF Shape
<1> QED
  BY <1>1, <1>2, <1>3, <1>4, <1>5, <1>6 DEF Loop

\* Handing out a value, and what a helper does then.
LEMMA HandOutTyped ==
  ASSUME Typed, NEW i \in Iterator, NEW v \in Value, HandOut(i, v), Asked(i)
  PROVE  /\ yielded' \in [Iterator -> Seq(Value)]
         /\ told' \in [Iterator -> {"ready", "going", "ended", "failed", "stopped"}]
         /\ loop' \in [Iterator -> Loop] /\ stack' \in Seq(Iterator)
         /\ \A j \in Iterator \ {i} : loop'[j] = loop[j]
         /\ loop'[i].at # "over" => loop'[i].helper # "none"
<1>1. /\ yielded' = [yielded EXCEPT ![i] = Append(@, v)]
      /\ told' = [told EXCEPT ![i] = "going"]
      /\ Answer(i, "value")
  BY DEF HandOut
<1>2. yielded[i] \in Seq(Value)
  BY DEF Typed, TypeOK
<1>3. Append(yielded[i], v) \in Seq(Value)
  BY <1>2, AppendProperties
<1> QED
  BY <1>1, <1>3, AnswerTyped DEF Typed, TypeOK

\* A chunk that was filled has kept what Shape asks of it.
LEMMA ChunkGrows ==
  ASSUME Typed, NEW i \in Iterator, js[i].made, ~ js[i].done,
         NEW content \in Seq(Value \cup {0}), Len(content) = Len(ChunkContent(i)),
         \A k \in 1..Len(content) : ChunkContent(i)[k] \in Value => content[k] \in Value,
         memory' = [memory EXCEPT ![Chunk(i)] = content]
  PROVE  /\ MemoryGrows /\ memory' \in [Buffer -> Seq(Value \cup {0})]
         /\ memory'[Chunk(i)] = content
<1>1. Chunk(i) \in Buffer /\ memory \in [Buffer -> Seq(Value \cup {0})]
  BY ChunkFacts DEF Typed, TypeOK
<1>2. ASSUME Len(memory[Chunk(i)]) >= 1 PROVE ChunkContent(i) = memory[Chunk(i)]
  <2>1. memory[Chunk(i)] # <<>>
    BY <1>2, EmptySeq
  <2> QED
    BY <2>1, ChunkFacts
<1> QED
  BY <1>1, <1>2 DEF MemoryGrows

LEMMA ReleasedPool ==
  ASSUME Typed, NEW i \in Iterator, NEW p \in Seq(Iterator), NEW chunk \in Buffer \cup {None},
         js[i].bufferReusable => chunk \notin Array
  PROVE  /\ PoolAfterRelease(i, chunk, p) \in Seq(Iterator)
         /\ \/ PoolAfterRelease(i, chunk, p) = p
            \/ /\ PoolAfterRelease(i, chunk, p) = Append(p, chunk)
               /\ js[i].bufferReusable /\ chunk \in Iterator /\ Len(p) < PoolMax
<1>1. CASE js[i].bufferReusable /\ chunk # None /\ Len(p) < PoolMax
  <2>1. PoolAfterRelease(i, chunk, p) = Append(p, chunk) /\ chunk \in Iterator
    BY <1>1 DEF PoolAfterRelease, Buffer
  <2> QED
    BY <1>1, <2>1, AppendProperties
<1>2. CASE ~ (js[i].bufferReusable /\ chunk # None /\ Len(p) < PoolMax)
  BY <1>2 DEF PoolAfterRelease
<1> QED
  BY <1>1, <1>2

\* Buffers that come to a pool whose buffers are filled.
LEMMA PoolStaysFilled ==
  ASSUME Typed, MemoryGrows, NEW i \in Iterator, NEW p \in Seq(Iterator),
         NEW chunk \in Buffer \cup {None}, js[i].bufferReusable => chunk \notin Array,
         \A k \in DOMAIN p : k \in DOMAIN pool /\ p[k] = pool[k],
         chunk # None => Len(memory'[chunk]) >= 1,
         pool' = PoolAfterRelease(i, chunk, p) \/ pool' = p
  PROVE  pool' \in Seq(Iterator) /\ PoolFilled'
<1>1. /\ p \in Seq(Iterator) /\ Len(p) \in Nat /\ DOMAIN p = 1..Len(p)
      /\ pool \in Seq(Iterator) /\ DOMAIN pool = 1..Len(pool)
  BY LenProperties DEF Typed, TypeOK
<1>2. ASSUME NEW k \in DOMAIN p PROVE Len(memory'[p[k]]) >= 1
  <2>1. p[k] \in Iterator /\ Len(memory[p[k]]) >= 1
    BY <1>1, ElementOfSeq DEF Typed, PoolFilled
  <2> QED
    BY <2>1 DEF MemoryGrows, Buffer
<1>3. ASSUME NEW a \in Array PROVE Len(memory'[a]) >= 1
  BY DEF Typed, PoolFilled, MemoryGrows, Buffer
<1>4. CASE pool' = p
  BY <1>1, <1>2, <1>3, <1>4 DEF PoolFilled
<1>5. CASE pool' = Append(p, chunk) /\ chunk \in Iterator
  <2>1. /\ pool' \in Seq(Iterator) /\ DOMAIN pool' = 1..(Len(p) + 1)
        /\ \A k \in 1..Len(p) : pool'[k] = p[k]
        /\ pool'[Len(p) + 1] = chunk
    <3>1. p \in Seq(Iterator) /\ chunk \in Iterator
      BY <1>1, <1>5, Zenon
    <3>2. /\ Append(p, chunk) \in Seq(Iterator) /\ DOMAIN Append(p, chunk) = 1..(Len(p) + 1)
          /\ \A k \in 1..Len(p) : Append(p, chunk)[k] = p[k]
          /\ Append(p, chunk)[Len(p) + 1] = chunk
      BY ONLY <3>1, Appended
    <3> QED
      BY <1>5, <3>2
  <2>2. chunk # None
    BY <1>5, Assumption DEF Assumption
  <2> QED
    BY <1>1, <1>2, <1>3, <2>1, <2>2 DEF PoolFilled
<1> QED
  BY <1>4, <1>5, ReleasedPool

\* A fill, by a native iterator over a bitmap, that ends in a value or at the end.
LEMMA AfterFillTyped ==
  ASSUME Typed, NEW i \in Iterator, NEW r \in Native, r.on \in Bitmap,
         r.version <= version[r.on], r.length = Len(ChunkContent(i)),
         NEW p \in Seq(Iterator), \A k \in DOMAIN p : k \in DOMAIN pool /\ p[k] = pool[k],
         MustFill(i), AfterFill(i, r, p), UNCHANGED <<bits, version, over>>,
         taken' \in [Iterator -> Seq(Value)]
  PROVE  Typed'
<1> DEFINE content == FilledChunk(i, r, ChunkContent(i))
           n == FillCount(i, r)
<1>1. /\ js[i] \in Js /\ js \in [Iterator -> Js] /\ Shape(i) /\ js[i].made /\ ~ js[i].done
      /\ Asked(i) /\ native \in [Iterator -> Native]
  BY DEF Typed, TypeOK, MustFill, Asked
<1>2. /\ Chunk(i) \in Buffer /\ ChunkContent(i) \in Seq(Value \cup {0})
      /\ Len(ChunkContent(i)) \in Nat \ {0}
      /\ js[i].chunk # None => Chunk(i) = js[i].chunk
      /\ js[i].chunk = None => Chunk(i) \in Iterator
  BY <1>1, ChunkFacts
<1>3. /\ n \in 0..Len(ChunkContent(i))
      /\ content \in Seq(Value \cup {0}) /\ Len(content) = Len(ChunkContent(i))
      /\ \A k \in 1..n : content[k] \in Value
      /\ \A k \in 1..Len(content) : ChunkContent(i)[k] \in Value => content[k] \in Value
      /\ Filled(i, r) \in Native
      /\ n > 0 => /\ Filled(i, r).on = r.on /\ Filled(i, r).length = r.length
                  /\ Filled(i, r).version = r.version
  BY <1>2, FillFacts
<1>4. memory' = [memory EXCEPT ![Chunk(i)] = content]
  BY DEF AfterFill
<1> HIDE DEF content
<1>5. MemoryGrows /\ memory' \in [Buffer -> Seq(Value \cup {0})] /\ memory'[Chunk(i)] = content
  BY <1>1, <1>2, <1>3, <1>4, ChunkGrows
<1>6. js[i].bufferReusable => Chunk(i) \notin Array
  <2>1. Iterator \cap Array = {}
    BY Assumption DEF Assumption
  <2> QED
    BY <1>1, <1>2, <2>1 DEF Shape
<1>7. Chunk(i) # None /\ \A b \in Bitmap : version'[b] \in Nat /\ version'[b] >= version[b]
  <2>1. None \notin Buffer
    BY Assumption DEF Assumption, Buffer
  <2> QED
    BY <1>2, <2>1 DEF Typed, TypeOK
<1>8. Len(memory'[Chunk(i)]) >= 1
  BY <1>2, <1>3, <1>5
<1>9. CASE n > 0
  <2>1. /\ native' = [native EXCEPT ![i] = Filled(i, r)] /\ pool' = p
        /\ js' = [js EXCEPT ![i].bitmap = None, ![i].chunk = Chunk(i), ![i].reader = TRUE,
                            ![i].bufferIndex = 1, ![i].bufferCount = n]
        /\ HandOut(i, content[1])
    BY <1>9 DEF AfterFill, content
  <2>2. content[1] \in Value
    BY <1>3, <1>9
  <2>3. /\ yielded' \in [Iterator -> Seq(Value)]
        /\ told' \in [Iterator -> {"ready", "going", "ended", "failed", "stopped"}]
        /\ loop' \in [Iterator -> Loop] /\ stack' \in Seq(Iterator)
        /\ \A j \in Iterator \ {i} : loop'[j] = loop[j]
        /\ loop'[i].at # "over" => loop'[i].helper # "none"
    BY <1>1, <2>1, <2>2, HandOutTyped
  <2>4. n \in Nat /\ n >= 1
    BY <1>3, <1>9
  <2> HIDE DEF n
  <2>5. /\ js' \in [Iterator -> Js]
        /\ js'[i].made = js[i].made /\ js'[i].done = js[i].done /\ js'[i].reader
        /\ js'[i].chunk = Chunk(i) /\ js'[i].bufferIndex = 1 /\ js'[i].bufferCount = n
        /\ js'[i].bufferReusable = js[i].bufferReusable
        /\ \A j \in Iterator \ {i} : js'[j] = js[j]
    BY <1>1, <1>2, <2>1, <2>4 DEF Js
  <2>6. /\ native' \in [Iterator -> Native] /\ native'[i] = Filled(i, r)
        /\ \A j \in Iterator \ {i} : native'[j] = native[j]
    BY <1>1, <1>3, <2>1
  <2>7. pool' \in Seq(Iterator) /\ PoolFilled'
    <3>1. Chunk(i) \in Buffer \cup {None}
      BY <1>2
    <3>2. pool' = PoolAfterRelease(i, Chunk(i), p) \/ pool' = p
      BY <2>1
    <3> QED
      BY <1>5, <1>6, <1>8, <3>1, <3>2, PoolStaysFilled
  <2>8. TypeOK'
    BY <1>5, <2>3, <2>5, <2>6, <2>7 DEF TypeOK, Typed
  <2>9. ASSUME NEW j \in Iterator \ {i} PROVE Shape(j)'
    BY <1>5, <1>7, <2>3, <2>5, <2>6, ShapeKept
  <2>10. Shape(i)'
    <3>1. native'[i].on \in Bitmap /\ native'[i].length = Len(memory'[js'[i].chunk])
      BY <1>3, <1>5, <2>4, <2>5, <2>6
    <3>2. native'[i].version <= version'[native'[i].on]
      BY <1>3, <2>4, <2>6
    <3>3. n <= Len(memory'[js'[i].chunk]) /\ \A k \in 1..n : memory'[js'[i].chunk][k] \in Value
      BY <1>2, <1>3, <1>5, <2>5
    <3> QED
      BY <1>1, <1>6, <1>7, <1>8, <2>3, <2>4, <2>5, <3>1, <3>2, <3>3 DEF Shape
  <2> QED
    BY <2>7, <2>8, <2>9, <2>10 DEF Typed
<1>10. CASE n = 0
  <2>1. /\ native' = [native EXCEPT ![i] = ClosedReader]
        /\ pool' = PoolAfterRelease(i, Chunk(i), p)
        /\ js' = [js EXCEPT ![i].bitmap = None, ![i].chunk = None, ![i].reader = FALSE,
                            ![i].bufferReusable = FALSE, ![i].bufferIndex = 0,
                            ![i].bufferCount = 0, ![i].done = TRUE]
        /\ told' = [told EXCEPT ![i] = "ended"]
        /\ Answer(i, "end") /\ UNCHANGED yielded
    <3>1. ~ FillCount(i, r) > 0
      BY <1>10
    <3> QED
      BY <3>1 DEF AfterFill
  <2>2. /\ loop' \in [Iterator -> Loop] /\ stack' \in Seq(Iterator)
        /\ \A j \in Iterator \ {i} : loop'[j] = loop[j]
        /\ loop'[i].at = "over"
    BY <1>1, <2>1, AnswerTyped
  <2>3. /\ js' \in [Iterator -> Js]
        /\ js'[i].made /\ js'[i].done /\ ~ js'[i].reader /\ js'[i].chunk = None
        /\ ~ js'[i].bufferReusable
        /\ \A j \in Iterator \ {i} : js'[j] = js[j]
    <3>1. js'[i] = [js[i] EXCEPT !.bitmap = None, !.chunk = None, !.reader = FALSE,
                                 !.bufferReusable = FALSE, !.bufferIndex = 0,
                                 !.bufferCount = 0, !.done = TRUE]
      BY <1>1, <2>1
    <3>2. /\ js'[i] \in Js
          /\ js'[i].made /\ js'[i].done /\ ~ js'[i].reader /\ js'[i].chunk = None
          /\ ~ js'[i].bufferReusable
      <4>1. js'[i] = [made |-> js[i].made, bitmap |-> None, chunk |-> None,
                      bufferLength |-> js[i].bufferLength, bufferReusable |-> FALSE,
                      bufferIndex |-> 0, bufferCount |-> 0, reader |-> FALSE, done |-> TRUE]
        BY <1>1, <3>1 DEF Js
      <4>2. js[i].made \in BOOLEAN /\ js[i].bufferLength \in Nat
        BY <1>1 DEF Js
      <4> QED
        BY <1>1, <4>1, <4>2 DEF Js
    <3>3. js' \in [Iterator -> Js] /\ \A j \in Iterator \ {i} : js'[j] = js[j]
      BY <1>1, <2>1, <3>1, <3>2
    <3> QED
      BY <3>2, <3>3
  <2>4. /\ native' \in [Iterator -> Native]
        /\ \A j \in Iterator \ {i} : native'[j] = native[j]
    <3>1. ClosedReader \in Native
      BY DEF ClosedReader, Native
    <3> QED
      BY <1>1, <2>1, <3>1
  <2>5. pool' \in Seq(Iterator) /\ PoolFilled'
    BY <1>2, <1>5, <1>6, <1>8, <2>1, PoolStaysFilled
  <2>6. TypeOK'
    BY <1>5, <2>1, <2>2, <2>3, <2>4, <2>5 DEF TypeOK, Typed
  <2>7. ASSUME NEW j \in Iterator \ {i} PROVE Shape(j)'
    BY <1>5, <1>7, <2>2, <2>3, <2>4, ShapeKept
  <2>8. Shape(i)'
    BY <2>2, <2>3 DEF Shape
  <2> QED
    BY <2>5, <2>6, <2>7, <2>8 DEF Typed
<1> QED
  BY <1>3, <1>9, <1>10
LEMMA OpenedFacts ==
  ASSUME Typed, NEW i \in Iterator, NEW b \in Bitmap, NEW chunk \in Buffer,
         Len(ChunkContent(i)) \in Nat
  PROVE  /\ Opened(i, b, chunk) \in Native
         /\ Opened(i, b, chunk).on = b /\ Opened(i, b, chunk).length = Len(ChunkContent(i))
         /\ Opened(i, b, chunk).version = version[b] /\ version[b] <= version[b]
         /\ InOrder(i)[bits[b]] \in Seq(Value)
<1> DEFINE all == InOrder(i)[bits[b]]
<1>1. bits[b] \in SUBSET Value /\ version[b] \in Nat /\ Value \subseteq Nat
  BY Assumption DEF Assumption, Typed, TypeOK
<1>2. all \in Seq(Value)
  BY <1>1, OrderedValues, SeqMonotonic
<1>3. (IF all = <<>> THEN 0 ELSE all[1]) \in Nat
  <2>1. all # <<>> => 1 \in 1..Len(all)
    BY <1>2, EmptySeq
  <2> QED
    BY <1>1, <1>2, <2>1, ElementOfSeq
<1> DEFINE first == IF all = <<>> THEN 0 ELSE all[1]
           some == all # <<>>
<1>4. Opened(i, b, chunk) = [on |-> b, version |-> version[b], buffer |-> chunk,
                             length |-> Len(ChunkContent(i)), hasValue |-> some, value |-> first]
  BY DEF Opened
<1>5. first \in Nat /\ some \in BOOLEAN
  BY <1>3
<1>6. all \in Seq(Value)
  BY <1>2
<1> HIDE DEF all, first, some
<1>7. Opened(i, b, chunk) \in Native
  BY <1>1, <1>4, <1>5 DEF Native
<1> QED
  BY <1>1, <1>4, <1>6, <1>7 DEF all

LEMMA NextOpensTyped == ASSUME Typed, NEW i \in Iterator, NextOpens(i) PROVE Typed'
<1> DEFINE b == js[i].bitmap
           r == Opened(i, b, Chunk(i))
<1>1. /\ MustFill(i) /\ ~ js[i].reader /\ js[i].made /\ ~ js[i].done
      /\ taken' = [taken EXCEPT ![i] = InOrder(i)[bits[b]]]
      /\ AfterFill(i, r, PoolAfterAcquire(i)) /\ UNCHANGED <<bits, version, over>>
  BY DEF NextOpens, MustFill, Asked
<1>2. b \in Bitmap
  BY <1>1 DEF Typed, Shape
<1>3. /\ Chunk(i) \in Buffer /\ Len(ChunkContent(i)) \in Nat \ {0}
      /\ PoolAfterAcquire(i) \in Seq(Iterator)
      /\ \A k \in DOMAIN PoolAfterAcquire(i) : k \in DOMAIN pool /\ PoolAfterAcquire(i)[k] = pool[k]
  BY <1>1, ChunkFacts
<1>4. /\ r \in Native /\ r.on = b /\ r.length = Len(ChunkContent(i))
      /\ r.version = version[b] /\ version[b] <= version[b]
      /\ InOrder(i)[bits[b]] \in Seq(Value)
  BY <1>2, <1>3, OpenedFacts
<1>5. taken' \in [Iterator -> Seq(Value)]
  BY <1>1, <1>4 DEF Typed, TypeOK
<1> HIDE DEF r, b
<1> QED
  BY <1>1, <1>2, <1>3, <1>4, <1>5, AfterFillTyped

LEMMA NextRefillsTyped == ASSUME Typed, NEW i \in Iterator, NextRefills(i) PROVE Typed'
<1>1. /\ MustFill(i) /\ js[i].reader /\ js[i].made /\ ~ js[i].done
      /\ AfterFill(i, native[i], pool) /\ UNCHANGED <<bits, version, over, taken>>
  BY DEF NextRefills, MustFill, Asked
<1>2. /\ native[i] \in Native /\ native[i].on \in Bitmap
      /\ native[i].version <= version[native[i].on]
      /\ js[i].chunk # None /\ native[i].length = Len(memory[js[i].chunk])
  BY <1>1 DEF Typed, TypeOK, Shape
<1>3. ChunkContent(i) = memory[js[i].chunk]
  BY <1>1, <1>2, ChunkFacts
<1>4. /\ pool \in Seq(Iterator) /\ taken' \in [Iterator -> Seq(Value)]
      /\ \A k \in DOMAIN pool : k \in DOMAIN pool /\ pool[k] = pool[k]
  BY <1>1 DEF Typed, TypeOK
<1>5. native[i].length = Len(ChunkContent(i))
  BY <1>2, <1>3
<1> QED
  BY <1>1, <1>2, <1>4, <1>5, AfterFillTyped

LEMMA NextBufferedTyped == ASSUME Typed, NEW i \in Iterator, NextBuffered(i) PROVE Typed'
<1> DEFINE v == memory[js[i].chunk][js[i].bufferIndex + 1]
<1>1. /\ Asked(i) /\ js[i].made /\ ~ js[i].done
      /\ js[i].bufferIndex < js[i].bufferCount
      /\ js' = [js EXCEPT ![i].bufferIndex = @ + 1]
      /\ HandOut(i, v)
      /\ UNCHANGED <<bits, version, pool, memory, native, over, taken>>
  BY DEF NextBuffered, Asked
<1>2. js[i] \in Js /\ Shape(i) /\ js \in [Iterator -> Js]
  BY DEF Typed, TypeOK
<1>3. js[i].bufferIndex \in Nat /\ js[i].bufferCount \in Nat
  BY <1>2 DEF Js
<1>4. js[i].reader
  BY <1>1, <1>2, <1>3 DEF Shape
<1>5. v \in Value
  <2>1. js[i].bufferIndex + 1 \in 1..js[i].bufferCount
    BY <1>1, <1>3
  <2> QED
    BY <1>2, <1>4, <2>1 DEF Shape
<1> HIDE DEF v
<1>6. /\ js' \in [Iterator -> Js] /\ js'[i] = [js[i] EXCEPT !.bufferIndex = @ + 1]
      /\ \A j \in Iterator \ {i} : js'[j] = js[j]
  BY <1>1, <1>2, <1>3 DEF Js
<1>7. /\ yielded' \in [Iterator -> Seq(Value)]
      /\ told' \in [Iterator -> {"ready", "going", "ended", "failed", "stopped"}]
      /\ loop' \in [Iterator -> Loop] /\ stack' \in Seq(Iterator)
      /\ \A j \in Iterator \ {i} : loop'[j] = loop[j]
      /\ loop'[i].at # "over" => loop'[i].helper # "none"
  BY <1>1, <1>5, HandOutTyped
<1>8. TypeOK'
  BY <1>1, <1>6, <1>7 DEF Typed, TypeOK
<1>9. MemoryGrows /\ \A b \in Bitmap : version'[b] \in Nat /\ version'[b] >= version[b]
  BY <1>1, SameMemoryGrows DEF Typed, TypeOK
<1>10. ASSUME NEW j \in Iterator \ {i} PROVE Shape(j)'
  <2>1. js'[j] = js[j] /\ native'[j] = native[j] /\ loop'[j] = loop[j]
    BY <1>1, <1>6, <1>7
  <2> QED
    BY <1>9, <2>1, ShapeKept
<1>11. Shape(i)'
  <2>1. /\ js'[i].made = js[i].made /\ js'[i].done = js[i].done
        /\ js'[i].reader = js[i].reader /\ js'[i].chunk = js[i].chunk
        /\ js'[i].bufferReusable = js[i].bufferReusable
        /\ js'[i].bufferCount = js[i].bufferCount
        /\ js'[i].bufferIndex = js[i].bufferIndex + 1
    BY <1>2, <1>6 DEF Js
  <2> QED
    BY <1>1, <1>2, <1>3, <1>4, <1>7, <2>1 DEF Shape
<1> QED
  BY <1>1, <1>8, <1>9, <1>10, <1>11, PoolFilledKept DEF Typed

LEMMA NextOpensFailsTyped == ASSUME Typed, NEW i \in Iterator, NextOpensFails(i) PROVE Typed'
<1>1. /\ Asked(i) /\ ~ js[i].reader /\ js[i].made /\ ~ js[i].done
      /\ js' = [js EXCEPT ![i].chunk = Chunk(i)]
      /\ memory' = [memory EXCEPT ![Chunk(i)] = ChunkContent(i)]
      /\ pool' = PoolAfterAcquire(i)
      /\ Answer(i, "throws")
      /\ UNCHANGED <<bits, version, native, over, taken, yielded, told>>
  BY DEF NextOpensFails, MustFill, Asked
<1>2. js[i] \in Js /\ Shape(i) /\ js \in [Iterator -> Js]
  BY DEF Typed, TypeOK
<1>3. /\ Chunk(i) \in Buffer /\ ChunkContent(i) \in Seq(Value \cup {0})
      /\ Len(ChunkContent(i)) \in Nat \ {0}
      /\ js[i].chunk # None => Chunk(i) = js[i].chunk
      /\ js[i].chunk = None => Chunk(i) \in Iterator
      /\ PoolAfterAcquire(i) \in Seq(Iterator)
      /\ \A k \in DOMAIN PoolAfterAcquire(i) : k \in DOMAIN pool /\ PoolAfterAcquire(i)[k] = pool[k]
  BY <1>1, ChunkFacts
<1>4. MemoryGrows /\ memory' \in [Buffer -> Seq(Value \cup {0})] /\ memory'[Chunk(i)] = ChunkContent(i)
  BY <1>1, <1>3, ChunkGrows
<1>5. Chunk(i) # None /\ js[i].bufferReusable => Chunk(i) \notin Array
  <2>1. Iterator \cap Array = {}
    BY Assumption DEF Assumption
  <2> QED
    BY <1>2, <1>3, <2>1 DEF Shape
<1>6. Chunk(i) # None
  BY <1>3, Assumption DEF Assumption, Buffer
<1>7. js' \in [Iterator -> Js] /\ js'[i] = [js[i] EXCEPT !.chunk = Chunk(i)]
      /\ \A j \in Iterator \ {i} : js'[j] = js[j]
  BY <1>1, <1>2, <1>3 DEF Js
<1>8. /\ loop' \in [Iterator -> Loop] /\ stack' \in Seq(Iterator)
      /\ \A j \in Iterator \ {i} : loop'[j] = loop[j]
      /\ loop'[i].at = "over"
  BY <1>1, AnswerTyped
<1>9. pool' \in Seq(Iterator) /\ PoolFilled'
  <2>1. Chunk(i) \in Buffer \cup {None} /\ Len(memory'[Chunk(i)]) >= 1
    BY <1>3, <1>4
  <2>2. js[i].bufferReusable => Chunk(i) \notin Array
    BY <1>5, <1>6
  <2> QED
    BY <1>1, <1>3, <1>4, <2>1, <2>2, PoolStaysFilled
<1>10. TypeOK'
  BY <1>1, <1>4, <1>7, <1>8, <1>9 DEF Typed, TypeOK
<1>11. \A b \in Bitmap : version'[b] \in Nat /\ version'[b] >= version[b]
  BY <1>1 DEF Typed, TypeOK
<1>12. ASSUME NEW j \in Iterator \ {i} PROVE Shape(j)'
  <2>1. js'[j] = js[j] /\ native'[j] = native[j] /\ loop'[j] = loop[j]
    BY <1>1, <1>7, <1>8
  <2> QED
    BY <1>4, <1>11, <2>1, ShapeKept
<1>13. Shape(i)'
  <2>1. /\ js'[i].made = js[i].made /\ js'[i].done = js[i].done
        /\ js'[i].reader = js[i].reader /\ js'[i].chunk = Chunk(i)
        /\ js'[i].bitmap = js[i].bitmap
        /\ js'[i].bufferReusable = js[i].bufferReusable
        /\ js'[i].bufferCount = 0 /\ js'[i].bufferIndex = 0
    BY <1>1, <1>2, <1>7 DEF Js, Shape
  <2> QED
    BY <1>1, <1>2, <1>3, <1>4, <1>5, <1>6, <1>8, <2>1 DEF Shape
<1> QED
  BY <1>9, <1>10, <1>12, <1>13 DEF Typed

LEMMA NextThrowsTyped == ASSUME Typed, NEW i \in Iterator, NextThrows(i) PROVE Typed'
<1>1. /\ Asked(i) /\ Answer(i, "throws") /\ told' = [told EXCEPT ![i] = "failed"]
      /\ UNCHANGED <<bits, version, pool, memory, js, native, over, taken, yielded>>
  BY DEF NextThrows, MustFill
<1>2. /\ loop' \in [Iterator -> Loop] /\ stack' \in Seq(Iterator)
      /\ \A j \in Iterator \ {i} : loop'[j] = loop[j]
      /\ loop'[i].at = "over"
  BY <1>1, AnswerTyped
<1>3. TypeOK'
  BY <1>1, <1>2 DEF Typed, TypeOK
<1>4. MemoryGrows /\ \A b \in Bitmap : version'[b] \in Nat /\ version'[b] >= version[b]
  BY <1>1, SameMemoryGrows DEF Typed, TypeOK
<1>5. ASSUME NEW j \in Iterator \ {i} PROVE Shape(j)'
  BY <1>1, <1>2, <1>4, ShapeKept
<1>6. Shape(i)'
  <2>1. Shape(i) /\ js'[i].made
    BY <1>1 DEF Typed, Asked
  <2> QED
    BY <1>1, <1>2, <2>1 DEF Shape
<1> QED
  BY <1>1, <1>3, <1>4, <1>5, <1>6, PoolFilledKept DEF Typed
LEMMA ReturnTyped ==
  ASSUME Typed, NEW i \in Iterator, js[i].made, Return(i),
         loop' \in [Iterator -> Loop], stack' \in Seq(Iterator), loop'[i].at = "over",
         \A j \in Iterator \ {i} : loop'[j] = loop[j]
  PROVE  Typed'
<1>1. /\ js' = [js EXCEPT ![i].bitmap = None, ![i].chunk = None, ![i].reader = FALSE,
                          ![i].bufferReusable = FALSE, ![i].done = TRUE]
      /\ native' = [native EXCEPT ![i] = ClosedReader]
      /\ pool' = PoolAfterRelease(i, js[i].chunk, pool)
      /\ told' = [told EXCEPT ![i] = "stopped"]
      /\ UNCHANGED <<bits, version, memory, over, taken, yielded>>
  BY DEF Return
<1>2. js[i] \in Js /\ Shape(i) /\ js \in [Iterator -> Js] /\ pool \in Seq(Iterator)
  BY DEF Typed, TypeOK
<1>3. /\ js' \in [Iterator -> Js] /\ \A j \in Iterator \ {i} : js'[j] = js[j]
      /\ js'[i].made /\ js'[i].done /\ ~ js'[i].reader /\ js'[i].chunk = None
      /\ ~ js'[i].bufferReusable
  <2>1. js'[i] = [js[i] EXCEPT !.bitmap = None, !.chunk = None, !.reader = FALSE,
                               !.bufferReusable = FALSE, !.done = TRUE]
    BY <1>1, <1>2
  <2>2. js'[i] = [made |-> js[i].made, bitmap |-> None, chunk |-> None,
                  bufferLength |-> js[i].bufferLength, bufferReusable |-> FALSE,
                  bufferIndex |-> js[i].bufferIndex, bufferCount |-> js[i].bufferCount,
                  reader |-> FALSE, done |-> TRUE]
    <3>1. js[i] = [made |-> js[i].made, bitmap |-> js[i].bitmap, chunk |-> js[i].chunk,
                   bufferLength |-> js[i].bufferLength, bufferReusable |-> js[i].bufferReusable,
                   bufferIndex |-> js[i].bufferIndex, bufferCount |-> js[i].bufferCount,
                   reader |-> js[i].reader, done |-> js[i].done]
      BY <1>2 DEF Js
    <3> QED
      BY ONLY <2>1, <3>1
  <2>3. /\ js[i].made \in BOOLEAN /\ js[i].bufferLength \in Nat /\ js[i].bufferIndex \in Nat
        /\ js[i].bufferCount \in Nat
    BY <1>2 DEF Js
  <2>4. js'[i] \in Js
    BY <2>2, <2>3 DEF Js
  <2>5. js' \in [Iterator -> Js] /\ \A j \in Iterator \ {i} : js'[j] = js[j]
    BY <1>1, <1>2, <2>1, <2>4
  <2> QED
    BY <2>2, <2>5
<1>4. /\ native' \in [Iterator -> Native]
      /\ \A j \in Iterator \ {i} : native'[j] = native[j]
  <2>1. ClosedReader \in Native
    BY DEF ClosedReader, Native
  <2> QED
    BY <1>1, <2>1 DEF Typed, TypeOK
<1>5. MemoryGrows /\ \A b \in Bitmap : version'[b] \in Nat /\ version'[b] >= version[b]
  BY <1>1, SameMemoryGrows DEF Typed, TypeOK
<1>6. pool' \in Seq(Iterator) /\ PoolFilled'
  <2>1. js[i].chunk \in Buffer \cup {None} /\ (js[i].chunk # None => Len(memory'[js[i].chunk]) >= 1)
    BY <1>1, <1>2 DEF Js, Shape
  <2>2. js[i].bufferReusable => js[i].chunk \notin Array
    BY <1>2 DEF Shape
  <2>3. \A k \in DOMAIN pool : k \in DOMAIN pool /\ pool[k] = pool[k]
    OBVIOUS
  <2> QED
    BY <1>1, <1>2, <1>5, <2>1, <2>2, <2>3, PoolStaysFilled
<1>7. TypeOK'
  BY <1>1, <1>3, <1>4, <1>6 DEF Typed, TypeOK
<1>8. ASSUME NEW j \in Iterator \ {i} PROVE Shape(j)'
  BY <1>3, <1>4, <1>5, ShapeKept
<1>9. Shape(i)'
  BY <1>3 DEF Shape
<1> QED
  BY <1>6, <1>7, <1>8, <1>9 DEF Typed

LEMMA UserReturnsTyped == ASSUME Typed, NEW i \in Iterator, UserReturns(i) PROVE Typed'
<1>1. js[i].made /\ Return(i) /\ UNCHANGED <<loop, stack>> /\ loop[i].helper = "none"
  BY DEF UserReturns
<1>2. loop[i].at = "over"
  BY <1>1 DEF Typed, Shape, TypeOK, Loop
<1> QED
  BY <1>1, <1>2, ReturnTyped DEF Typed, TypeOK
-----------------------------------------------------------------------------
(* The helpers that run.                                                    *)

\* A helper that runs is on the stack once, and on top of it if it asks for a
\* value: nothing else runs until it has an answer.
Stacked ==
  /\ \A k, l \in DOMAIN stack : stack[k] = stack[l] => k = l
  /\ \A k \in DOMAIN stack : loop[stack[k]].at # "over"
  /\ \A i \in Iterator : loop[i].at = "next" => stack # <<>> /\ stack[Len(stack)] = i

LEMMA StackFacts ==
  ASSUME TypeOK
  PROVE  /\ stack \in Seq(Iterator) /\ Len(stack) \in Nat /\ DOMAIN stack = 1..Len(stack)
         /\ \A k \in DOMAIN stack : stack[k] \in Iterator
         /\ stack # <<>> => Len(stack) \in DOMAIN stack
<1>1. stack \in Seq(Iterator)
  BY DEF TypeOK
<1>2. stack # <<>> => Len(stack) \in Nat \ {0}
  BY <1>1, EmptySeq
<1> QED
  BY <1>1, <1>2, LenProperties, ElementOfSeq

\* The innermost helper leaves.
LEMMA PoppedStacked ==
  ASSUME Typed, Stacked, NEW i \in Iterator, stack # <<>>, stack[Len(stack)] = i,
         \A j \in Iterator \ {i} : loop[j].at # "next",
         stack' = SubSeq(stack, 1, Len(stack) - 1),
         \A j \in Iterator \ {i} : loop'[j] = loop[j], loop'[i].at = "over"
  PROVE  Stacked'
<1>1. /\ stack \in Seq(Iterator) /\ Len(stack) \in Nat \ {0} /\ DOMAIN stack = 1..Len(stack)
      /\ \A k \in DOMAIN stack : stack[k] \in Iterator /\ Len(stack) \in DOMAIN stack
  BY StackFacts, EmptySeq DEF Typed
<1>2. DOMAIN stack' = 1..(Len(stack) - 1) /\ \A k \in 1..(Len(stack) - 1) : stack'[k] = stack[k]
  BY <1>1, Shortened
<1>3. ASSUME NEW k \in 1..(Len(stack) - 1)
      PROVE  k \in DOMAIN stack /\ stack[k] \in Iterator \ {i} /\ loop[stack[k]].at # "over"
  <2>1. Len(stack) \in Nat \ {0} /\ DOMAIN stack = 1..Len(stack)
    BY <1>1
  <2>2. k \in DOMAIN stack /\ k # Len(stack)
    <3>1. \A n \in Nat \ {0} : \A m \in 1..(n - 1) : m \in 1..n /\ m # n
      BY ONLY SMT
    <3> QED
      BY <1>3, <2>1, <3>1, Zenon
  <2> QED
    BY <1>1, <2>2 DEF Stacked
<1>4. \A k, l \in DOMAIN stack' : stack'[k] = stack'[l] => k = l
  BY <1>2, <1>3 DEF Stacked
<1>5. \A k \in DOMAIN stack' : loop'[stack'[k]].at # "over"
  BY <1>2, <1>3
<1>6. \A j \in Iterator : loop'[j].at # "next"
  OBVIOUS
<1> QED
  BY <1>4, <1>5, <1>6 DEF Stacked

\* The innermost helper goes on.
LEMMA SameStacked ==
  ASSUME Typed, Stacked, UNCHANGED stack,
         \A j \in Iterator : loop[j].at # "over" => loop'[j].at # "over",
         \A j \in Iterator : loop'[j].at = "next" => stack # <<>> /\ stack[Len(stack)] = j
  PROVE  Stacked'
<1>1. \A k \in DOMAIN stack : stack[k] \in Iterator
  BY StackFacts DEF Typed
<1> QED
  BY <1>1 DEF Stacked

LEMMA StartHelperStacked ==
  ASSUME Typed, Stacked, NEW i \in Iterator, NEW b \in Bitmap,
         NEW helper \in {"forEach", "every", "some", "reduceRight"},
         StartHelper(i, b, helper)
  PROVE  Stacked'
<1>1. /\ ~ js[i].made /\ UserRuns /\ stack' = Append(stack, i)
      /\ loop' = [loop EXCEPT ![i] =
           [helper |-> helper, index |-> FirstIndex(helper, b), at |-> "next"]]
      /\ loop \in [Iterator -> Loop]
  BY DEF StartHelper, Typed, TypeOK
<1>2. /\ stack \in Seq(Iterator) /\ Len(stack) \in Nat /\ DOMAIN stack = 1..Len(stack)
      /\ \A k \in DOMAIN stack : stack[k] \in Iterator
  BY StackFacts DEF Typed
<1>3. /\ DOMAIN stack' = 1..(Len(stack) + 1) /\ \A k \in 1..Len(stack) : stack'[k] = stack[k]
      /\ stack'[Len(stack) + 1] = i /\ Len(stack') = Len(stack) + 1 /\ stack' \in Seq(Iterator)
  <2>1. /\ Append(stack, i) \in Seq(Iterator)
        /\ DOMAIN Append(stack, i) = 1..(Len(stack) + 1)
        /\ Len(Append(stack, i)) = Len(stack) + 1
        /\ \A k \in 1..Len(stack) : Append(stack, i)[k] = stack[k]
        /\ Append(stack, i)[Len(stack) + 1] = i
    <3>1. stack \in Seq(Iterator)
      BY <1>2
    <3> QED
      BY ONLY <3>1, Appended, i \in Iterator
  <2> QED
    BY ONLY <1>1, <2>1
<1>4. stack' # <<>>
  BY <1>2, <1>3, EmptySeq
<1>5. loop[i].at = "over" /\ loop'[i].at = "next"
  BY <1>1 DEF Typed, Shape
<1>6. ASSUME NEW k \in 1..Len(stack) PROVE stack[k] \in Iterator \ {i} /\ loop'[stack[k]].at # "over"
  <2>1. stack[k] \in Iterator /\ loop[stack[k]].at # "over"
    BY <1>2 DEF Stacked
  <2> QED
    BY <1>1, <1>5, <2>1
<1>7. \A k, l \in DOMAIN stack' : stack'[k] = stack'[l] => k = l
  BY <1>2, <1>3, <1>6 DEF Stacked
<1>8. \A k \in DOMAIN stack' : loop'[stack'[k]].at # "over"
  BY <1>2, <1>3, <1>5, <1>6
<1>9. \A j \in Iterator : loop'[j].at = "next" => j = i
  BY <1>1 DEF UserRuns
<1> QED
  BY <1>3, <1>4, <1>7, <1>8, <1>9 DEF Stacked

LEMMA AnswerStacked ==
  ASSUME Typed, Stacked, NEW i \in Iterator, NEW result \in {"value", "end", "throws"},
         Answer(i, result), Asked(i)
  PROVE  Stacked'
<1>1. /\ \A j \in Iterator \ {i} : loop'[j] = loop[j]
      /\ result = "value" /\ loop[i].helper # "none" => loop'[i].at = "callback"
      /\ result # "value" /\ loop[i].helper # "none" => loop'[i].at = "over"
      /\ loop[i].helper = "none" => loop'[i] = loop[i]
  BY AnswerTyped
<1>2. CASE loop[i].helper = "none"
  <2>1. stack' = stack
    BY <1>2 DEF Answer
  <2> QED
    BY <1>1, <1>2, <2>1, SameStacked DEF Stacked
<1>3. CASE loop[i].helper # "none"
  <2>1. loop[i].at = "next" /\ stack # <<>> /\ stack[Len(stack)] = i
    BY <1>3 DEF Asked, Stacked
  <2>2. \A j \in Iterator \ {i} : loop[j].at # "next"
    BY <2>1 DEF Stacked
  <2>3. loop' = [loop EXCEPT ![i] = HelperAfter(i, result)] /\ loop \in [Iterator -> Loop]
    BY DEF Answer, Typed, TypeOK
  <2>4. loop'[i] = HelperAfter(i, result)
    BY <2>3
  <2>5. CASE result = "value"
    <3>1. stack' = stack
      BY <1>1, <1>3, <2>4, <2>5 DEF Answer
    <3> QED
      BY <1>1, <1>3, <2>2, <2>5, <3>1, SameStacked
  <2>6. CASE result # "value"
    <3>1. stack' = SubSeq(stack, 1, Len(stack) - 1)
      BY <1>1, <1>3, <2>4, <2>6 DEF Answer
    <3> QED
      BY <1>1, <1>3, <2>1, <2>2, <2>6, <3>1, PoppedStacked
  <2> QED
    BY <2>5, <2>6
<1> QED
  BY <1>2, <1>3

\* Only a helper that waits for its callback is on top while the user runs.
LEMMA OnTop ==
  ASSUME Typed, Stacked, NEW i \in Iterator, UserRuns, stack # <<>>, stack[Len(stack)] = i
  PROVE  loop[i].at = "callback" /\ js[i].made /\ ~ js[i].done /\ loop[i].helper # "none"
<1>1. loop[i].at # "over"
  BY StackFacts DEF Typed, Stacked
<1>2. loop[i].at = "callback"
  BY <1>1 DEF UserRuns, Typed, TypeOK, Loop
<1> QED
  BY <1>2 DEF Typed, Shape

LEMMA CallbackReturnsTyped ==
  ASSUME Typed, Stacked, NEW i \in Iterator, CallbackReturns(i)
  PROVE  Typed' /\ Stacked'
<1>1. /\ UserRuns /\ stack # <<>> /\ stack[Len(stack)] = i
      /\ loop' = [loop EXCEPT ![i].at = "next",
           ![i].index = IF loop[i].helper = "reduceRight" THEN @ - 1 ELSE @ + 1]
      /\ UNCHANGED <<bits, version, pool, memory, js, native, stack, over, taken, yielded, told>>
  BY DEF CallbackReturns
<1>2. loop[i].at = "callback" /\ js[i].made /\ ~ js[i].done /\ loop[i].helper # "none"
  BY <1>1, OnTop
<1>3. loop \in [Iterator -> Loop] /\ loop[i] \in Loop /\ loop[i].index \in Int
  BY DEF Typed, TypeOK, Loop
<1>4. /\ loop' \in [Iterator -> Loop] /\ \A j \in Iterator \ {i} : loop'[j] = loop[j]
      /\ loop'[i].at = "next" /\ loop'[i].helper = loop[i].helper
  BY <1>1, <1>3 DEF Loop
<1>5. TypeOK'
  BY <1>1, <1>4 DEF Typed, TypeOK
<1>6. MemoryGrows /\ \A b \in Bitmap : version'[b] \in Nat /\ version'[b] >= version[b]
  BY <1>1, SameMemoryGrows DEF Typed, TypeOK
<1>7. ASSUME NEW j \in Iterator \ {i} PROVE Shape(j)'
  BY <1>1, <1>4, <1>6, ShapeKept
<1>8. Shape(i)'
  BY <1>1, <1>2, <1>4 DEF Typed, Shape
<1>9. Stacked'
  BY <1>1, <1>4, SameStacked DEF UserRuns
<1> QED
  BY <1>1, <1>5, <1>6, <1>7, <1>8, <1>9, PoolFilledKept DEF Typed

LEMMA CallbackStopsTyped ==
  ASSUME Typed, Stacked, NEW i \in Iterator, NEW throws \in BOOLEAN, CallbackStops(i, throws)
  PROVE  Typed' /\ Stacked'
<1>1. /\ UserRuns /\ stack # <<>> /\ stack[Len(stack)] = i
      /\ loop' = [loop EXCEPT ![i].at = "over"]
      /\ stack' = SubSeq(stack, 1, Len(stack) - 1) /\ Return(i)
  BY DEF CallbackStops
<1>2. loop \in [Iterator -> Loop] /\ stack \in Seq(Iterator) /\ js[i].made
  BY <1>1, OnTop DEF Typed, TypeOK
<1>3. /\ loop' \in [Iterator -> Loop] /\ loop'[i].at = "over"
      /\ \A j \in Iterator \ {i} : loop'[j] = loop[j]
  <2>1. loop[i] \in Loop /\ loop' = [loop EXCEPT ![i].at = "over"] /\ loop \in [Iterator -> Loop]
    BY <1>1, <1>2
  <2> QED
    BY ONLY <2>1, i \in Iterator DEF Loop
<1>4. stack' \in Seq(Iterator)
  BY <1>1, <1>2, Shortened
<1>5. Typed'
  BY <1>1, <1>2, <1>3, <1>4, ReturnTyped
<1>6. Stacked'
  BY <1>1, <1>3, PoppedStacked DEF UserRuns
<1> QED
  BY <1>5, <1>6
LEMMA InitStacked == Init => Stacked
<1> SUFFICES ASSUME Init PROVE Stacked
  OBVIOUS
<1>1. stack = <<>> /\ \A i \in Iterator : loop[i].at = "over"
  BY DEF Init
<1>2. DOMAIN stack = {}
  BY <1>1
<1> QED
  BY <1>1, <1>2 DEF Stacked

LEMMA FillStacked ==
  ASSUME Typed, Stacked, NEW i \in Iterator, NEW r, NEW p, AfterFill(i, r, p), Asked(i)
  PROVE  Stacked'
<1>1. Answer(i, "value") \/ Answer(i, "end")
  BY DEF AfterFill, HandOut
<1> QED
  BY <1>1, AnswerStacked

LEMMA IteratorStepTyped ==
  ASSUME Typed, Stacked, NEW i \in Iterator, Step(i)
  PROVE  Typed' /\ Stacked'
<1>1. CASE NextBuffered(i)
  <2>1. Answer(i, "value") /\ Asked(i)
    BY <1>1 DEF NextBuffered, HandOut
  <2> QED
    BY <1>1, <2>1, NextBufferedTyped, AnswerStacked
<1>2. CASE NextOpens(i)
  <2>1. AfterFill(i, Opened(i, js[i].bitmap, Chunk(i)), PoolAfterAcquire(i)) /\ Asked(i)
    BY <1>2 DEF NextOpens, MustFill
  <2> QED
    BY <1>2, <2>1, NextOpensTyped, FillStacked
<1>3. CASE NextOpensFails(i)
  <2>1. Answer(i, "throws") /\ Asked(i)
    BY <1>3 DEF NextOpensFails, MustFill
  <2> QED
    BY <1>3, <2>1, NextOpensFailsTyped, AnswerStacked
<1>4. CASE NextRefills(i)
  <2>1. AfterFill(i, native[i], pool) /\ Asked(i)
    BY <1>4 DEF NextRefills, MustFill
  <2> QED
    BY <1>4, <2>1, NextRefillsTyped, FillStacked
<1>5. CASE NextThrows(i)
  <2>1. Answer(i, "throws") /\ Asked(i)
    BY <1>5 DEF NextThrows, MustFill
  <2> QED
    BY <1>5, <2>1, NextThrowsTyped, AnswerStacked
<1>6. CASE CallbackReturns(i)
  BY <1>6, CallbackReturnsTyped
<1>7. ASSUME NEW throws \in BOOLEAN, CallbackStops(i, throws) PROVE Typed' /\ Stacked'
  BY <1>7, CallbackStopsTyped
<1> QED
  BY <1>1, <1>2, <1>3, <1>4, <1>5, <1>6, <1>7 DEF Step

LEMMA SameLoopStacked == ASSUME Stacked, UNCHANGED <<loop, stack>> PROVE Stacked'
  BY DEF Stacked

LEMMA UserStepTyped ==
  ASSUME Typed, Stacked, User
  PROVE  Typed' /\ Stacked'
<1>1. ASSUME NEW b \in Bitmap, Change(b) PROVE Typed' /\ Stacked'
  <2>1. UNCHANGED <<loop, stack>>
    BY <1>1 DEF Change
  <2> QED
    BY <1>1, <2>1, ChangeTyped, SameLoopStacked
<1>2. ASSUME NEW i \in Iterator, NEW b \in Bitmap \cup {None}, NEW buffer \in Array \cup {None},
             NEW halves \in Halves \cup {None}, NewIterator(i, b, buffer, halves)
      PROVE  Typed' /\ Stacked'
  <2>1. UNCHANGED <<loop, stack>>
    BY <1>2 DEF NewIterator
  <2> QED
    BY <1>2, <2>1, NewIteratorTyped, SameLoopStacked
<1>3. ASSUME NEW i \in Iterator, NEW b \in Bitmap,
             NEW helper \in {"forEach", "every", "some", "reduceRight"},
             StartHelper(i, b, helper)
      PROVE  Typed' /\ Stacked'
  BY <1>3, StartHelperTyped, StartHelperStacked
<1>4. ASSUME NEW i \in Iterator, UserReturns(i) PROVE Typed' /\ Stacked'
  <2>1. UNCHANGED <<loop, stack>>
    BY <1>4 DEF UserReturns
  <2> QED
    BY <1>4, <2>1, UserReturnsTyped, SameLoopStacked
<1> QED
  BY <1>1, <1>2, <1>3, <1>4 DEF User

LEMMA StepTyped == Typed /\ Stacked /\ [Next]_vars => Typed' /\ Stacked'
<1> SUFFICES ASSUME Typed, Stacked, [Next]_vars PROVE Typed' /\ Stacked'
  OBVIOUS
<1>1. CASE User
  BY <1>1, UserStepTyped
<1>2. ASSUME NEW i \in Iterator, Step(i) PROVE Typed' /\ Stacked'
  BY <1>2, IteratorStepTyped
<1>3. CASE UNCHANGED vars
  <2>1. /\ TypeOK' /\ UNCHANGED <<loop, stack, pool, js, native, version>> /\ MemoryGrows
    BY <1>3, SameMemoryGrows DEF vars, Typed, TypeOK
  <2>2. ASSUME NEW j \in Iterator PROVE Shape(j)'
    BY <1>3, <2>1, ShapeKept DEF vars, Typed, TypeOK
  <2> QED
    BY <2>1, <2>2, PoolFilledKept, SameLoopStacked DEF Typed
<1> QED
  BY <1>1, <1>2, <1>3 DEF Next

\* Every variable keeps its type, and the values handed out and kept in chunks
\* are values: a chunk is read only where the native iterator wrote it.
THEOREM TypeCorrect == Spec => []TypeOK
<1>1. Init => Typed /\ Stacked
  BY InitTyped, InitStacked
<1>2. Typed => TypeOK
  BY DEF Typed
<1> QED
  BY <1>1, <1>2, StepTyped, PTL DEF Spec
-----------------------------------------------------------------------------
(* Buffers.  What a step does with them is one of the following.            *)

SameChunk(j) ==
  /\ js'[j].made = js[j].made /\ js'[j].done = js[j].done /\ js'[j].chunk = js[j].chunk
  /\ js'[j].bufferReusable = js[j].bufferReusable /\ js'[j].bufferLength = js[j].bufferLength

Others(i) == \A j \in Iterator \ {i} : SameChunk(j)

\* None is touched.
Idles == pool' = pool /\ \A j \in Iterator : SameChunk(j)

\* An iterator is made.
Makes(i) ==
  /\ ~ js[i].made /\ js'[i].made /\ pool' = pool /\ Others(i)
  /\ js'[i].chunk # None => js'[i].chunk \in Array /\ (Lent \/ ~ LentOut(js'[i].chunk))
  /\ ~ js'[i].done /\ js'[i].chunk = None =>
       (js'[i].bufferReusable <=> js'[i].bufferLength = DefaultLen)

\* An iterator that has none takes a chunk.
Takes(i) ==
  /\ js[i].made /\ ~ js[i].done /\ pool' = PoolAfterAcquire(i) /\ Others(i)
  /\ js'[i].made /\ ~ js'[i].done /\ js'[i].chunk = Chunk(i)
  /\ js'[i].bufferReusable = js[i].bufferReusable

\* It ends, and releases the chunk it has, or the one it took for this.
Releases(i) ==
  /\ js[i].made /\ ~ js[i].done /\ Others(i) /\ js'[i].made /\ js'[i].done
  /\ \/ pool' = PoolAfterRelease(i, js[i].chunk, pool)
     \/ pool' = PoolAfterRelease(i, Chunk(i), PoolAfterAcquire(i))

LEMMA MakesBuffer ==
  ASSUME Typed, NEW i \in Iterator, ~ js[i].made, NEW b \in Bitmap \cup {None},
         NEW buffer \in Array \cup {None}, NEW halves \in Halves \cup {None, 2 * DefaultLen},
         NormalizeIteratorInputs(i, b, buffer, halves), UNCHANGED pool,
         buffer # None => Lent \/ ~ LentOut(buffer)
  PROVE  Makes(i)
<1> DEFINE length == IF buffer = None THEN NormalizeIteratorChunkLength(halves) ELSE ArrayLen
<1>1. /\ \A j \in Iterator \ {i} : js'[j] = js[j]
      /\ js'[i].made
      /\ js'[i].done <=> b = None
      /\ b = None => js'[i].chunk = None
      /\ b # None => js'[i].chunk = buffer
  BY MadeTyped
<1>2. Others(i)
  BY <1>1 DEF Others, SameChunk
<1>3. js'[i].chunk # None => js'[i].chunk \in Array /\ (Lent \/ ~ LentOut(js'[i].chunk))
  BY <1>1
<1>4. ASSUME ~ js'[i].done, js'[i].chunk = None
      PROVE  js'[i].bufferReusable <=> js'[i].bufferLength = DefaultLen
  <2>1. b # None /\ buffer = None /\ js[i] \in Js /\ js \in [Iterator -> Js]
    BY <1>1, <1>4 DEF Typed, TypeOK
  <2>2. js' = [js EXCEPT ![i].made = TRUE, ![i].bitmap = b, ![i].chunk = buffer,
                         ![i].bufferLength = length,
                         ![i].bufferReusable = BufferReusable(buffer, length)]
    BY <2>1 DEF NormalizeIteratorInputs
  <2> HIDE DEF length
  <2>3. js'[i].bufferLength = length /\ js'[i].bufferReusable = BufferReusable(buffer, length)
    BY <2>1, <2>2 DEF Js
  <2> QED
    BY <2>1, <2>3 DEF BufferReusable
<1> QED
  BY <1>1, <1>2, <1>3, <1>4 DEF Makes

LEMMA FillBuffer ==
  ASSUME Typed, NEW i \in Iterator, NEW r, Asked(i), AfterFill(i, r, PoolAfterAcquire(i))
  PROVE  Takes(i) \/ Releases(i)
<1>1. js[i].made /\ ~ js[i].done /\ js \in [Iterator -> Js] /\ js[i] \in Js
  BY DEF Typed, TypeOK, Asked
<1>2. CASE FillCount(i, r) > 0
  <2>1. /\ pool' = PoolAfterAcquire(i)
        /\ js' = [js EXCEPT ![i].bitmap = None, ![i].chunk = Chunk(i), ![i].reader = TRUE,
                            ![i].bufferIndex = 1, ![i].bufferCount = FillCount(i, r)]
    BY <1>2 DEF AfterFill
  <2>2. /\ js'[i].made = js[i].made /\ js'[i].done = js[i].done /\ js'[i].chunk = Chunk(i)
        /\ js'[i].bufferReusable = js[i].bufferReusable
        /\ \A j \in Iterator \ {i} : js'[j] = js[j]
    BY <1>1, <2>1 DEF Js
  <2> QED
    BY <1>1, <2>1, <2>2 DEF Takes, Others, SameChunk
<1>3. CASE ~ FillCount(i, r) > 0
  <2>1. /\ pool' = PoolAfterRelease(i, Chunk(i), PoolAfterAcquire(i))
        /\ js' = [js EXCEPT ![i].bitmap = None, ![i].chunk = None, ![i].reader = FALSE,
                            ![i].bufferReusable = FALSE, ![i].bufferIndex = 0,
                            ![i].bufferCount = 0, ![i].done = TRUE]
    BY <1>3 DEF AfterFill
  <2>2. js'[i] = [js[i] EXCEPT !.bitmap = None, !.chunk = None, !.reader = FALSE,
                               !.bufferReusable = FALSE, !.bufferIndex = 0,
                               !.bufferCount = 0, !.done = TRUE]
    BY <1>1, <2>1
  <2>3. js'[i].made = js[i].made /\ js'[i].done
    BY <1>1, <2>2 DEF Js
  <2>4. \A j \in Iterator \ {i} : js'[j] = js[j]
    BY <1>1, <2>1
  <2> QED
    BY <1>1, <2>1, <2>3, <2>4 DEF Releases, Others, SameChunk
<1> QED
  BY <1>2, <1>3

LEMMA ReturnBuffer ==
  ASSUME Typed, NEW i \in Iterator, js[i].made, ~ js[i].done, Return(i)
  PROVE  Releases(i)
<1>1. js \in [Iterator -> Js] /\ js[i] \in Js
  BY DEF Typed, TypeOK
<1>2. /\ pool' = PoolAfterRelease(i, js[i].chunk, pool)
      /\ js' = [js EXCEPT ![i].bitmap = None, ![i].chunk = None, ![i].reader = FALSE,
                          ![i].bufferReusable = FALSE, ![i].done = TRUE]
  BY DEF Return
<1>3. js'[i] = [js[i] EXCEPT !.bitmap = None, !.chunk = None, !.reader = FALSE,
                             !.bufferReusable = FALSE, !.done = TRUE]
  BY <1>1, <1>2
<1>4. js'[i].made = js[i].made /\ js'[i].done
  BY <1>1, <1>3 DEF Js
<1>5. \A j \in Iterator \ {i} : js'[j] = js[j]
  BY <1>1, <1>2
<1> QED
  BY <1>2, <1>4, <1>5 DEF Releases, Others, SameChunk

LEMMA IteratorStepBuffer ==
  ASSUME Typed, Stacked, NEW i \in Iterator, Step(i)
  PROVE  Idles \/ Takes(i) \/ Releases(i)
<1>0. js \in [Iterator -> Js] /\ js[i] \in Js
  BY DEF Typed, TypeOK
<1>1. CASE NextBuffered(i)
  <2>1. pool' = pool /\ js' = [js EXCEPT ![i].bufferIndex = @ + 1]
    BY <1>1 DEF NextBuffered
  <2>2. SameChunk(i) /\ Others(i)
    BY <1>0, <2>1 DEF SameChunk, Others, Js
  <2> QED
    BY <2>1, <2>2 DEF Idles, Others
<1>2. CASE NextOpens(i)
  <2>1. Asked(i) /\ AfterFill(i, Opened(i, js[i].bitmap, Chunk(i)), PoolAfterAcquire(i))
    BY <1>2 DEF NextOpens, MustFill
  <2> QED
    BY <2>1, FillBuffer
<1>3. CASE NextOpensFails(i)
  <2>1. /\ js[i].made /\ ~ js[i].done /\ pool' = PoolAfterAcquire(i)
        /\ js' = [js EXCEPT ![i].chunk = Chunk(i)]
    BY <1>3 DEF NextOpensFails, MustFill, Asked
  <2>2. /\ js'[i].made = js[i].made /\ js'[i].done = js[i].done /\ js'[i].chunk = Chunk(i)
        /\ js'[i].bufferReusable = js[i].bufferReusable
        /\ \A j \in Iterator \ {i} : js'[j] = js[j]
    BY <1>0, <2>1 DEF Js
  <2> QED
    BY <2>1, <2>2 DEF Takes, Others, SameChunk
<1>4. CASE NextRefills(i)
  <2>1. Asked(i) /\ AfterFill(i, native[i], pool) /\ js[i].reader
    BY <1>4 DEF NextRefills, MustFill
  <2>2. js[i].chunk # None
    BY <2>1 DEF Typed, Shape
  <2>3. PoolAfterAcquire(i) = pool
    BY <2>2 DEF PoolAfterAcquire
  <2> QED
    BY <2>1, <2>3, FillBuffer
<1>5. CASE NextThrows(i)
  BY <1>5 DEF NextThrows, Idles, SameChunk
<1>6. CASE CallbackReturns(i)
  BY <1>6 DEF CallbackReturns, Idles, SameChunk
<1>7. ASSUME NEW throws \in BOOLEAN, CallbackStops(i, throws) PROVE Releases(i)
  BY <1>7, OnTop, ReturnBuffer DEF CallbackStops
<1> QED
  BY <1>1, <1>2, <1>3, <1>4, <1>5, <1>6, <1>7 DEF Step

LEMMA StepBuffer ==
  ASSUME Typed, Stacked, [Next]_vars
  PROVE  Idles \/ \E i \in Iterator : Makes(i) \/ Takes(i) \/ Releases(i)
<1>1. ASSUME NEW b \in Bitmap, Change(b) PROVE Idles
  BY <1>1 DEF Change, Idles, SameChunk
<1>2. ASSUME NEW i \in Iterator, NEW b \in Bitmap \cup {None}, NEW buffer \in Array \cup {None},
             NEW halves \in Halves \cup {None}, NewIterator(i, b, buffer, halves)
      PROVE  Makes(i)
  BY <1>2, MakesBuffer DEF NewIterator
<1>3. ASSUME NEW i \in Iterator, NEW b \in Bitmap,
             NEW helper \in {"forEach", "every", "some", "reduceRight"},
             StartHelper(i, b, helper)
      PROVE  Makes(i)
  BY <1>3, MakesBuffer DEF StartHelper
<1>4. ASSUME NEW i \in Iterator, UserReturns(i) PROVE Releases(i)
  BY <1>4, ReturnBuffer DEF UserReturns
<1>5. ASSUME NEW i \in Iterator, Step(i) PROVE Idles \/ Takes(i) \/ Releases(i)
  BY <1>5, IteratorStepBuffer
<1>6. CASE UNCHANGED vars
  BY <1>6 DEF vars, Idles, SameChunk
<1>7. CASE User
  BY <1>1, <1>2, <1>3, <1>4, <1>7 DEF User
<1> QED
  BY <1>5, <1>6, <1>7 DEF Next
-----------------------------------------------------------------------------
(* Pooled buffers come back.                                                *)

\* The pool keeps to its limit, and what is taken from it goes back to it.
Bounded ==
  /\ Len(pool) <= PoolMax
  /\ \A i \in Iterator : js[i].made /\ ~ js[i].done /\ js[i].chunk = None =>
       (js[i].bufferReusable <=> js[i].bufferLength = DefaultLen)

\* Taking a chunk leaves the pool alone, or takes the buffer on its top.
LEMMA Acquired ==
  ASSUME Typed, NEW i \in Iterator
  PROVE  /\ Len(pool) \in Nat /\ pool \in Seq(Iterator) /\ DOMAIN pool = 1..Len(pool)
         /\ \A k \in DOMAIN pool : pool[k] \in Iterator
         /\ \/ /\ PoolAfterAcquire(i) = pool
               /\ js[i].chunk = None => Chunk(i) = i
               /\ js[i].chunk # None => Chunk(i) = js[i].chunk
            \/ /\ js[i].chunk = None /\ js[i].bufferLength = DefaultLen /\ pool # <<>>
               /\ Len(pool) \in DOMAIN pool /\ Chunk(i) = pool[Len(pool)]
               /\ PoolAfterAcquire(i) \in Seq(Iterator)
               /\ Len(PoolAfterAcquire(i)) = Len(pool) - 1
               /\ DOMAIN PoolAfterAcquire(i) = 1..(Len(pool) - 1)
               /\ \A k \in 1..(Len(pool) - 1) : PoolAfterAcquire(i)[k] = pool[k]
<1>1. pool \in Seq(Iterator)
  BY DEF Typed, TypeOK
<1>2. /\ Len(pool) \in Nat /\ DOMAIN pool = 1..Len(pool)
      /\ \A k \in DOMAIN pool : pool[k] \in Iterator
  BY <1>1, LenProperties, ElementOfSeq
<1>3. CASE js[i].chunk = None /\ js[i].bufferLength = DefaultLen /\ pool # <<>>
  <2>1. /\ PoolAfterAcquire(i) = SubSeq(pool, 1, Len(pool) - 1)
        /\ Chunk(i) = pool[Len(pool)]
    BY <1>3 DEF PoolAfterAcquire, Chunk, AcquireIteratorBuffer
  <2>2. Len(pool) \in DOMAIN pool
    BY <1>1, <1>2, <1>3, EmptySeq
  <2>3. /\ SubSeq(pool, 1, Len(pool) - 1) \in Seq(Iterator)
        /\ Len(SubSeq(pool, 1, Len(pool) - 1)) = Len(pool) - 1
        /\ DOMAIN SubSeq(pool, 1, Len(pool) - 1) = 1..(Len(pool) - 1)
        /\ \A k \in 1..(Len(pool) - 1) : SubSeq(pool, 1, Len(pool) - 1)[k] = pool[k]
    BY <1>1, <1>3, Shortened, Zenon
  <2> QED
    BY <1>1, <1>2, <1>3, <2>1, <2>2, <2>3, Zenon
<1>4. CASE ~ (js[i].chunk = None /\ js[i].bufferLength = DefaultLen /\ pool # <<>>)
  <2>1. PoolAfterAcquire(i) = pool
    BY <1>4 DEF PoolAfterAcquire
  <2>2. /\ js[i].chunk = None => Chunk(i) = i
        /\ js[i].chunk # None => Chunk(i) = js[i].chunk
    BY <1>4 DEF Chunk, AcquireIteratorBuffer
  <2> QED
    BY <1>1, <1>2, <2>1, <2>2, Zenon
<1> QED
  BY <1>3, <1>4

\* Releasing a chunk adds it to a pool that is not full.
LEMMA Released ==
  ASSUME NEW i \in Iterator, NEW p \in Seq(Iterator), NEW c \in Iterator \cup {None},
         js[i].bufferReusable
  PROVE  /\ Len(p) \in Nat /\ DOMAIN p = 1..Len(p)
         /\ \/ PoolAfterRelease(i, c, p) = p /\ (c = None \/ Len(p) >= PoolMax)
            \/ /\ c \in Iterator /\ Len(p) < PoolMax
               /\ Len(PoolAfterRelease(i, c, p)) = Len(p) + 1
               /\ DOMAIN PoolAfterRelease(i, c, p) = 1..(Len(p) + 1)
               /\ \A k \in 1..Len(p) : PoolAfterRelease(i, c, p)[k] = p[k]
               /\ PoolAfterRelease(i, c, p)[Len(p) + 1] = c
<1>1. Len(p) \in Nat /\ DOMAIN p = 1..Len(p) /\ PoolMax \in Nat
  BY LenProperties, Assumption DEF Assumption
<1>2. CASE c # None /\ Len(p) < PoolMax
  <2>1. PoolAfterRelease(i, c, p) = Append(p, c)
    BY <1>2 DEF PoolAfterRelease
  <2>2. c \in Iterator
    BY <1>2
  <2>3. /\ Len(Append(p, c)) = Len(p) + 1 /\ DOMAIN Append(p, c) = 1..(Len(p) + 1)
        /\ \A k \in 1..Len(p) : Append(p, c)[k] = p[k]
        /\ Append(p, c)[Len(p) + 1] = c
    BY ONLY <2>2, p \in Seq(Iterator), Appended
  <2> QED
    BY <1>1, <1>2, <2>1, <2>2, <2>3, Zenon
<1>3. CASE ~ (c # None /\ Len(p) < PoolMax)
  <2>1. PoolAfterRelease(i, c, p) = p
    BY <1>3 DEF PoolAfterRelease
  <2>2. c = None \/ Len(p) >= PoolMax
    BY <1>1, <1>3
  <2> QED
    BY <1>1, <2>1, <2>2, Zenon
<1> QED
  BY <1>2, <1>3

\* What both kinds of release have in common: a pool p without the chunk c.
LEMMA ReleasesFrom ==
  ASSUME Typed, NEW i \in Iterator, Releases(i)
  PROVE  \E p \in Seq(Iterator), c \in Buffer \cup {None} :
           /\ pool' = PoolAfterRelease(i, c, p)
           /\ js[i].bufferReusable => c \in Iterator \cup {None}
           /\ \/ p = pool /\ c = js[i].chunk
              \/ p = PoolAfterAcquire(i) /\ c = Chunk(i)
<1>1. js[i] \in Js /\ Shape(i) /\ pool \in Seq(Iterator) /\ js[i].made /\ ~ js[i].done
  BY DEF Typed, TypeOK, Releases
<1>2. js[i].chunk \in Buffer \cup {None} /\ (js[i].bufferReusable => js[i].chunk \in Iterator \cup {None})
  BY <1>1 DEF Js, Shape, Buffer
<1>3. Chunk(i) \in Buffer /\ (js[i].bufferReusable => Chunk(i) \in Iterator \cup {None})
  BY <1>1, <1>2, ChunkFacts
<1>4. CASE pool' = PoolAfterRelease(i, js[i].chunk, pool)
  BY <1>1, <1>2, <1>4
<1>5. CASE pool' = PoolAfterRelease(i, Chunk(i), PoolAfterAcquire(i))
  BY <1>3, <1>5, ChunkPool
<1> QED
  BY <1>4, <1>5 DEF Releases

LEMMA StepBounded ==
  ASSUME Typed, Stacked, Bounded, [Next]_vars
  PROVE  Bounded'
<1>1. CASE Idles
  BY <1>1 DEF Idles, SameChunk, Bounded
<1>2. ASSUME NEW i \in Iterator, Makes(i) PROVE Bounded'
  BY <1>2 DEF Makes, Others, SameChunk, Bounded
<1>3. ASSUME NEW i \in Iterator, Takes(i) PROVE Bounded'
  <2>1. js'[i].chunk # None
    <3>1. Chunk(i) \in Buffer
      BY <1>3, ChunkFacts DEF Takes
    <3> QED
      BY <1>3, <3>1, Assumption DEF Takes, Assumption, Buffer
  <2>2. Len(pool') <= PoolMax
    <3>1. PoolMax \in Nat /\ pool' = PoolAfterAcquire(i)
      BY <1>3, Assumption DEF Assumption, Takes
    <3>2. Len(pool) \in Nat /\ (pool' = pool \/ Len(pool') = Len(pool) - 1)
      BY <3>1, Acquired, Zenon
    <3> QED
      BY <3>1, <3>2 DEF Bounded
  <2> QED
    BY <1>3, <2>1, <2>2 DEF Takes, Others, SameChunk, Bounded
<1>4. ASSUME NEW i \in Iterator, Releases(i) PROVE Bounded'
  <2>1. PICK p \in Seq(Iterator), c \in Buffer \cup {None} :
          /\ pool' = PoolAfterRelease(i, c, p)
          /\ js[i].bufferReusable => c \in Iterator \cup {None}
          /\ \/ p = pool /\ c = js[i].chunk
             \/ p = PoolAfterAcquire(i) /\ c = Chunk(i)
    BY <1>4, ReleasesFrom
  <2>2. Len(p) \in Nat /\ Len(p) <= PoolMax
    <3>1. PoolMax \in Nat
      BY Assumption DEF Assumption
    <3>2. Len(pool) \in Nat /\ (p = pool \/ Len(p) = Len(pool) - 1)
      BY <2>1, Acquired, Zenon
    <3> QED
      BY <3>1, <3>2, LenProperties DEF Bounded
  <2>3. Len(pool') <= PoolMax
    <3>1. CASE js[i].bufferReusable
      <4>1. \/ pool' = p
            \/ Len(p) < PoolMax /\ Len(pool') = Len(p) + 1
        BY <2>1, <3>1, Released, Zenon
      <4> QED
        BY <2>2, <4>1, Assumption DEF Assumption
    <3>2. CASE ~ js[i].bufferReusable
      BY <2>1, <2>2, <3>2 DEF PoolAfterRelease
    <3> QED
      BY <3>1, <3>2
  <2> QED
    BY <1>4, <2>3 DEF Releases, Others, SameChunk, Bounded
<1> QED
  BY <1>1, <1>2, <1>3, <1>4, StepBuffer
\* An iterator that takes a chunk keeps the buffer it took from the pool.
LEMMA StepComesBack ==
  ASSUME Typed, Stacked, Bounded, [Next]_vars,
         NEW b \in Iterator, Pooled(b), Len(pool) # PoolMax
  PROVE  Pooled(b)'
<1>0. Len(pool) \in Nat /\ PoolMax \in Nat /\ DOMAIN pool = 1..Len(pool) /\ Len(pool) < PoolMax
  BY StackFacts, LenProperties, Assumption DEF Assumption, Typed, TypeOK, Bounded
<1>1. CASE Idles
  BY <1>1 DEF Idles, SameChunk, Pooled, InUse
<1>2. ASSUME NEW i \in Iterator, Makes(i) PROVE Pooled(b)'
  <2>1. ~ InUse(i)
    BY <1>2 DEF Makes, InUse, Typed, Shape
  <2> QED
    BY <1>2, <2>1 DEF Makes, Others, SameChunk, Pooled, InUse
<1>3. ASSUME NEW i \in Iterator, Takes(i) PROVE Pooled(b)'
  <2>1. /\ js[i].made /\ ~ js[i].done /\ pool' = PoolAfterAcquire(i) /\ Others(i)
        /\ js'[i].made /\ ~ js'[i].done /\ js'[i].chunk = Chunk(i)
        /\ js'[i].bufferReusable = js[i].bufferReusable
    BY <1>3 DEF Takes
  <2>2. Chunk(i) # None
    BY <2>1, ChunkFacts, Assumption DEF Assumption, Buffer
  <2>3. CASE \E k \in DOMAIN pool : pool[k] = b
    <3>1. PICK k \in DOMAIN pool : pool[k] = b
      BY <2>3
    <3>2. CASE k \in DOMAIN PoolAfterAcquire(i) /\ PoolAfterAcquire(i)[k] = b
      BY <2>1, <3>2 DEF Pooled
    <3>3. CASE ~ (k \in DOMAIN PoolAfterAcquire(i) /\ PoolAfterAcquire(i)[k] = b)
      <4>1. /\ js[i].chunk = None /\ js[i].bufferLength = DefaultLen
            /\ Chunk(i) = pool[Len(pool)] /\ DOMAIN PoolAfterAcquire(i) = 1..(Len(pool) - 1)
            /\ \A l \in 1..(Len(pool) - 1) : PoolAfterAcquire(i)[l] = pool[l]
        BY <3>1, <3>3, Acquired, Zenon
      <4>2. k \notin 1..(Len(pool) - 1)
        BY <3>1, <3>3, <4>1, Zenon
      <4>3. k = Len(pool)
        <5>1. k \in 1..Len(pool)
          BY <1>0, <3>1, Zenon
        <5> QED
          BY <1>0, <4>2, <5>1, LastOne, Zenon
      <4>4. js[i].bufferReusable
        BY <2>1, <4>1 DEF Bounded
      <4> QED
        BY <2>1, <2>2, <3>1, <4>1, <4>3, <4>4 DEF Pooled, InUse
    <3> QED
      BY <3>2, <3>3
  <2>4. CASE \E j \in Iterator : InUse(j) /\ js[j].bufferReusable /\ js[j].chunk = b
    <3>1. PICK j \in Iterator : InUse(j) /\ js[j].bufferReusable /\ js[j].chunk = b
      BY <2>4
    <3>2. CASE j = i
      <4>1. Chunk(i) = b
        BY <3>1, <3>2 DEF Chunk, InUse
      <4> QED
        BY <2>1, <2>2, <3>1, <3>2, <4>1 DEF Pooled, InUse
    <3>3. CASE j # i
      BY <2>1, <3>1, <3>3 DEF Others, SameChunk, Pooled, InUse
    <3> QED
      BY <3>2, <3>3
  <2> QED
    BY <2>3, <2>4 DEF Pooled
<1>4. ASSUME NEW i \in Iterator, Releases(i) PROVE Pooled(b)'
  <2>0. Others(i) /\ js[i].made /\ ~ js[i].done
    BY <1>4 DEF Releases
  <2>1. PICK p \in Seq(Iterator), c \in Buffer \cup {None} :
          /\ pool' = PoolAfterRelease(i, c, p)
          /\ js[i].bufferReusable => c \in Iterator \cup {None}
          /\ \/ p = pool /\ c = js[i].chunk
             \/ p = PoolAfterAcquire(i) /\ c = Chunk(i)
    BY <1>4, ReleasesFrom
  <2>2. Len(p) \in Nat /\ Len(p) < PoolMax /\ DOMAIN p = 1..Len(p)
    <3>1. p = pool \/ Len(p) = Len(pool) - 1
      BY <2>1, Acquired, Zenon
    <3>2. Len(p) \in Nat /\ DOMAIN p = 1..Len(p)
      BY LenProperties
    <3>3. \A m, n, l \in Nat : n < l /\ (m = n \/ m = n - 1) => m < l
      BY ONLY SMT
    <3> QED
      BY <1>0, <3>1, <3>2, <3>3, Zenon
  <2>3. ASSUME NEW k \in DOMAIN p, p[k] = b PROVE Pooled(b)'
    <3>1. k \in DOMAIN pool' /\ pool'[k] = b
      <4>1. CASE js[i].bufferReusable
        <5>1. \/ pool' = p
              \/ /\ DOMAIN pool' = 1..(Len(p) + 1)
                 /\ \A l \in 1..Len(p) : pool'[l] = p[l]
          <6>1. c \in Iterator \cup {None}
            BY <2>1, <4>1
          <6>2. \/ PoolAfterRelease(i, c, p) = p
                \/ /\ DOMAIN PoolAfterRelease(i, c, p) = 1..(Len(p) + 1)
                   /\ \A k1 \in 1..Len(p) : PoolAfterRelease(i, c, p)[k1] = p[k1]
            BY <4>1, <6>1, Released
          <6> QED
            BY <2>1, <6>2, Zenon
        <5>2. k \in 1..Len(p) /\ k \in 1..(Len(p) + 1)
          BY <2>2, <2>3
        <5> QED
          BY <2>3, <5>1, <5>2, Zenon
      <4>2. CASE ~ js[i].bufferReusable
        BY <2>1, <2>3, <4>2 DEF PoolAfterRelease
      <4> QED
        BY <4>1, <4>2
    <3> QED
      BY <3>1 DEF Pooled
  <2>4. ASSUME js[i].bufferReusable, c = b PROVE Pooled(b)'
    <3>1. b # None
      BY Assumption DEF Assumption
    <3>2. DOMAIN pool' = 1..(Len(p) + 1) /\ pool'[Len(p) + 1] = b
      <4>1. c # None /\ c \in Iterator \cup {None}
        BY <2>4, <3>1
      <4>2. ~ Len(p) >= PoolMax
        <5>1. \A m, n \in Nat : m < n => ~ m >= n
          BY ONLY SMT
        <5> QED
          BY <1>0, <2>2, <5>1, Zenon
      <4>3. /\ DOMAIN PoolAfterRelease(i, c, p) = 1..(Len(p) + 1)
            /\ PoolAfterRelease(i, c, p)[Len(p) + 1] = c
        BY <2>4, <4>1, <4>2, Released
      <4> QED
        BY <2>1, <2>4, <4>3, Zenon
    <3>3. Len(p) + 1 \in 1..(Len(p) + 1)
      BY <2>2
    <3> QED
      BY <3>2, <3>3 DEF Pooled
  <2>5. CASE \E k \in DOMAIN pool : pool[k] = b
    <3>1. PICK k \in DOMAIN pool : pool[k] = b
      BY <2>5
    <3>2. CASE k \in DOMAIN p /\ p[k] = b
      BY <2>3, <3>2
    <3>3. CASE ~ (k \in DOMAIN p /\ p[k] = b)
      <4>1. /\ js[i].chunk = None /\ js[i].bufferLength = DefaultLen
            /\ c = pool[Len(pool)] /\ DOMAIN p = 1..(Len(pool) - 1)
            /\ \A l \in 1..(Len(pool) - 1) : p[l] = pool[l]
        BY <2>1, <3>1, <3>3, Acquired, Zenon
      <4>2. k \notin 1..(Len(pool) - 1)
        BY <3>1, <3>3, <4>1, Zenon
      <4>3. k = Len(pool)
        <5>1. k \in 1..Len(pool)
          BY <1>0, <3>1, Zenon
        <5> QED
          BY <1>0, <4>2, <5>1, LastOne, Zenon
      <4>4. js[i].bufferReusable
        BY <2>0, <4>1 DEF Bounded
      <4> QED
        BY <2>4, <3>1, <4>1, <4>3, <4>4
    <3> QED
      BY <3>2, <3>3
  <2>6. CASE \E j \in Iterator : InUse(j) /\ js[j].bufferReusable /\ js[j].chunk = b
    <3>1. PICK j \in Iterator : InUse(j) /\ js[j].bufferReusable /\ js[j].chunk = b
      BY <2>6
    <3>2. CASE j = i
      <4>1. c = b
        BY <2>1, <3>1, <3>2 DEF Chunk, InUse
      <4> QED
        BY <2>4, <3>1, <3>2, <4>1
    <3>3. CASE j # i
      BY <2>0, <3>1, <3>3 DEF Others, SameChunk, Pooled, InUse
    <3> QED
      BY <3>2, <3>3
  <2> QED
    BY <2>5, <2>6 DEF Pooled
<1> QED
  BY <1>1, <1>2, <1>3, <1>4, StepBuffer

LEMMA InitBounded == Init => Bounded
<1> SUFFICES ASSUME Init PROVE Bounded
  OBVIOUS
<1>1. Len(pool) = 0 /\ PoolMax \in Nat /\ \A i \in Iterator : ~ js[i].made
  BY Assumption, EmptySeq DEF Assumption, Init
<1> QED
  BY <1>1 DEF Bounded

\* A pooled buffer comes back, whatever ends an iteration, unless the pool is
\* full when it does; the pool itself never outgrows its limit.
THEOREM PooledBuffersComeBack == Spec => BuffersComeBack
<1>1. Init => Typed /\ Stacked /\ Bounded
  BY InitTyped, InitStacked, InitBounded
<1>2. Typed /\ Stacked /\ Bounded /\ [Next]_vars => Typed' /\ Stacked' /\ Bounded'
  BY StepTyped, StepBounded
<1>3. Typed /\ Stacked /\ Bounded /\ [Next]_vars
        => [\A b \in Iterator : Pooled(b) => Pooled(b)' \/ Len(pool) = PoolMax]_vars
  BY StepComesBack
<1> QED
  BY <1>1, <1>2, <1>3, PTL DEF Spec, BuffersComeBack
-----------------------------------------------------------------------------
(* No buffer is in two places.                                              *)

\* The iterator that a buffer is named after has made it.
Owned(b) == js[b].made /\ (js[b].done \/ js[b].chunk # None)

InUseAfter(i) == ~ js'[i].done /\ js'[i].chunk # None
OwnedAfter(b) == js'[b].made /\ (js'[b].done \/ js'[b].chunk # None)

Exclusive ==
  /\ BuffersExclusive
  /\ \A k \in DOMAIN pool : Owned(pool[k])
  /\ \A i \in Iterator : InUse(i) /\ js[i].chunk \in Iterator => Owned(js[i].chunk)

\* A pool and a chunk apart from it, as an iterator has them to go on with.
Apart(i, p, c) ==
  /\ \A k \in DOMAIN p : p[k] # c /\ p[k] \in Iterator /\ Owned(p[k])
  /\ \A k, l \in DOMAIN p : p[k] = p[l] => k = l
  /\ \A k \in DOMAIN p : \A j \in Iterator \ {i} : InUse(j) => p[k] # js[j].chunk
  /\ \A j \in Iterator \ {i} : InUse(j) => js[j].chunk # c
  /\ c \in Iterator => c = i \/ Owned(c)

LEMMA ChunkApart ==
  ASSUME Typed, Exclusive, NEW i \in Iterator, js[i].made, ~ js[i].done
  PROVE  Apart(i, PoolAfterAcquire(i), Chunk(i)) /\ Apart(i, pool, js[i].chunk)
<1>1. /\ Len(pool) \in Nat /\ DOMAIN pool = 1..Len(pool)
      /\ \A k \in DOMAIN pool : pool[k] \in Iterator /\ pool[k] # None
  BY Acquired, Assumption DEF Assumption
<1>2. /\ \A k \in DOMAIN pool : Owned(pool[k])
      /\ \A k, l \in DOMAIN pool : pool[k] = pool[l] => k = l
      /\ \A j \in Iterator : InUse(j) => \A k \in DOMAIN pool : pool[k] # js[j].chunk
      /\ \A j \in Iterator : InUse(i) /\ InUse(j) /\ js[i].chunk = js[j].chunk => i = j
      /\ \A j \in Iterator : InUse(j) /\ js[j].chunk \in Iterator => Owned(js[j].chunk)
  BY DEF Exclusive, BuffersExclusive
<1>3. None \notin Iterator
  BY Assumption DEF Assumption
<1>4. Apart(i, pool, js[i].chunk)
  <2>1. CASE js[i].chunk # None
    <3>1. InUse(i)
      BY <2>1 DEF InUse
    <3> QED
      BY <1>1, <1>2, <3>1 DEF Apart
  <2>2. CASE js[i].chunk = None
    BY <1>1, <1>2, <1>3, <2>2 DEF Apart, InUse
  <2> QED
    BY <2>1, <2>2
<1>5. Apart(i, PoolAfterAcquire(i), Chunk(i))
  <2>1. CASE js[i].chunk # None
    <3>1. PoolAfterAcquire(i) = pool /\ Chunk(i) = js[i].chunk
      BY <2>1 DEF PoolAfterAcquire, Chunk
    <3> QED
      BY <1>4, <3>1
  <2>2. CASE js[i].chunk = None /\ Chunk(i) = i /\ PoolAfterAcquire(i) = pool
    <3>1. ~ Owned(i)
      BY <2>2 DEF Owned
    <3>2. \A k \in DOMAIN pool : pool[k] # i
      BY <1>2, <3>1
    <3>3. \A j \in Iterator : InUse(j) => js[j].chunk # i
      BY <1>2, <3>1
    <3> QED
      BY <1>1, <1>2, <2>2, <3>2, <3>3 DEF Apart
  <2>3. CASE ~ (js[i].chunk = None => Chunk(i) = i /\ PoolAfterAcquire(i) = pool)
    <3>1. /\ Chunk(i) = pool[Len(pool)] /\ Len(pool) \in DOMAIN pool
          /\ DOMAIN PoolAfterAcquire(i) = 1..(Len(pool) - 1)
          /\ \A k \in 1..(Len(pool) - 1) : PoolAfterAcquire(i)[k] = pool[k]
      BY <2>3, Acquired, Zenon
    <3>2. ASSUME NEW k \in 1..(Len(pool) - 1)
          PROVE  k \in DOMAIN pool /\ k # Len(pool)
      <4>1. \A n \in Nat : \A m \in 1..(n - 1) : m \in 1..n /\ m # n
        BY ONLY SMT
      <4> QED
        BY <1>1, <4>1, Zenon
    <3> DEFINE P == PoolAfterAcquire(i)
    <3>3. \A k \in DOMAIN P : k \in DOMAIN pool /\ k # Len(pool) /\ P[k] = pool[k]
      BY <3>1, <3>2, Zenon
    <3> HIDE DEF P
    <3>4. \A k \in DOMAIN P : P[k] # Chunk(i) /\ P[k] \in Iterator /\ Owned(P[k])
      BY <1>1, <1>2, <3>1, <3>3, Zenon
    <3>5. \A k, l \in DOMAIN P : P[k] = P[l] => k = l
      BY <1>2, <3>3, Zenon
    <3>6. \A j \in Iterator \ {i} : InUse(j) =>
            js[j].chunk # Chunk(i) /\ \A k \in DOMAIN P : P[k] # js[j].chunk
      BY <1>2, <3>1, <3>3
    <3>7. Owned(Chunk(i))
      BY <1>2, <3>1
    <3> QED
      BY <3>4, <3>5, <3>6, <3>7, Zenon DEF Apart, P
  <2> QED
    BY <2>1, <2>2, <2>3
<1> QED
  BY <1>4, <1>5

\* The chunk stays with the iterator.
LEMMA KeepsExclusive ==
  ASSUME NEW i \in Iterator, NEW p, NEW c \in Buffer, Apart(i, p, c),
         Others(i), pool' = p, js'[i].made, ~ js'[i].done, js'[i].chunk = c,
         Exclusive
  PROVE  Exclusive'
<1>0. c # None
  BY Assumption DEF Assumption, Buffer
<1>1. /\ \A j \in Iterator \ {i} : InUseAfter(j) = InUse(j) /\ js'[j].chunk = js[j].chunk
      /\ InUseAfter(i)
      /\ \A b \in Iterator \ {i} : OwnedAfter(b) = Owned(b)
      /\ OwnedAfter(i)
  BY <1>0 DEF Others, SameChunk, InUse, InUseAfter, Owned, OwnedAfter
<1>2. \A b \in Iterator : Owned(b) => OwnedAfter(b)
  BY <1>1
<1>3. BuffersExclusive'
  BY <1>1 DEF Apart, BuffersExclusive, Exclusive, InUse, InUseAfter
<1>4. \A k \in DOMAIN pool' : OwnedAfter(pool'[k])
  BY <1>2 DEF Apart
<1>5. \A j \in Iterator : InUseAfter(j) /\ js'[j].chunk \in Iterator => OwnedAfter(js'[j].chunk)
  BY <1>1, <1>2 DEF Apart, Exclusive
<1> QED
  BY <1>3, <1>4, <1>5 DEF Exclusive, InUse, InUseAfter, Owned, OwnedAfter

\* The chunk goes to the pool, or is dropped.
LEMMA ReleasesExclusive ==
  ASSUME NEW i \in Iterator, NEW p \in Seq(Iterator), NEW c \in Buffer \cup {None}, Apart(i, p, c),
         Others(i), pool' = PoolAfterRelease(i, c, p), js'[i].made, js'[i].done,
         js[i].bufferReusable => c \in Iterator \cup {None},
         Exclusive
  PROVE  Exclusive'
<1>1. /\ \A j \in Iterator \ {i} : InUseAfter(j) = InUse(j) /\ js'[j].chunk = js[j].chunk
      /\ ~ InUseAfter(i)
      /\ \A b \in Iterator \ {i} : OwnedAfter(b) = Owned(b)
      /\ OwnedAfter(i)
  BY DEF Others, SameChunk, InUse, InUseAfter, Owned, OwnedAfter
<1>2. \A b \in Iterator : Owned(b) => OwnedAfter(b)
  BY <1>1
<1>3. \A j \in Iterator : InUseAfter(j) /\ js'[j].chunk \in Iterator => OwnedAfter(js'[j].chunk)
  BY <1>1, <1>2 DEF Exclusive
<1>4. \A j, l \in Iterator : InUseAfter(j) /\ InUseAfter(l) /\ js'[j].chunk = js'[l].chunk => j = l
  BY <1>1 DEF Exclusive, BuffersExclusive
<1>5. CASE pool' = p
  <2>1. BuffersExclusive'
    BY <1>1, <1>4, <1>5 DEF Apart, BuffersExclusive, InUse, InUseAfter
  <2>2. \A k \in DOMAIN pool' : OwnedAfter(pool'[k])
    BY <1>2, <1>5 DEF Apart
  <2> QED
    BY <1>3, <2>1, <2>2 DEF Exclusive, InUse, InUseAfter, Owned, OwnedAfter
<1>6. CASE pool' # p
  <2>1. js[i].bufferReusable /\ c \in Iterator
    BY <1>6 DEF PoolAfterRelease
  <2>2. /\ Len(p) \in Nat /\ DOMAIN p = 1..Len(p)
        /\ DOMAIN pool' = 1..(Len(p) + 1)
        /\ \A k \in 1..Len(p) : pool'[k] = p[k]
        /\ pool'[Len(p) + 1] = c
    <3>1. /\ Len(p) \in Nat /\ DOMAIN p = 1..Len(p)
          /\ \/ PoolAfterRelease(i, c, p) = p
             \/ /\ DOMAIN PoolAfterRelease(i, c, p) = 1..(Len(p) + 1)
                /\ \A k \in 1..Len(p) : PoolAfterRelease(i, c, p)[k] = p[k]
                /\ PoolAfterRelease(i, c, p)[Len(p) + 1] = c
      BY <2>1, Released
    <3>2. pool' # p /\ pool' = PoolAfterRelease(i, c, p)
      BY <1>6
    <3>3. /\ DOMAIN PoolAfterRelease(i, c, p) = 1..(Len(p) + 1)
          /\ \A k \in 1..Len(p) : PoolAfterRelease(i, c, p)[k] = p[k]
          /\ PoolAfterRelease(i, c, p)[Len(p) + 1] = c
      BY ONLY <3>1, <3>2, Zenon
    <3> QED
      BY ONLY <3>1, <3>2, <3>3, Zenon
  <2>3. \A k \in DOMAIN pool' : 
         (k \in DOMAIN p /\ pool'[k] = p[k]) \/ (k = Len(p) + 1 /\ pool'[k] = c)
    <3>1. \A n \in Nat : \A k \in 1..(n + 1) : k \in 1..n \/ k = n + 1
      BY ONLY SMT
    <3>2. \A k \in 1..(Len(p) + 1) : k \in 1..Len(p) \/ k = Len(p) + 1
      BY <2>2, <3>1, Zenon
    <3> QED
      BY <2>2, <3>2
  <2> HIDE <2>2
  <2>4. \A k, l \in DOMAIN pool' : pool'[k] = pool'[l] => k = l
    BY <2>3 DEF Apart
  <2>5. \A k \in DOMAIN pool' : OwnedAfter(pool'[k])
    BY <1>1, <1>2, <2>1, <2>3 DEF Apart
  <2>6. \A j \in Iterator : InUseAfter(j) => \A k \in DOMAIN pool' : pool'[k] # js'[j].chunk
    BY <1>1, <2>3 DEF Apart
  <2>7. BuffersExclusive'
    BY <1>4, <2>4, <2>6 DEF BuffersExclusive, InUse, InUseAfter
  <2> QED
    BY <1>3, <2>5, <2>7 DEF Exclusive, InUse, InUseAfter, Owned, OwnedAfter
<1> QED
  BY <1>5, <1>6

LEMMA StepExclusive ==
  ASSUME ~ Lent, Typed, Stacked, Exclusive, [Next]_vars
  PROVE  Exclusive'
<1>1. CASE Idles
  <2>1. /\ \A j \in Iterator : InUseAfter(j) = InUse(j) /\ js'[j].chunk = js[j].chunk
        /\ \A b \in Iterator : OwnedAfter(b) = Owned(b)
        /\ pool' = pool
    BY <1>1 DEF Idles, SameChunk, InUse, InUseAfter, Owned, OwnedAfter
  <2>2. \A k \in DOMAIN pool : pool[k] \in Iterator
    BY LenProperties, ElementOfSeq DEF Typed, TypeOK
  <2> QED
    BY <2>1, <2>2 DEF Exclusive, BuffersExclusive, InUse, InUseAfter, Owned, OwnedAfter
<1>2. ASSUME NEW i \in Iterator, Makes(i) PROVE Exclusive'
  <2>1. /\ ~ js[i].made /\ js'[i].made /\ pool' = pool /\ Others(i)
        /\ js'[i].chunk # None => js'[i].chunk \in Array /\ ~ LentOut(js'[i].chunk)
    BY <1>2 DEF Makes
  <2>2. /\ \A j \in Iterator \ {i} : InUseAfter(j) = InUse(j) /\ js'[j].chunk = js[j].chunk
        /\ \A b \in Iterator \ {i} : OwnedAfter(b) = Owned(b)
        /\ ~ Owned(i) /\ ~ InUse(i)
    BY <2>1 DEF Others, SameChunk, InUse, InUseAfter, Owned, OwnedAfter, Typed, Shape
  <2>3. \A b \in Iterator : Owned(b) => OwnedAfter(b)
    BY <2>2
  <2>4. InUseAfter(i) => /\ js'[i].chunk \notin Iterator
                     /\ \A j \in Iterator : InUse(j) => js[j].chunk # js'[i].chunk
    <3>1. Iterator \cap Array = {}
      BY Assumption DEF Assumption
    <3> QED
      BY <2>1, <3>1 DEF InUse, InUseAfter, LentOut
  <2>5. \A k \in DOMAIN pool : pool[k] \in Iterator
    BY Acquired
  <2>6. BuffersExclusive'
    BY <2>1, <2>2, <2>4, <2>5 DEF BuffersExclusive, Exclusive, InUse, InUseAfter
  <2>7. \A j \in Iterator : InUseAfter(j) /\ js'[j].chunk \in Iterator => OwnedAfter(js'[j].chunk)
    BY <2>2, <2>3, <2>4 DEF Exclusive
  <2> QED
    BY <2>1, <2>3, <2>5, <2>6, <2>7 DEF Exclusive, InUse, InUseAfter, Owned, OwnedAfter
<1>3. ASSUME NEW i \in Iterator, Takes(i) PROVE Exclusive'
  <2>1. /\ js[i].made /\ ~ js[i].done /\ pool' = PoolAfterAcquire(i) /\ Others(i)
        /\ js'[i].made /\ ~ js'[i].done /\ js'[i].chunk = Chunk(i)
    BY <1>3 DEF Takes
  <2>2. Apart(i, PoolAfterAcquire(i), Chunk(i)) /\ Chunk(i) \in Buffer
    BY <2>1, ChunkApart, ChunkFacts
  <2> QED
    BY <2>1, <2>2, KeepsExclusive
<1>4. ASSUME NEW i \in Iterator, Releases(i) PROVE Exclusive'
  <2>1. PICK p \in Seq(Iterator), c \in Buffer \cup {None} :
          /\ pool' = PoolAfterRelease(i, c, p)
          /\ js[i].bufferReusable => c \in Iterator \cup {None}
          /\ \/ p = pool /\ c = js[i].chunk
             \/ p = PoolAfterAcquire(i) /\ c = Chunk(i)
    BY <1>4, ReleasesFrom
  <2>2. Others(i) /\ js[i].made /\ ~ js[i].done /\ js'[i].made /\ js'[i].done
    BY <1>4 DEF Releases
  <2>3. Apart(i, p, c)
    BY <2>1, <2>2, ChunkApart
  <2> QED
    BY <2>1, <2>2, <2>3, ReleasesExclusive
<1> QED
  BY <1>1, <1>2, <1>3, <1>4, StepBuffer

LEMMA InitExclusive == Init => Exclusive
<1> SUFFICES ASSUME Init PROVE Exclusive
  OBVIOUS
<1>1. DOMAIN pool = {} /\ \A i \in Iterator : ~ InUse(i)
  BY DEF Init, InUse
<1> QED
  BY <1>1 DEF Exclusive, BuffersExclusive

\* Unless the user lends one array to two iterators at once, no two iterators
\* fill the same buffer and none fills one that waits in the pool.
THEOREM BuffersAreExclusive ==
  ASSUME ~ Lent
  PROVE  Spec => []BuffersExclusive
<1>1. Init => Typed /\ Stacked /\ Exclusive
  BY InitTyped, InitStacked, InitExclusive
<1>2. Typed /\ Stacked /\ Exclusive /\ [Next]_vars => Typed' /\ Stacked' /\ Exclusive'
  <2> SUFFICES ASSUME Typed, Stacked, Exclusive, [Next]_vars
               PROVE  Typed' /\ Stacked' /\ Exclusive'
    OBVIOUS
  <2> QED
    BY StepTyped, StepExclusive
<1>3. Exclusive => BuffersExclusive
  BY DEF Exclusive
<1> QED
  BY <1>1, <1>2, <1>3, PTL DEF Spec

-----------------------------------------------------------------------------
(* BufferedIterator implements OrderedIteration, and tells callbacks the   *)
(* position of their value, for any number of iterators, bitmaps and       *)
(* values and any length of buffers.                                       *)

(* What a step leaves alone.                                                *)

Quiet(j) ==
  /\ js'[j] = js[j] /\ native'[j] = native[j] /\ loop'[j] = loop[j]
  /\ over'[j] = over[j] /\ taken'[j] = taken[j] /\ yielded'[j] = yielded[j]
  /\ told'[j] = told[j]

AnswerQuiet(i) == \A j \in Iterator \ {i} : loop'[j] = loop[j]

LEMMA AnswerQuiets ==
  ASSUME Typed, NEW i \in Iterator, NEW result, Answer(i, result)
  PROVE  AnswerQuiet(i)
<1>1. loop \in [Iterator -> Loop] /\ loop' = [loop EXCEPT ![i] = HelperAfter(i, result)]
  BY DEF Typed, TypeOK, Answer
<1> QED
  BY <1>1 DEF AnswerQuiet

LEMMA StepQuiet ==
  ASSUME Typed, NEW i \in Iterator, Step(i), NEW j \in Iterator \ {i}
  PROVE  Quiet(j) /\ UNCHANGED <<bits, version, over>>
<1>0. /\ js \in [Iterator -> Js] /\ native \in [Iterator -> Native] /\ loop \in [Iterator -> Loop]
      /\ over \in [Iterator -> Bitmap \cup {None}] /\ taken \in [Iterator -> Seq(Value)]
      /\ yielded \in [Iterator -> Seq(Value)]
      /\ told \in [Iterator -> {"ready", "going", "ended", "failed", "stopped"}]
  BY DEF Typed, TypeOK
<1>1. CASE NextBuffered(i)
  <2>1. AnswerQuiet(i)
    BY <1>1, AnswerQuiets DEF NextBuffered, HandOut
  <2> QED
    BY <1>0, <1>1, <2>1 DEF NextBuffered, HandOut, Quiet, AnswerQuiet
<1>2. ASSUME NEW r, NEW p, AfterFill(i, r, p)
      PROVE  /\ js'[j] = js[j] /\ native'[j] = native[j] /\ loop'[j] = loop[j]
             /\ yielded'[j] = yielded[j] /\ told'[j] = told[j]
  <2>1. AnswerQuiet(i)
    BY <1>2, AnswerQuiets DEF AfterFill, HandOut
  <2>2. CASE FillCount(i, r) > 0
    BY <1>0, <1>2, <2>1, <2>2 DEF AfterFill, HandOut, AnswerQuiet
  <2>3. CASE ~ FillCount(i, r) > 0
    BY <1>0, <1>2, <2>1, <2>3 DEF AfterFill, AnswerQuiet
  <2> QED
    BY <2>2, <2>3
<1>3. CASE NextOpens(i)
  <2>1. /\ taken' = [taken EXCEPT ![i] = InOrder(i)[bits[js[i].bitmap]]]
        /\ AfterFill(i, Opened(i, js[i].bitmap, Chunk(i)), PoolAfterAcquire(i))
        /\ UNCHANGED <<bits, version, over>>
    BY <1>3 DEF NextOpens
  <2> QED
    BY <1>0, <1>2, <2>1 DEF Quiet
<1>4. CASE NextOpensFails(i)
  <2>1. AnswerQuiet(i)
    BY <1>4, AnswerQuiets DEF NextOpensFails
  <2> QED
    BY <1>0, <1>4, <2>1 DEF NextOpensFails, Quiet, AnswerQuiet
<1>5. CASE NextRefills(i)
  <2>1. AfterFill(i, native[i], pool) /\ UNCHANGED <<bits, version, over, taken>>
    BY <1>5 DEF NextRefills
  <2> QED
    BY <1>2, <2>1 DEF Quiet
<1>6. CASE NextThrows(i)
  <2>1. AnswerQuiet(i)
    BY <1>6, AnswerQuiets DEF NextThrows
  <2> QED
    BY <1>0, <1>6, <2>1 DEF NextThrows, Quiet, AnswerQuiet
<1>7. CASE CallbackReturns(i)
  <2>1. loop'[j] = loop[j]
    BY <1>0, <1>7 DEF CallbackReturns
  <2> QED
    BY <1>7, <2>1 DEF CallbackReturns, Quiet
<1>8. ASSUME NEW throws \in BOOLEAN, CallbackStops(i, throws)
      PROVE  Quiet(j) /\ UNCHANGED <<bits, version, over>>
  BY <1>0, <1>8 DEF CallbackStops, Return, Quiet
<1> QED
  BY <1>1, <1>3, <1>4, <1>5, <1>6, <1>7, <1>8 DEF Step

LEMMA MadeQuiet ==
  ASSUME Typed, NEW i \in Iterator, NEW j \in Iterator \ {i},
         \/ \E b \in Bitmap \cup {None}, buffer \in Array \cup {None}, halves \in Halves \cup {None} :
              NewIterator(i, b, buffer, halves)
         \/ \E b \in Bitmap, helper \in {"forEach", "every", "some", "reduceRight"} :
              StartHelper(i, b, helper)
         \/ UserReturns(i)
  PROVE  Quiet(j) /\ UNCHANGED <<bits, version, memory>>
<1>0. /\ js \in [Iterator -> Js] /\ native \in [Iterator -> Native] /\ loop \in [Iterator -> Loop]
      /\ over \in [Iterator -> Bitmap \cup {None}]
      /\ told \in [Iterator -> {"ready", "going", "ended", "failed", "stopped"}]
  BY DEF Typed, TypeOK
<1>1. ASSUME NEW b \in Bitmap \cup {None}, NEW buffer \in Array \cup {None},
             NEW halves \in Halves \cup {None}, NewIterator(i, b, buffer, halves)
      PROVE  Quiet(j) /\ UNCHANGED <<bits, version, memory>>
  <2>1. js'[j] = js[j]
    BY <1>1, MadeTyped DEF NewIterator
  <2> QED
    BY <1>0, <1>1, <2>1 DEF NewIterator, Quiet
<1>2. ASSUME NEW b \in Bitmap, NEW helper \in {"forEach", "every", "some", "reduceRight"},
             StartHelper(i, b, helper)
      PROVE  Quiet(j) /\ UNCHANGED <<bits, version, memory>>
  <2>1. js'[j] = js[j]
    BY <1>2, MadeTyped DEF StartHelper
  <2> QED
    BY <1>0, <1>2, <2>1 DEF StartHelper, Quiet
<1>3. CASE UserReturns(i)
  BY <1>0, <1>3 DEF UserReturns, Return, Quiet
<1> QED
  BY <1>1, <1>2, <1>3
\* The two outcomes of a fill.
LEMMA FillOutcome ==
  ASSUME Typed, NEW i \in Iterator, js[i].made, ~ js[i].done, NEW r, NEW p, AfterFill(i, r, p)
  PROVE  /\ FillCount(i, r) > 0 =>
              /\ js'[i].made /\ ~ js'[i].done /\ js'[i].reader
              /\ js'[i].chunk = Chunk(i)
              /\ js'[i].bufferIndex = 1 /\ js'[i].bufferCount = FillCount(i, r)
              /\ native'[i] = Filled(i, r) /\ told'[i] = "going"
              /\ yielded'[i] = Append(yielded[i], memory'[Chunk(i)][1])
              /\ loop'[i] = HelperAfter(i, "value")
         /\ ~ FillCount(i, r) > 0 =>
              /\ js'[i].made /\ js'[i].done /\ ~ js'[i].reader
              /\ told'[i] = "ended" /\ yielded'[i] = yielded[i]
              /\ loop'[i] = HelperAfter(i, "end")
         /\ memory'[Chunk(i)] = FilledChunk(i, r, ChunkContent(i))
         /\ \A b \in Buffer \ {Chunk(i)} : memory'[b] = memory[b]
<1>0. /\ js \in [Iterator -> Js] /\ js[i] \in Js /\ native \in [Iterator -> Native]
      /\ loop \in [Iterator -> Loop]
      /\ yielded \in [Iterator -> Seq(Value)] /\ memory \in [Buffer -> Seq(Value \cup {0})]
      /\ told \in [Iterator -> {"ready", "going", "ended", "failed", "stopped"}]
  BY DEF Typed, TypeOK
<1>1. Chunk(i) \in Buffer
  BY ChunkFacts
<1>2. /\ memory'[Chunk(i)] = FilledChunk(i, r, ChunkContent(i))
      /\ \A b \in Buffer \ {Chunk(i)} : memory'[b] = memory[b]
  BY <1>0, <1>1 DEF AfterFill
<1>3. CASE FillCount(i, r) > 0
  <2>1. /\ native' = [native EXCEPT ![i] = Filled(i, r)]
        /\ js' = [js EXCEPT ![i].bitmap = None, ![i].chunk = Chunk(i), ![i].reader = TRUE,
                            ![i].bufferIndex = 1, ![i].bufferCount = FillCount(i, r)]
        /\ yielded' = [yielded EXCEPT ![i] = Append(@, FilledChunk(i, r, ChunkContent(i))[1])]
        /\ told' = [told EXCEPT ![i] = "going"]
        /\ loop' = [loop EXCEPT ![i] = HelperAfter(i, "value")]
    BY <1>3 DEF AfterFill, HandOut, Answer
  <2>2. /\ js'[i].made = js[i].made /\ js'[i].done = js[i].done /\ js'[i].reader
        /\ js'[i].chunk = Chunk(i)
        /\ js'[i].bufferIndex = 1 /\ js'[i].bufferCount = FillCount(i, r)
    BY <1>0, <2>1 DEF Js
  <2>3. yielded'[i] = Append(yielded[i], memory'[Chunk(i)][1])
    BY <1>0, <1>2, <2>1
  <2>4. native'[i] = Filled(i, r) /\ told'[i] = "going" /\ loop'[i] = HelperAfter(i, "value")
    BY <1>0, <2>1
  <2> QED
    BY <1>2, <1>3, <2>2, <2>3, <2>4
<1>4. CASE ~ FillCount(i, r) > 0
  <2>1. /\ js' = [js EXCEPT ![i].bitmap = None, ![i].chunk = None, ![i].reader = FALSE,
                            ![i].bufferReusable = FALSE, ![i].bufferIndex = 0,
                            ![i].bufferCount = 0, ![i].done = TRUE]
        /\ told' = [told EXCEPT ![i] = "ended"] /\ yielded' = yielded
        /\ loop' = [loop EXCEPT ![i] = HelperAfter(i, "end")]
    BY <1>4 DEF AfterFill, Answer
  <2>2. js'[i] = [js[i] EXCEPT !.bitmap = None, !.chunk = None, !.reader = FALSE,
                               !.bufferReusable = FALSE, !.bufferIndex = 0,
                               !.bufferCount = 0, !.done = TRUE]
    BY <1>0, <2>1
  <2>3. js'[i].made = js[i].made /\ js'[i].done /\ ~ js'[i].reader
    BY <1>0, <2>2 DEF Js
  <2>4. told'[i] = "ended" /\ yielded'[i] = yielded[i] /\ loop'[i] = HelperAfter(i, "end")
    BY <1>0, <2>1
  <2> QED
    BY <1>2, <1>4, <2>3, <2>4
<1> QED
  BY <1>3, <1>4
-----------------------------------------------------------------------------
(* Before the first value, and after it.                                    *)

Started(i) ==
  /\ ~ js[i].made => over[i] = None
  /\ js[i].made /\ ~ js[i].done /\ ~ js[i].reader => over[i] = js[i].bitmap
  /\ ~ js[i].done /\ ~ js[i].reader => taken[i] = <<>> /\ yielded[i] = <<>> /\ told[i] = "ready"
  /\ js[i].reader => told[i] \in {"going", "failed"}

LEMMA QuietStarted == ASSUME NEW j \in Iterator, Quiet(j), Started(j) PROVE Started(j)'
  BY DEF Quiet, Started

LEMMA InitStarted == Init => \A i \in Iterator : Started(i)
  BY DEF Init, Started

LEMMA MadeStarted ==
  ASSUME Typed, NEW i \in Iterator, Started(i), ~ js[i].made, NEW b \in Bitmap \cup {None},
         NEW buffer \in Array \cup {None}, NEW halves \in Halves \cup {None, 2 * DefaultLen},
         NormalizeIteratorInputs(i, b, buffer, halves),
         over'[i] = b, taken'[i] = taken[i], yielded'[i] = yielded[i],
         b # None => told'[i] = told[i]
  PROVE  Started(i)'
<1>1. /\ js'[i].made /\ ~ js'[i].reader
      /\ js'[i].done <=> b = None
      /\ b # None => js'[i].bitmap = b
  BY MadeTyped
<1>2. ~ js[i].done /\ ~ js[i].reader
  BY DEF Typed, Shape
<1> QED
  BY <1>1, <1>2 DEF Started

LEMMA FillStarted ==
  ASSUME Typed, NEW i \in Iterator, js[i].made, ~ js[i].done, NEW r, NEW p, AfterFill(i, r, p)
  PROVE  Started(i)'
<1>1. CASE FillCount(i, r) > 0
  BY <1>1, FillOutcome DEF Started
<1>2. CASE ~ FillCount(i, r) > 0
  BY <1>2, FillOutcome DEF Started
<1> QED
  BY <1>1, <1>2

LEMMA ReturnStarted ==
  ASSUME Typed, NEW i \in Iterator, Return(i), js[i].made
  PROVE  Started(i)' /\ told'[i] = "stopped" /\ js'[i].done /\ ~ js'[i].reader
<1>1. /\ js[i] \in Js /\ js \in [Iterator -> Js]
      /\ told \in [Iterator -> {"ready", "going", "ended", "failed", "stopped"}]
  BY DEF Typed, TypeOK
<1>2. /\ js' = [js EXCEPT ![i].bitmap = None, ![i].chunk = None, ![i].reader = FALSE,
                          ![i].bufferReusable = FALSE, ![i].done = TRUE]
      /\ told' = [told EXCEPT ![i] = "stopped"]
  BY DEF Return
<1>3. js'[i] = [js[i] EXCEPT !.bitmap = None, !.chunk = None, !.reader = FALSE,
                             !.bufferReusable = FALSE, !.done = TRUE]
  BY <1>1, <1>2
<1>4. js'[i].made = js[i].made /\ js'[i].done /\ ~ js'[i].reader
  BY <1>1, <1>3 DEF Js
<1>5. told'[i] = "stopped"
  BY <1>1, <1>2
<1> QED
  BY <1>4, <1>5 DEF Started
LEMMA IteratorStepStarted ==
  ASSUME Typed, Stacked, NEW i \in Iterator, Started(i), Step(i)
  PROVE  Started(i)'
<1>0. /\ js \in [Iterator -> Js] /\ js[i] \in Js
      /\ told \in [Iterator -> {"ready", "going", "ended", "failed", "stopped"}]
      /\ UNCHANGED over
  BY StepTyped DEF Typed, TypeOK, Step, NextBuffered, NextOpens, NextOpensFails, NextRefills,
                   NextThrows, CallbackReturns, CallbackStops, Return
<1>1. CASE NextBuffered(i)
  <2>1. /\ js[i].made /\ ~ js[i].done /\ js[i].bufferIndex < js[i].bufferCount
        /\ js' = [js EXCEPT ![i].bufferIndex = @ + 1] /\ told' = [told EXCEPT ![i] = "going"]
    BY <1>1 DEF NextBuffered, HandOut, Asked
  <2>2. js[i].reader
    <3>1. js[i].bufferIndex \in Nat /\ js[i].bufferCount \in Nat
      BY <1>0 DEF Js
    <3> QED
      BY <2>1, <3>1 DEF Typed, Shape
  <2>3. js'[i].made = js[i].made /\ js'[i].reader = js[i].reader /\ told'[i] = "going"
    BY <1>0, <2>1 DEF Js
  <2> QED
    BY <2>1, <2>2, <2>3 DEF Started
<1>2. CASE NextOpens(i)
  <2>1. /\ js[i].made /\ ~ js[i].done
        /\ AfterFill(i, Opened(i, js[i].bitmap, Chunk(i)), PoolAfterAcquire(i))
    BY <1>2 DEF NextOpens, MustFill, Asked
  <2> QED
    BY <2>1, FillStarted
<1>3. CASE NextOpensFails(i)
  <2>1. /\ js' = [js EXCEPT ![i].chunk = Chunk(i)] /\ UNCHANGED <<over, taken, yielded, told>>
    BY <1>3 DEF NextOpensFails
  <2>2. /\ js'[i].made = js[i].made /\ js'[i].done = js[i].done /\ js'[i].reader = js[i].reader
        /\ js'[i].bitmap = js[i].bitmap
    BY <1>0, <2>1 DEF Js
  <2> QED
    BY <2>1, <2>2 DEF Started
<1>4. CASE NextRefills(i)
  <2>1. js[i].made /\ ~ js[i].done /\ AfterFill(i, native[i], pool)
    BY <1>4 DEF NextRefills, MustFill, Asked
  <2> QED
    BY <2>1, FillStarted
<1>5. CASE NextThrows(i)
  <2>1. js[i].reader /\ js[i].made /\ UNCHANGED js /\ told'[i] = "failed"
    BY <1>0, <1>5 DEF NextThrows, MustFill, Asked
  <2> QED
    BY <2>1 DEF Started
<1>6. CASE CallbackReturns(i)
  BY <1>6 DEF CallbackReturns, Started
<1>7. ASSUME NEW throws \in BOOLEAN, CallbackStops(i, throws) PROVE Started(i)'
  BY <1>7, OnTop, ReturnStarted DEF CallbackStops
<1> QED
  BY <1>1, <1>2, <1>3, <1>4, <1>5, <1>6, <1>7 DEF Step

LEMMA StepStarted ==
  ASSUME Typed, Stacked, \A i \in Iterator : Started(i), [Next]_vars
  PROVE  \A i \in Iterator : Started(i)'
<1>1. ASSUME NEW b \in Bitmap, Change(b) PROVE \A i \in Iterator : Started(i)'
  BY <1>1 DEF Change, Started
<1>2. ASSUME NEW i \in Iterator, NEW b \in Bitmap \cup {None}, NEW buffer \in Array \cup {None},
             NEW halves \in Halves \cup {None}, NewIterator(i, b, buffer, halves)
      PROVE  \A j \in Iterator : Started(j)'
  <2>1. /\ ~ js[i].made /\ NormalizeIteratorInputs(i, b, buffer, halves)
        /\ over'[i] = b /\ (b # None => told'[i] = told[i]) /\ UNCHANGED <<taken, yielded>>
    BY <1>2 DEF NewIterator, Typed, TypeOK
  <2>2. Started(i)'
    BY <2>1, MadeStarted
  <2> QED
    BY <1>2, <2>2, MadeQuiet, QuietStarted
<1>3. ASSUME NEW i \in Iterator, NEW b \in Bitmap,
             NEW helper \in {"forEach", "every", "some", "reduceRight"},
             StartHelper(i, b, helper)
      PROVE  \A j \in Iterator : Started(j)'
  <2>1. /\ ~ js[i].made /\ NormalizeIteratorInputs(i, b, None, 2 * DefaultLen)
        /\ over'[i] = b /\ UNCHANGED <<taken, yielded, told>>
    BY <1>3 DEF StartHelper, Typed, TypeOK
  <2>2. Started(i)'
    BY <2>1, MadeStarted
  <2> QED
    BY <1>3, <2>2, MadeQuiet, QuietStarted
<1>4. ASSUME NEW i \in Iterator, UserReturns(i) PROVE \A j \in Iterator : Started(j)'
  <2>1. Started(i)'
    BY <1>4, ReturnStarted DEF UserReturns
  <2> QED
    BY <1>4, <2>1, MadeQuiet, QuietStarted
<1>5. ASSUME NEW i \in Iterator, Step(i) PROVE \A j \in Iterator : Started(j)'
  BY <1>5, IteratorStepStarted, StepQuiet, QuietStarted
<1>6. CASE UNCHANGED vars
  BY <1>6 DEF vars, Started
<1>7. CASE User
  BY <1>1, <1>2, <1>3, <1>4, <1>7 DEF User
<1> QED
  BY <1>5, <1>6, <1>7 DEF Next
-----------------------------------------------------------------------------
(* Where an iteration stands.                                               *)

\* The values in the chunk that were not handed out yet, and how many values
\* the native iterator has passed.
Left(i) == js[i].bufferCount - js[i].bufferIndex
Passed(i) == Len(yielded[i]) + Left(i)

\* The values handed out and those left in the chunk begin the order taken at
\* the start, and as long as the bitmap does not change the native iterator
\* goes on with the next one.
Position(i) == js[i].reader =>
  /\ Passed(i) <= Len(taken[i])
  /\ \A k \in 1..Len(yielded[i]) : yielded[i][k] = taken[i][k]
  /\ \A k \in 1..Left(i) :
       memory[js[i].chunk][js[i].bufferIndex + k] = taken[i][Len(yielded[i]) + k]
  /\ told[i] = "failed" => Left(i) = 0 /\ Changed(i)
  /\ ~ Changed(i) =>
       /\ taken[i] = InOrder(i)[bits[native[i].on]]
       /\ native[i].hasValue <=> Passed(i) < Len(taken[i])
       /\ native[i].hasValue => native[i].value = taken[i][Passed(i) + 1]

LEMMA BelowOrEnd ==
  \A m \in Nat : \A q \in 0..m :
    /\ q \in Nat
    /\ q < m => q \in 0..(m - 1)
    /\ ~ q < m => q = m /\ m - q = 0
  OBVIOUS

LEMMA RestIsTail ==
  ASSUME Typed, NEW i \in Iterator, NEW r \in Native, r.on \in Bitmap,
         NEW pos \in 0..Len(InOrder(i)[bits[r.on]]),
         r.hasValue <=> pos < Len(InOrder(i)[bits[r.on]]),
         r.hasValue => r.value = InOrder(i)[bits[r.on]][pos + 1]
  PROVE  /\ Len(Rest(i, r)) = Len(InOrder(i)[bits[r.on]]) - pos
         /\ \A k \in 1..(Len(InOrder(i)[bits[r.on]]) - pos) :
              Rest(i, r)[k] = InOrder(i)[bits[r.on]][pos + k]
<1> DEFINE S == bits[r.on]
           n == Cardinality(S)
<1>1. S \in SUBSET Value /\ Len(InOrder(i)[S]) = n /\ n \in Nat
  BY SubsetsFinite, OrderedValues DEF Typed, TypeOK
<1> HIDE DEF S, n
<1>2. /\ pos \in 0..n
      /\ r.hasValue <=> pos < n
      /\ r.hasValue => r.value = InOrder(i)[S][pos + 1]
  BY <1>1 DEF S
<1>3. CASE r.hasValue
  <2>1. pos \in 0..(n - 1)
    BY <1>1, <1>2, <1>3, BelowOrEnd, Zenon
  <2>2. r.value = InOrder(i)[S][pos + 1]
    BY <1>2, <1>3
  <2> DEFINE T == { v \in S : IF i \in Reversed THEN v <= r.value ELSE v >= r.value }
  <2>3. /\ Len(InOrder(i)[T]) = n - pos
        /\ \A k \in 1..(n - pos) : InOrder(i)[T][k] = InOrder(i)[S][pos + k]
    <3>1. pos \in 0..(Cardinality(S) - 1) /\ S \in SUBSET Value
      BY <1>1, <2>1 DEF n
    <3> HIDE DEF T
    <3>2. /\ Len(InOrder(i)[T]) = Cardinality(S) - pos
          /\ \A k \in 1..(Cardinality(S) - pos) : InOrder(i)[T][k] = InOrder(i)[S][pos + k]
      <4>1. T = { v \in S : IF i \in Reversed THEN v <= r.value ELSE v >= r.value }
        BY DEF T
      <4> QED
        BY <2>2, <3>1, <4>1, TailInOrder
    <3> QED
      BY <3>2 DEF n
  <2>4. Rest(i, r) = InOrder(i)[T]
    BY <1>3 DEF Rest, S
  <2> QED
    BY <1>1, <2>3, <2>4 DEF S
<1>4. CASE ~ r.hasValue
  <2>1. pos = n /\ n - pos = 0
    BY <1>1, <1>2, <1>4, BelowOrEnd, Zenon
  <2>2. Rest(i, r) = <<>> /\ Len(<<>>) = 0
    BY <1>4, EmptySeq DEF Rest
  <2> QED
    BY <1>1, <2>1, <2>2 DEF S
<1> QED
  BY <1>3, <1>4

\* A fill by a native iterator that goes on where the values handed out end.
LEMMA FillPosition ==
  ASSUME Typed, NEW i \in Iterator, js[i].made, ~ js[i].done,
         NEW r \in Native, r.on \in Bitmap, r.length = Len(ChunkContent(i)),
         NEW p, AfterFill(i, r, p), UNCHANGED <<bits, version>>,
         taken'[i] = InOrder(i)[bits[r.on]],
         Len(yielded[i]) <= Len(taken'[i]),
         \A k \in 1..Len(yielded[i]) : yielded[i][k] = taken'[i][k],
         r.hasValue <=> Len(yielded[i]) < Len(taken'[i]),
         r.hasValue => r.value = taken'[i][Len(yielded[i]) + 1]
  PROVE  /\ FillCount(i, r) > 0 =>
              /\ Position(i)'
              /\ Len(yielded[i]) < Len(taken'[i])
              /\ yielded'[i] = Append(yielded[i], taken'[i][Len(yielded[i]) + 1])
         /\ ~ FillCount(i, r) > 0 => yielded[i] = taken'[i]
<1> DEFINE all == taken'[i]
           y == yielded[i]
           pos == Len(yielded[i])
           n == FillCount(i, r)
           rest == Rest(i, r)
           content == FilledChunk(i, r, ChunkContent(i))
<1>1. /\ y \in Seq(Value) /\ pos \in Nat /\ bits[r.on] \in SUBSET Value
      /\ \A k \in 1..pos : y[k] \in Value
  BY LenProperties, ElementOfSeq DEF Typed, TypeOK
<1>2. all \in Seq(Value) /\ Len(all) \in Nat
  BY <1>1, OrderedValues, SeqMonotonic, LenProperties
<1>3. pos \in 0..Len(all)
  BY <1>1, <1>2
<1>4. Len(rest) = Len(all) - pos /\ \A k \in 1..(Len(all) - pos) : rest[k] = all[pos + k]
  <2>1. pos \in 0..Len(InOrder(i)[bits[r.on]]) /\ all = InOrder(i)[bits[r.on]]
    BY <1>3
  <2>2. r.hasValue <=> pos < Len(InOrder(i)[bits[r.on]])
    BY <2>1
  <2>3. r.hasValue => r.value = InOrder(i)[bits[r.on]][pos + 1]
    BY <2>1
  <2>4. /\ Len(Rest(i, r)) = Len(InOrder(i)[bits[r.on]]) - pos
        /\ \A k \in 1..(Len(InOrder(i)[bits[r.on]]) - pos) :
             Rest(i, r)[k] = InOrder(i)[bits[r.on]][pos + k]
    BY <2>1, <2>2, <2>3, RestIsTail
  <2> QED
    BY <2>1, <2>4
<1>5. /\ Chunk(i) \in Buffer /\ ChunkContent(i) \in Seq(Value \cup {0})
      /\ Len(ChunkContent(i)) \in Nat \ {0}
  BY ChunkFacts
<1>6. n \in Nat /\ n = AtMost(Len(rest), Len(ChunkContent(i)))
  <2>1. n \in 0..Len(ChunkContent(i))
    BY <1>5, FillFacts
  <2>2. n = AtMost(Len(rest), Len(ChunkContent(i)))
    BY DEF FillCount
  <2> QED
    BY <1>5, <2>1, <2>2, BelowOrEnd, Zenon
<1>7. \A k \in 1..n : content[k] = rest[k]
  BY <1>5, FillFacts
<1>8. memory'[Chunk(i)] = content
  BY FillOutcome
<1> HIDE DEF content, rest
<1>9. CASE n > 0
  <2>1. /\ js'[i].chunk = Chunk(i) /\ js'[i].bufferIndex = 1 /\ js'[i].bufferCount = n
        /\ native'[i] = Filled(i, r) /\ told'[i] = "going"
        /\ yielded'[i] = Append(y, content[1])
    BY <1>8, <1>9, FillOutcome
  <2>2. native'[i] = [r EXCEPT !.hasValue = n < Len(rest),
                               !.value = IF n < Len(rest) THEN rest[n + 1] ELSE 0]
    BY <1>9, <2>1 DEF Filled, rest
  <2>3. /\ native'[i].on = r.on /\ native'[i].hasValue = (n < Len(rest))
        /\ n < Len(rest) => native'[i].value = rest[n + 1]
    BY <2>2 DEF Native
  <2> HIDE DEF all, y, pos, n
  <2>4. n <= Len(rest) /\ n >= 1 /\ n <= Len(all) - pos /\ pos < Len(all)
    BY <1>1, <1>2, <1>3, <1>4, <1>5, <1>6, <1>9 DEF AtMost
  <2>5. content[1] = all[pos + 1]
    BY <1>1, <1>2, <1>4, <1>6, <1>7, <2>4
  <2>6. \A k \in 1..(n - 1) : content[1 + k] = all[(pos + 1) + k]
    <3> SUFFICES ASSUME NEW k \in 1..(n - 1) PROVE content[1 + k] = all[(pos + 1) + k]
      OBVIOUS
    <3>1. 1 + k \in 1..n /\ 1 + k \in 1..(Len(all) - pos) /\ pos + (1 + k) = (pos + 1) + k
      BY <1>1, <1>2, <1>6, <2>4
    <3> QED
      BY <1>4, <1>7, <3>1
  <2>7. all[pos + 1] \in Value
    <3>1. pos + 1 \in 1..Len(all)
      BY <1>1, <1>2, <2>4
    <3> QED
      BY <1>2, <3>1, ElementOfSeq
  <2>8. /\ Len(Append(y, all[pos + 1])) = pos + 1
        /\ \A k \in 1..pos : Append(y, all[pos + 1])[k] = y[k]
        /\ Append(y, all[pos + 1])[pos + 1] = all[pos + 1]
    BY <1>1, <2>7, Appended DEF pos, y
  <2>9. yielded'[i] = Append(y, all[pos + 1])
    BY <2>1, <2>5
  <2>10. Len(yielded'[i]) = pos + 1 /\ \A k \in 1..(pos + 1) : yielded'[i][k] = all[k]
    <3>1. \A k \in 1..pos : y[k] = all[k]
      BY DEF pos, y, all
    <3>2. \A k \in 1..(pos + 1) : k \in 1..pos \/ k = pos + 1
      BY <1>1
    <3> QED
      BY <2>8, <2>9, <3>1, <3>2, Zenon
  <2>11. Left(i)' = n - 1 /\ Passed(i)' = pos + n
    BY <1>1, <1>6, <2>1, <2>10 DEF Left, Passed
  <2>12. pos + n <= Len(all) /\ \A k \in 1..(pos + 1) : yielded'[i][k] = all[k]
    <3>1. n <= Len(all) - pos => pos + n <= Len(all)
      BY ONLY <1>1, <1>2, <1>6, SMT
    <3> QED
      BY <2>4, <2>10, <3>1, Zenon
  <2>13. \A k \in 1..(n - 1) : memory'[js'[i].chunk][js'[i].bufferIndex + k] = all[Len(yielded'[i]) + k]
    BY <1>8, <2>1, <2>6, <2>10
  <2>14. (native'[i].hasValue <=> pos + n < Len(all))
    <3>1. Len(rest) = Len(all) - pos /\ native'[i].hasValue = (n < Len(rest))
      BY <1>4, <2>3
    <3>2. \A l, m, q \in Nat : m < l - q <=> q + m < l
      BY ONLY SMT
    <3> QED
      BY <1>1, <1>2, <1>6, <3>1, <3>2, Zenon
  <2>15. native'[i].hasValue => native'[i].value = all[pos + n + 1]
    <3> SUFFICES ASSUME native'[i].hasValue PROVE native'[i].value = all[pos + n + 1]
      OBVIOUS
    <3>1. n < Len(rest) /\ native'[i].value = rest[n + 1]
      BY <2>3
    <3>2. n + 1 \in 1..(Len(all) - pos) /\ pos + (n + 1) = pos + n + 1
      <4>1. \A l, m, q \in Nat : m < l - q => m + 1 \in 1..(l - q) /\ q + (m + 1) = q + m + 1
        BY ONLY SMT
      <4> QED
        BY <1>1, <1>2, <1>4, <1>6, <3>1, <4>1, Zenon
    <3> QED
      BY <1>4, <3>1, <3>2
  <2>16. all = InOrder(i)[bits'[native'[i].on]]
    BY <2>3 DEF all
  <2>17. Position(i)'
    BY <2>1, <2>10, <2>11, <2>12, <2>13, <2>14, <2>15, <2>16 DEF Position, all
  <2> QED
    BY <1>9, <2>4, <2>9, <2>17 DEF all, pos, y, n
<1>10. CASE ~ n > 0
  <2>1. Len(rest) = 0
    <3>1. n = 0
      BY <1>6, <1>10
    <3>2. rest \in Seq(Value) /\ Len(rest) \in Nat
      BY RestTyped DEF rest
    <3>3. (IF Len(rest) < Len(ChunkContent(i)) THEN Len(rest) ELSE Len(ChunkContent(i))) = 0
      BY <1>6, <3>1 DEF AtMost
    <3> QED
      BY <1>5, <3>2, <3>3
  <2>2. pos = Len(all)
    BY <1>1, <1>2, <1>4, <2>1
  <2>3. y \in Seq(Value) /\ all \in Seq(Value) /\ Len(y) = Len(all)
        /\ \A k \in 1..Len(y) : y[k] = all[k]
    BY <1>1, <1>2, <2>2
  <2>4. y = all
    BY ONLY <2>3, SeqEqual
  <2> QED
    BY <1>10, <2>4
<1> QED
  BY <1>9, <1>10
-----------------------------------------------------------------------------
(* Each step of an iterator is a step of OrderedIteration or none.          *)

Implements(i) == [Abstract(i)!Next]_(Abstract(i)!vars)

LEMMA QuietImplements ==
  ASSUME NEW j \in Iterator, Quiet(j), UNCHANGED bits
  PROVE  Implements(j)
  BY DEF Implements, Abstract!vars, Quiet

LEMMA QuietPosition ==
  ASSUME NEW j \in Iterator, Quiet(j), UNCHANGED <<bits, version>>, Position(j),
         js[j].reader => memory'[js[j].chunk] = memory[js[j].chunk]
  PROVE  Position(j)'
<1>1. /\ Left(j)' = Left(j) /\ Passed(j)' = Passed(j) /\ Changed(j)' = Changed(j)
      /\ js'[j] = js[j] /\ native'[j] = native[j] /\ taken'[j] = taken[j]
      /\ yielded'[j] = yielded[j] /\ told'[j] = told[j] /\ bits' = bits
  BY DEF Quiet, Left, Passed, Changed
<1>2. js[j].reader => memory'[js[j].chunk] = memory[js[j].chunk]
  OBVIOUS
<1> QED
  BY <1>1, <1>2 DEF Position

LEMMA PositionNumbers ==
  ASSUME Typed, NEW i \in Iterator, js[i].reader
  PROVE  /\ js[i].bufferIndex \in Nat /\ js[i].bufferCount \in Nat
         /\ Left(i) \in Nat
         /\ yielded[i] \in Seq(Value) /\ taken[i] \in Seq(Value)
         /\ Len(yielded[i]) \in Nat /\ Len(taken[i]) \in Nat
         /\ Passed(i) \in Nat /\ Passed(i) = Len(yielded[i]) + Left(i)
         /\ js[i].bufferIndex >= js[i].bufferCount => Left(i) = 0
         /\ ~ js[i].bufferIndex >= js[i].bufferCount => Left(i) >= 1
<1>1. js[i] \in Js /\ yielded[i] \in Seq(Value) /\ taken[i] \in Seq(Value)
  BY DEF Typed, TypeOK
<1>2. js[i].bufferIndex \in Nat /\ js[i].bufferCount \in Nat /\ js[i].bufferIndex <= js[i].bufferCount
  BY <1>1 DEF Js, Typed, Shape
<1>3. Len(yielded[i]) \in Nat /\ Len(taken[i]) \in Nat
  BY <1>1, LenProperties
<1>4. Left(i) = js[i].bufferCount - js[i].bufferIndex /\ Passed(i) = Len(yielded[i]) + Left(i)
  BY DEF Left, Passed
<1>5. \A m, n \in Nat : m <= n =>
        /\ n - m \in Nat
        /\ m >= n => n - m = 0
        /\ ~ m >= n => n - m >= 1
  BY ONLY SMT
<1>6. /\ Left(i) \in Nat
      /\ js[i].bufferIndex >= js[i].bufferCount => Left(i) = 0
      /\ ~ js[i].bufferIndex >= js[i].bufferCount => Left(i) >= 1
  BY <1>2, <1>4, <1>5, Zenon
<1>7. \A m, n \in Nat : m + n \in Nat
  BY ONLY SMT
<1> QED
  BY <1>1, <1>2, <1>3, <1>4, <1>6, <1>7, Zenon

LEMMA NextBufferedImplements ==
  ASSUME Typed, NEW i \in Iterator, Started(i), Position(i), NextBuffered(i)
  PROVE  Position(i)' /\ Implements(i)
<1> DEFINE y == yielded[i]
           v == memory[js[i].chunk][js[i].bufferIndex + 1]
<1>1. /\ js[i].made /\ ~ js[i].done /\ js[i].bufferIndex < js[i].bufferCount
      /\ js' = [js EXCEPT ![i].bufferIndex = @ + 1]
      /\ yielded' = [yielded EXCEPT ![i] = Append(@, v)]
      /\ told' = [told EXCEPT ![i] = "going"]
      /\ UNCHANGED <<bits, version, pool, memory, native, over, taken>>
  BY DEF NextBuffered, HandOut, Asked
<1>2. /\ js \in [Iterator -> Js] /\ js[i] \in Js /\ yielded \in [Iterator -> Seq(Value)]
      /\ told \in [Iterator -> {"ready", "going", "ended", "failed", "stopped"}]
  BY DEF Typed, TypeOK
<1>3. js[i].reader
  <2>1. js[i].bufferIndex \in Nat /\ js[i].bufferCount \in Nat
    BY <1>2 DEF Js
  <2> QED
    BY <1>1, <2>1 DEF Typed, Shape
<1>4. /\ js[i].bufferIndex \in Nat /\ js[i].bufferCount \in Nat /\ Left(i) \in Nat
      /\ y \in Seq(Value) /\ taken[i] \in Seq(Value)
      /\ Len(y) \in Nat /\ Len(taken[i]) \in Nat
      /\ Passed(i) \in Nat /\ Passed(i) = Len(y) + Left(i)
  BY <1>3, PositionNumbers
<1>5. Left(i) >= 1 /\ Left(i) = js[i].bufferCount - js[i].bufferIndex
  BY <1>1, <1>4 DEF Left
<1>6. /\ Passed(i) <= Len(taken[i])
      /\ \A k \in 1..Len(y) : y[k] = taken[i][k]
      /\ \A k \in 1..Left(i) :
           memory[js[i].chunk][js[i].bufferIndex + k] = taken[i][Len(y) + k]
      /\ told[i] # "failed"
      /\ ~ Changed(i) =>
           /\ taken[i] = InOrder(i)[bits[native[i].on]]
           /\ native[i].hasValue <=> Passed(i) < Len(taken[i])
           /\ native[i].hasValue => native[i].value = taken[i][Passed(i) + 1]
  BY <1>3, <1>5 DEF Position
<1>7. v = taken[i][Len(y) + 1] /\ v \in Value /\ Len(y) < Len(taken[i])
  <2>1. 1 \in 1..Left(i) /\ Len(y) + 1 \in 1..Len(taken[i]) /\ Len(y) < Len(taken[i])
    BY <1>4, <1>5, <1>6
  <2>2. v = taken[i][Len(y) + 1]
    BY <1>6, <2>1
  <2> QED
    BY <1>4, <2>1, <2>2, ElementOfSeq
<1> HIDE DEF v
<1>8. /\ yielded'[i] = Append(y, v) /\ Len(Append(y, v)) = Len(y) + 1
      /\ \A k \in 1..Len(y) : Append(y, v)[k] = y[k]
      /\ Append(y, v)[Len(y) + 1] = v
  <2>1. yielded'[i] = Append(y, v)
    BY <1>1, <1>2
  <2>2. y \in Seq(Value) /\ v \in Value
    BY <1>4, <1>7
  <2> HIDE DEF y
  <2> QED
    BY <2>1, <2>2, Appended
<1>9. /\ js'[i].reader /\ js'[i].chunk = js[i].chunk
      /\ js'[i].bufferCount = js[i].bufferCount /\ js'[i].bufferIndex = js[i].bufferIndex + 1
      /\ told'[i] = "going"
  BY <1>1, <1>2, <1>3 DEF Js
<1>10. Position(i)'
  <2>1. Left(i)' = Left(i) - 1 /\ Len(yielded'[i]) = Len(y) + 1
    <3>1. Left(i)' = js'[i].bufferCount - js'[i].bufferIndex
      BY DEF Left
    <3>2. \A m, n \in Nat : n - (m + 1) = (n - m) - 1
      BY ONLY SMT
    <3>3. Left(i)' = Left(i) - 1
      <4>1. Left(i)' = js[i].bufferCount - (js[i].bufferIndex + 1)
        BY <1>9, <3>1, Zenon
      <4>2. js[i].bufferCount - (js[i].bufferIndex + 1)
              = (js[i].bufferCount - js[i].bufferIndex) - 1
        BY <1>4, <3>2, Zenon
      <4>3. Left(i) = js[i].bufferCount - js[i].bufferIndex
        BY <1>5
      <4> QED
        BY <4>1, <4>2, <4>3
    <3> QED
      BY <1>8, <3>3, Zenon
  <2>2. Passed(i)' = Passed(i)
    <3>1. Passed(i)' = Len(yielded'[i]) + Left(i)'
      BY DEF Passed
    <3>2. \A m, n \in Nat : (m + 1) + (n - 1) = m + n
      BY ONLY SMT
    <3> QED
      BY <1>4, <2>1, <3>1, <3>2, Zenon
  <2>3. ASSUME NEW k \in 1..(Len(y) + 1) PROVE yielded'[i][k] = taken[i][k]
    <3>1. k \in 1..Len(y) \/ k = Len(y) + 1
      BY <1>4
    <3> QED
      BY <1>6, <1>7, <1>8, <3>1
  <2>4. ASSUME NEW k \in 1..(Left(i) - 1)
        PROVE  memory[js[i].chunk][(js[i].bufferIndex + 1) + k] = taken[i][(Len(y) + 1) + k]
    <3>1. /\ 1 + k \in 1..Left(i)
          /\ js[i].bufferIndex + (1 + k) = (js[i].bufferIndex + 1) + k
          /\ Len(y) + (1 + k) = (Len(y) + 1) + k
      <4>1. \A m, n \in Nat : \A l \in 1..(m - 1) :
              1 + l \in 1..m /\ n + (1 + l) = (n + 1) + l
        BY ONLY SMT
      <4> QED
        BY <1>4, <4>1, Zenon
    <3> QED
      BY <1>6, <3>1
  <2>5. Changed(i)' = Changed(i) /\ native'[i] = native[i] /\ bits' = bits /\ memory' = memory
        /\ taken'[i] = taken[i]
    BY <1>1 DEF Changed
  <2> QED
    BY <1>6, <1>9, <2>1, <2>2, <2>3, <2>4, <2>5 DEF Position
<1>11. Implements(i)
  <2>1. told[i] = "going"
    BY <1>3, <1>6 DEF Started
  <2>2. yielded'[i] = Append(yielded[i], taken[i][Len(yielded[i]) + 1])
    BY <1>7, <1>8
  <2>3. told'[i] = told[i] /\ taken'[i] = taken[i] /\ bits' = bits /\ over' = over
    BY <1>1, <1>9, <2>1
  <2>4. Abstract(i)!Yield
    BY <1>7, <2>1, <2>2, <2>3 DEF Abstract!Yield
  <2> QED
    BY <2>4 DEF Implements, Abstract!Next
<1> QED
  BY <1>10, <1>11

LEMMA NextOpensImplements ==
  ASSUME Typed, NEW i \in Iterator, Started(i), NextOpens(i)
  PROVE  Position(i)' /\ Implements(i)
<1> DEFINE b == js[i].bitmap
           r == Opened(i, b, Chunk(i))
           all == InOrder(i)[bits[b]]
<1>1. /\ js[i].made /\ ~ js[i].done /\ ~ js[i].reader
      /\ taken' = [taken EXCEPT ![i] = all]
      /\ AfterFill(i, r, PoolAfterAcquire(i))
      /\ UNCHANGED <<bits, version, over>>
  BY DEF NextOpens, MustFill, Asked
<1>2. /\ over[i] = b /\ taken[i] = <<>> /\ yielded[i] = <<>> /\ told[i] = "ready"
      /\ b \in Bitmap /\ Len(yielded[i]) = 0
  BY <1>1, EmptySeq DEF Started, Typed, Shape
<1>3. taken'[i] = all
  BY <1>1 DEF Typed, TypeOK
<1>4. /\ r \in Native /\ r.on = b /\ r.length = Len(ChunkContent(i)) /\ all \in Seq(Value)
      /\ Len(all) \in Nat
  <2>1. Chunk(i) \in Buffer /\ Len(ChunkContent(i)) \in Nat
    BY <1>1, ChunkFacts
  <2> QED
    BY <1>2, <2>1, OpenedFacts, LenProperties
<1>5. /\ r.hasValue <=> 0 < Len(all)
      /\ r.hasValue => r.value = all[0 + 1]
  <2>1. all # <<>> <=> 0 < Len(all)
    BY <1>4, EmptySeq
  <2>2. r.hasValue = (all # <<>>) /\ (all # <<>> => r.value = all[0 + 1])
    BY DEF Opened
  <2> HIDE DEF r, all
  <2> QED
    BY <2>1, <2>2
<1>6. /\ FillCount(i, r) > 0 =>
           /\ Position(i)'
           /\ Len(yielded[i]) < Len(taken'[i])
           /\ yielded'[i] = Append(yielded[i], taken'[i][Len(yielded[i]) + 1])
      /\ ~ FillCount(i, r) > 0 => yielded[i] = taken'[i]
  <2> HIDE DEF r, all
  <2>1. taken'[i] = InOrder(i)[bits[r.on]]
    BY <1>3, <1>4 DEF all
  <2>2. /\ Len(yielded[i]) <= Len(taken'[i])
        /\ \A k \in 1..Len(yielded[i]) : yielded[i][k] = taken'[i][k]
        /\ r.hasValue <=> Len(yielded[i]) < Len(taken'[i])
        /\ r.hasValue => r.value = taken'[i][Len(yielded[i]) + 1]
    BY <1>2, <1>3, <1>4, <1>5
  <2> QED
    BY <1>1, <1>2, <1>4, <2>1, <2>2, FillPosition
<1>7. CASE FillCount(i, r) > 0
  <2>1. told'[i] = "going"
    BY <1>1, <1>7, FillOutcome
  <2>2. taken'[i] # <<>> /\ yielded'[i] = <<taken'[i][1]>>
    <3>1. Append(<<>>, taken'[i][1]) = <<taken'[i][1]>>
      OBVIOUS
    <3>2. yielded'[i] = Append(yielded[i], taken'[i][0 + 1]) /\ Len(taken'[i]) > 0
      BY <1>2, <1>3, <1>4, <1>6, <1>7
    <3> QED
      BY <1>2, <1>3, <1>4, <3>1, <3>2, EmptySeq
  <2>3. Head(taken'[i]) = taken'[i][1]
    BY <1>3, <1>4, <2>2
  <2>4. Abstract(i)!First
    <3>1. taken'[i] = InOrder(i)[IF over[i] = None THEN {} ELSE bits[over[i]]]
      BY <1>2, <1>3, Assumption DEF Assumption
    <3>2. bits' = bits /\ over' = over
      BY <1>1
    <3> QED
      BY <1>2, <2>1, <2>2, <2>3, <3>1, <3>2 DEF Abstract!First
  <2> QED
    BY <1>6, <1>7, <2>4 DEF Implements, Abstract!Next
<1>8. CASE ~ FillCount(i, r) > 0
  <2>1. told'[i] = "ended" /\ yielded'[i] = yielded[i] /\ ~ js'[i].reader
    BY <1>1, <1>8, FillOutcome
  <2>2. taken'[i] = <<>>
    BY <1>2, <1>6, <1>8
  <2>3. Abstract(i)!First
    <3>1. taken'[i] = InOrder(i)[IF over[i] = None THEN {} ELSE bits[over[i]]]
      BY <1>2, <1>3, Assumption DEF Assumption
    <3>2. bits' = bits /\ over' = over
      BY <1>1
    <3> QED
      BY <1>2, <2>1, <2>2, <3>1, <3>2 DEF Abstract!First
  <2> QED
    BY <2>1, <2>3 DEF Implements, Abstract!Next, Position
<1> QED
  BY <1>7, <1>8
LEMMA NextRefillsImplements ==
  ASSUME Typed, NEW i \in Iterator, Started(i), Position(i), NextRefills(i)
  PROVE  Position(i)' /\ Implements(i)
<1>1. /\ js[i].made /\ ~ js[i].done /\ js[i].reader /\ ~ Changed(i)
      /\ js[i].bufferIndex >= js[i].bufferCount
      /\ AfterFill(i, native[i], pool)
      /\ UNCHANGED <<bits, version, over, taken>>
  BY DEF NextRefills, MustFill, Asked
<1>2. /\ Left(i) = 0 /\ Passed(i) = Len(yielded[i]) + Left(i)
      /\ Len(yielded[i]) \in Nat /\ Len(taken[i]) \in Nat
      /\ yielded[i] \in Seq(Value) /\ taken[i] \in Seq(Value)
  BY <1>1, PositionNumbers
<1>3. Passed(i) = Len(yielded[i])
  BY <1>2
<1>4. /\ Len(yielded[i]) <= Len(taken[i])
      /\ \A k \in 1..Len(yielded[i]) : yielded[i][k] = taken[i][k]
      /\ told[i] # "failed"
      /\ taken[i] = InOrder(i)[bits[native[i].on]]
      /\ native[i].hasValue <=> Len(yielded[i]) < Len(taken[i])
      /\ native[i].hasValue => native[i].value = taken[i][Len(yielded[i]) + 1]
  BY <1>1, <1>3 DEF Position
<1>5. /\ native[i] \in Native /\ native[i].on \in Bitmap
      /\ native[i].length = Len(ChunkContent(i))
  <2>1. /\ native[i] \in Native /\ native[i].on \in Bitmap
        /\ js[i].chunk # None /\ native[i].length = Len(memory[js[i].chunk])
    BY <1>1 DEF Typed, TypeOK, Shape
  <2>2. ChunkContent(i) = memory[js[i].chunk]
    BY <1>1, <2>1, ChunkFacts
  <2> QED
    BY <2>1, <2>2
<1>6. taken' = taken /\ bits' = bits /\ over' = over /\ told[i] = "going"
  BY <1>1, <1>4 DEF Started
<1>7. /\ FillCount(i, native[i]) > 0 =>
           /\ Position(i)'
           /\ Len(yielded[i]) < Len(taken'[i])
           /\ yielded'[i] = Append(yielded[i], taken'[i][Len(yielded[i]) + 1])
      /\ ~ FillCount(i, native[i]) > 0 => yielded[i] = taken'[i]
  BY <1>1, <1>4, <1>5, <1>6, FillPosition
<1>8. CASE FillCount(i, native[i]) > 0
  <2>1. told'[i] = "going"
    BY <1>1, <1>8, FillOutcome
  <2>2. Abstract(i)!Yield
    BY <1>6, <1>7, <1>8, <2>1 DEF Abstract!Yield
  <2> QED
    BY <1>7, <1>8, <2>2 DEF Implements, Abstract!Next
<1>9. CASE ~ FillCount(i, native[i]) > 0
  <2>1. told'[i] = "ended" /\ yielded'[i] = yielded[i] /\ ~ js'[i].reader
    BY <1>1, <1>9, FillOutcome
  <2>2. Abstract(i)!End
    BY <1>6, <1>7, <1>9, <2>1 DEF Abstract!End
  <2> QED
    BY <2>1, <2>2 DEF Implements, Abstract!Next, Position
<1> QED
  BY <1>8, <1>9

LEMMA NextOpensFailsImplements ==
  ASSUME Typed, NEW i \in Iterator, NextOpensFails(i)
  PROVE  Position(i)' /\ Implements(i)
<1>1. /\ ~ js[i].reader /\ js' = [js EXCEPT ![i].chunk = Chunk(i)]
      /\ UNCHANGED <<bits, over, taken, yielded, told>>
  BY DEF NextOpensFails
<1>2. ~ js'[i].reader
  BY <1>1 DEF Typed, TypeOK, Js
<1> QED
  BY <1>1, <1>2 DEF Position, Implements, Abstract!vars

LEMMA NextThrowsImplements ==
  ASSUME Typed, NEW i \in Iterator, Started(i), Position(i), NextThrows(i)
  PROVE  Position(i)' /\ Implements(i)
<1>1. /\ js[i].reader /\ Changed(i) /\ js[i].bufferIndex >= js[i].bufferCount
      /\ told' = [told EXCEPT ![i] = "failed"]
      /\ UNCHANGED <<bits, version, pool, memory, js, native, over, taken, yielded>>
  BY DEF NextThrows, MustFill
<1>2. told'[i] = "failed" /\ told[i] \in {"going", "failed"}
  BY <1>1 DEF Typed, TypeOK, Started
<1>3. Left(i) = 0
  BY <1>1, PositionNumbers
<1>4. /\ Left(i)' = Left(i) /\ Passed(i)' = Passed(i) /\ Changed(i)' = Changed(i)
  BY <1>1 DEF Left, Passed, Changed
<1>5. Position(i)'
  BY <1>1, <1>3, <1>4 DEF Position
<1>6. CASE told[i] = "failed"
  BY <1>1, <1>2, <1>5, <1>6 DEF Implements, Abstract!vars
<1>7. CASE told[i] = "going"
  <2>1. Abstract(i)!Fail
    BY <1>1, <1>2, <1>7 DEF Abstract!Fail
  <2> QED
    BY <1>5, <2>1 DEF Implements, Abstract!Next
<1> QED
  BY <1>2, <1>6, <1>7

LEMMA ReturnImplements ==
  ASSUME Typed, NEW i \in Iterator, Started(i), Return(i), js[i].made, ~ js[i].done
  PROVE  Position(i)' /\ Implements(i)
<1>1. told'[i] = "stopped" /\ ~ js'[i].reader /\ UNCHANGED <<bits, over, taken, yielded>>
  <2>1. UNCHANGED <<bits, over, taken, yielded>>
    BY DEF Return
  <2> QED
    BY <2>1, ReturnStarted
<1>2. told[i] \in {"ready", "going", "failed"}
  BY DEF Started
<1>3. Abstract(i)!Stop
  BY <1>1, <1>2 DEF Abstract!Stop
<1> QED
  BY <1>1, <1>3 DEF Position, Implements, Abstract!Next

\* The chunk of an iterator is written by no other.
LEMMA ChunkUntouched ==
  ASSUME Typed, Exclusive, NEW i \in Iterator, Step(i), NEW j \in Iterator \ {i}, js[j].reader
  PROVE  memory'[js[j].chunk] = memory[js[j].chunk]
<1>1. InUse(j) /\ js[j].chunk \in Buffer
  BY DEF Typed, TypeOK, Js, Shape, InUse
<1>2. CASE UNCHANGED memory
  BY <1>2
<1>3. ASSUME js[i].made, ~ js[i].done, \A b \in Buffer \ {Chunk(i)} : memory'[b] = memory[b]
      PROVE  memory'[js[j].chunk] = memory[js[j].chunk]
  <2>1. js[j].chunk # Chunk(i)
    BY <1>1, <1>3, ChunkApart DEF Apart
  <2> QED
    BY <1>1, <1>3, <2>1
<1>4. ASSUME NEW r, NEW p, Asked(i), AfterFill(i, r, p)
      PROVE  memory'[js[j].chunk] = memory[js[j].chunk]
  <2>1. js[i].made /\ ~ js[i].done
    BY <1>4 DEF Asked
  <2> QED
    BY <1>3, <1>4, <2>1, FillOutcome
<1>5. CASE NextOpens(i)
  BY <1>4, <1>5 DEF NextOpens, MustFill
<1>6. CASE NextRefills(i)
  BY <1>4, <1>6 DEF NextRefills, MustFill
<1>7. CASE NextOpensFails(i)
  <2>1. js[i].made /\ ~ js[i].done /\ memory' = [memory EXCEPT ![Chunk(i)] = ChunkContent(i)]
    BY <1>7 DEF NextOpensFails, MustFill, Asked
  <2>2. \A b \in Buffer \ {Chunk(i)} : memory'[b] = memory[b]
    BY <2>1 DEF Typed, TypeOK
  <2> QED
    BY <1>3, <2>1, <2>2
<1> QED
  BY <1>2, <1>5, <1>6, <1>7
     DEF Step, NextBuffered, NextThrows, CallbackReturns, CallbackStops, Return

LEMMA IteratorStepImplements ==
  ASSUME Typed, Stacked, Exclusive, \A j \in Iterator : Started(j) /\ Position(j),
         NEW i \in Iterator, Step(i)
  PROVE  \A j \in Iterator : Position(j)' /\ Implements(j)
<1>1. ASSUME NEW j \in Iterator \ {i} PROVE Position(j)' /\ Implements(j)
  <2>1. Quiet(j) /\ UNCHANGED <<bits, version, over>>
    BY StepQuiet
  <2>2. js[j].reader => memory'[js[j].chunk] = memory[js[j].chunk]
    BY ChunkUntouched
  <2> QED
    BY <2>1, <2>2, QuietPosition, QuietImplements
<1>2. Position(i)' /\ Implements(i)
  <2>1. CASE CallbackReturns(i)
    <3>1. UNCHANGED <<bits, version, memory, js, native, over, taken, yielded, told>>
      BY <2>1 DEF CallbackReturns
    <3>2. Left(i)' = Left(i) /\ Passed(i)' = Passed(i) /\ Changed(i)' = Changed(i)
      BY <3>1 DEF Left, Passed, Changed
    <3> QED
      BY <3>1, <3>2 DEF Position, Implements, Abstract!vars
  <2>2. ASSUME NEW throws \in BOOLEAN, CallbackStops(i, throws) PROVE Position(i)' /\ Implements(i)
    BY <2>2, OnTop, ReturnImplements DEF CallbackStops
  <2> QED
    BY <2>1, <2>2, NextBufferedImplements, NextOpensImplements, NextOpensFailsImplements,
       NextRefillsImplements, NextThrowsImplements DEF Step
<1> QED
  BY <1>1, <1>2
LEMMA ChangeImplements ==
  ASSUME Typed, NEW b \in Bitmap, Change(b), NEW j \in Iterator, Position(j)
  PROVE  Position(j)' /\ Implements(j)
<1>1. /\ UNCHANGED <<pool, memory, js, native, loop, stack, over, taken, yielded, told>>
      /\ version' = [version EXCEPT ![b] = @ + 1]
      /\ \A c \in Bitmap \ {b} : bits'[c] = bits[c]
  BY DEF Change, Typed, TypeOK
<1>2. Implements(j)
  <2> DEFINE now == IF over[j] = None THEN {} ELSE bits[over[j]]
             then == IF over'[j] = None THEN {} ELSE bits'[over'[j]]
  <2>1. CASE then = now
    BY <1>1, <2>1 DEF Implements, Abstract!vars
  <2>2. CASE then # now
    <3>1. Abstract(j)!Change
      BY <1>1, <2>2 DEF Abstract!Change
    <3> QED
      BY <3>1 DEF Implements, Abstract!Next
  <2> QED
    BY <2>1, <2>2
<1>3. Left(j)' = Left(j) /\ Passed(j)' = Passed(j)
  BY <1>1 DEF Left, Passed
<1>4. ASSUME js[j].reader
      PROVE  /\ Changed(j) => Changed(j)'
             /\ ~ Changed(j)' => bits'[native[j].on] = bits[native[j].on] /\ ~ Changed(j)
  <2>1. /\ native[j].on \in Bitmap /\ native[j].version \in Nat
        /\ version[native[j].on] \in Nat /\ native[j].version <= version[native[j].on]
    BY <1>4 DEF Typed, TypeOK, Native, Shape
  <2>2. CASE native[j].on = b
    <3>1. version'[b] = version[b] + 1
      BY <1>1 DEF Typed, TypeOK
    <3>2. Changed(j)'
      BY <1>1, <2>1, <2>2, <3>1 DEF Changed
    <3> QED
      BY <3>2
  <2>3. CASE native[j].on # b
    <3>1. version'[native[j].on] = version[native[j].on]
      BY <1>1, <2>1, <2>3 DEF Typed, TypeOK
    <3> QED
      BY <1>1, <2>1, <2>3, <3>1 DEF Changed
  <2> QED
    BY <2>2, <2>3
<1>5. Position(j)'
  BY <1>1, <1>3, <1>4 DEF Position
<1> QED
  BY <1>2, <1>5

LEMMA MadeImplements ==
  ASSUME Typed, NEW i \in Iterator, Started(i), ~ js[i].made, NEW b \in Bitmap \cup {None},
         NEW buffer \in Array \cup {None}, NEW halves \in Halves \cup {None, 2 * DefaultLen},
         NormalizeIteratorInputs(i, b, buffer, halves),
         over'[i] = b, UNCHANGED <<bits, taken, yielded>>,
         told'[i] = IF b = None THEN "ended" ELSE told[i]
  PROVE  Position(i)' /\ Implements(i)
<1>1. ~ js'[i].reader
  BY MadeTyped
<1>2. over[i] = None /\ taken[i] = <<>> /\ yielded[i] = <<>> /\ told[i] = "ready"
  BY DEF Started, Typed, Shape
<1>3. CASE b = None
  <2>1. InOrder(i)[{}] = <<>>
    <3>1. {} \in SUBSET Value /\ Cardinality({}) = 0
      BY FS_EmptySet
    <3>2. InOrder(i)[{}] \in Seq({}) /\ Len(InOrder(i)[{}]) = 0
      BY <3>1, OrderedValues
    <3> QED
      BY <3>2, EmptySeq
  <2>2. Abstract(i)!First
    BY <1>2, <1>3, <2>1 DEF Abstract!First
  <2> QED
    BY <1>1, <2>2 DEF Position, Implements, Abstract!Next
<1>4. CASE b # None
  <2>1. told'[i] = told[i]
    BY <1>4
  <2>2. CASE bits[b] = {}
    BY <1>1, <1>2, <1>4, <2>1, <2>2 DEF Position, Implements, Abstract!vars
  <2>3. CASE bits[b] # {}
    <3>1. Abstract(i)!Change
      BY <1>2, <1>4, <2>1, <2>3 DEF Abstract!Change
    <3> QED
      BY <1>1, <3>1 DEF Position, Implements, Abstract!Next
  <2> QED
    BY <2>2, <2>3
<1> QED
  BY <1>3, <1>4

LEMMA StepImplements ==
  ASSUME Typed, Stacked, Exclusive, \A j \in Iterator : Started(j) /\ Position(j), [Next]_vars
  PROVE  \A j \in Iterator : Position(j)' /\ Implements(j)
<1>1. ASSUME NEW b \in Bitmap, Change(b) PROVE \A j \in Iterator : Position(j)' /\ Implements(j)
  BY <1>1, ChangeImplements
<1>2. ASSUME NEW i \in Iterator, Position(i)', Implements(i),
             \A j \in Iterator \ {i} : Quiet(j) /\ UNCHANGED <<bits, version, memory>>
      PROVE  \A j \in Iterator : Position(j)' /\ Implements(j)
  BY <1>2, QuietPosition, QuietImplements
<1>3. ASSUME NEW i \in Iterator, NEW b \in Bitmap \cup {None}, NEW buffer \in Array \cup {None},
             NEW halves \in Halves \cup {None}, NewIterator(i, b, buffer, halves)
      PROVE  \A j \in Iterator : Position(j)' /\ Implements(j)
  <2>1. /\ ~ js[i].made /\ NormalizeIteratorInputs(i, b, buffer, halves)
        /\ over'[i] = b /\ told'[i] = (IF b = None THEN "ended" ELSE told[i])
        /\ UNCHANGED <<bits, taken, yielded>>
    BY <1>3 DEF NewIterator, Typed, TypeOK
  <2>2. Position(i)' /\ Implements(i)
    BY <2>1, MadeImplements
  <2>3. \A j \in Iterator \ {i} : Quiet(j) /\ UNCHANGED <<bits, version, memory>>
    BY <1>3, MadeQuiet
  <2> QED
    BY <1>2, <2>2, <2>3
<1>4. ASSUME NEW i \in Iterator, NEW b \in Bitmap,
             NEW helper \in {"forEach", "every", "some", "reduceRight"},
             StartHelper(i, b, helper)
      PROVE  \A j \in Iterator : Position(j)' /\ Implements(j)
  <2>1. /\ ~ js[i].made /\ NormalizeIteratorInputs(i, b, None, 2 * DefaultLen)
        /\ over'[i] = b /\ told'[i] = (IF b = None THEN "ended" ELSE told[i])
        /\ UNCHANGED <<bits, taken, yielded>>
    <3>1. b # None
      BY Assumption DEF Assumption
    <3> QED
      BY <1>4, <3>1 DEF StartHelper, Typed, TypeOK
  <2>2. Position(i)' /\ Implements(i)
    BY <2>1, MadeImplements
  <2>3. \A j \in Iterator \ {i} : Quiet(j) /\ UNCHANGED <<bits, version, memory>>
    BY <1>4, MadeQuiet
  <2> QED
    BY <1>2, <2>2, <2>3
<1>5. ASSUME NEW i \in Iterator, UserReturns(i)
      PROVE  \A j \in Iterator : Position(j)' /\ Implements(j)
  <2>1. Position(i)' /\ Implements(i)
    BY <1>5, ReturnImplements DEF UserReturns
  <2>2. \A j \in Iterator \ {i} : Quiet(j) /\ UNCHANGED <<bits, version, memory>>
    BY <1>5, MadeQuiet
  <2> QED
    BY <1>2, <2>1, <2>2
<1>6. ASSUME NEW i \in Iterator, Step(i) PROVE \A j \in Iterator : Position(j)' /\ Implements(j)
  BY <1>6, IteratorStepImplements
<1>7. CASE UNCHANGED vars
  <2>1. \A j \in Iterator : Quiet(j) /\ UNCHANGED <<bits, version, memory>>
    BY <1>7 DEF vars, Quiet
  <2> QED
    BY <2>1, QuietPosition, QuietImplements
<1>8. CASE User
  BY <1>1, <1>3, <1>4, <1>5, <1>8 DEF User
<1> QED
  BY <1>6, <1>7, <1>8 DEF Next

\* Unless the user lends one array to two iterators at once, every iterator
\* gives the values its bitmap held when the first was asked for, each once and
\* in order, and ends normally only after the last.
THEOREM IteratorsAreOrdered ==
  ASSUME ~ Lent
  PROVE  Spec => ImplementsOrderedIteration
<1> DEFINE Ok == Typed /\ Stacked /\ Exclusive /\ \A i \in Iterator : Started(i) /\ Position(i)
<1>1. Init => Ok
  <2> SUFFICES ASSUME Init PROVE Ok
    OBVIOUS
  <2>1. \A i \in Iterator : Position(i)
    BY DEF Init, Position
  <2> QED
    BY <2>1, InitTyped, InitStacked, InitExclusive, InitStarted
<1>2. Ok /\ [Next]_vars => Ok'
  <2> SUFFICES ASSUME Ok, [Next]_vars PROVE Ok'
    OBVIOUS
  <2> QED
    BY StepTyped, StepExclusive, StepStarted, StepImplements
<1>3. Ok /\ [Next]_vars
        => [\A i \in Iterator : [Abstract(i)!Next]_(Abstract(i)!vars)]_vars
  BY StepImplements DEF Implements
<1>4. Init => \A i \in Iterator : Abstract(i)!Init
  BY DEF Init, Abstract!Init
<1> HIDE DEF Ok
<1> QED
  BY <1>1, <1>2, <1>3, <1>4, PTL DEF Spec, ImplementsOrderedIteration
-----------------------------------------------------------------------------
(* The index of a helper.                                                   *)

\* What it is while the helper asks for the next value, and in the callback.
Indexed(i) ==
  /\ loop[i].at = "callback" =>
       /\ js[i].reader
       /\ loop[i].index = IF loop[i].helper = "reduceRight"
                          THEN Len(taken[i]) - Len(yielded[i]) ELSE Len(yielded[i]) - 1
  /\ loop[i].at = "next" =>
       loop[i].index =
         IF loop[i].helper # "reduceRight" THEN Len(yielded[i])
         ELSE IF js[i].reader THEN Len(taken[i]) - Len(yielded[i]) - 1
         ELSE Cardinality(bits[js[i].bitmap]) - 1

LEMMA QuietIndexed ==
  ASSUME NEW j \in Iterator, Quiet(j), UNCHANGED bits, Indexed(j)
  PROVE  Indexed(j)'
  BY DEF Quiet, Indexed

LEMMA LengthAppended ==
  ASSUME NEW S, NEW s \in Seq(S), NEW x
  PROVE  Len(Append(s, x)) = Len(s) + 1 /\ Len(s) \in Nat
<1>1. s \in Seq(S \cup {x})
  BY SeqMonotonic
<1> QED
  BY <1>1, AppendProperties, LenProperties

\* A value was handed out.
LEMMA ValueIndexed ==
  ASSUME Typed, NEW i \in Iterator, Indexed(i), Asked(i), NEW x,
         yielded'[i] = Append(yielded[i], x), js'[i].reader,
         loop'[i] = HelperAfter(i, "value"), NEW n \in Nat, Len(taken'[i]) = n,
         js[i].reader => n = Len(taken[i]),
         ~ js[i].reader => n = Cardinality(bits[js[i].bitmap]) /\ Len(yielded[i]) = 0
  PROVE  Indexed(i)'
<1>1. Len(yielded'[i]) = Len(yielded[i]) + 1 /\ Len(yielded[i]) \in Nat
  <2>1. yielded[i] \in Seq(Value)
    BY DEF Typed, TypeOK
  <2> QED
    BY <2>1, LengthAppended
<1>2. loop[i] \in Loop /\ Shape(i)
  BY DEF Typed, TypeOK
<1>3. CASE loop[i].helper = "none"
  BY <1>2, <1>3 DEF HelperAfter, Indexed, Shape
<1>4. CASE loop[i].helper # "none"
  <2>1. /\ loop[i].at = "next" /\ loop'[i].at = "callback"
        /\ loop'[i].helper = loop[i].helper /\ loop'[i].index = loop[i].index
    BY <1>2, <1>4 DEF Asked, HelperAfter, Loop
  <2>2. CASE loop[i].helper # "reduceRight"
    <3>1. loop'[i].index = Len(yielded[i])
      BY <2>1, <2>2 DEF Indexed
    <3>2. loop'[i].index = Len(yielded'[i]) - 1
      BY <1>1, <3>1
    <3> QED
      BY <2>1, <2>2, <3>2 DEF Indexed
  <2>3. CASE loop[i].helper = "reduceRight"
    <3>1. loop'[i].index = n - Len(yielded[i]) - 1
      <4>1. CASE js[i].reader
        BY <2>1, <2>3, <4>1 DEF Indexed
      <4>2. CASE ~ js[i].reader
        <5>1. loop'[i].index = n - 1 /\ Len(yielded[i]) = 0
          BY <2>1, <2>3, <4>2 DEF Indexed
        <5> QED
          BY <5>1
      <4> QED
        BY <4>1, <4>2
    <3>2. loop'[i].index = n - Len(yielded'[i])
      BY <1>1, <3>1
    <3> QED
      BY <2>1, <2>3, <3>2 DEF Indexed
  <2> QED
    BY <2>2, <2>3
<1> QED
  BY <1>3, <1>4

LEMMA OverIndexed == ASSUME NEW i \in Iterator, loop'[i].at = "over" PROVE Indexed(i)'
  BY DEF Indexed

\* The iteration ended, by itself or by an exception.
LEMMA LeftIndexed ==
  ASSUME Typed, NEW i \in Iterator, NEW result \in {"end", "throws"},
         loop'[i] = HelperAfter(i, result)
  PROVE  Indexed(i)'
<1>1. loop[i] \in Loop /\ Shape(i)
  BY DEF Typed, TypeOK
<1>2. loop'[i].at = "over"
  BY <1>1 DEF HelperAfter, Loop, Shape
<1> QED
  BY <1>2, OverIndexed

LEMMA IteratorStepIndexed ==
  ASSUME Typed, Stacked, NEW i \in Iterator, Started(i), Indexed(i), Step(i)
  PROVE  Indexed(i)'
<1>0. /\ js \in [Iterator -> Js] /\ js[i] \in Js /\ loop \in [Iterator -> Loop]
      /\ loop[i] \in Loop /\ taken \in [Iterator -> Seq(Value)]
      /\ yielded \in [Iterator -> Seq(Value)]
      /\ Len(taken[i]) \in Nat /\ Len(yielded[i]) \in Nat
  <2>1. taken[i] \in Seq(Value) /\ yielded[i] \in Seq(Value)
    BY DEF Typed, TypeOK
  <2> QED
    BY <2>1, LenProperties DEF Typed, TypeOK
<1>1. CASE NextBuffered(i)
  <2>1. /\ Asked(i) /\ js[i].bufferIndex < js[i].bufferCount /\ js[i].made /\ ~ js[i].done
        /\ js' = [js EXCEPT ![i].bufferIndex = @ + 1]
        /\ yielded'[i] = Append(yielded[i], memory[js[i].chunk][js[i].bufferIndex + 1])
        /\ loop'[i] = HelperAfter(i, "value") /\ taken' = taken
    BY <1>0, <1>1 DEF NextBuffered, HandOut, Answer, Asked
  <2>2. js[i].reader
    <3>1. js[i].bufferIndex \in Nat /\ js[i].bufferCount \in Nat
      BY <1>0 DEF Js
    <3> QED
      BY <2>1, <3>1 DEF Typed, Shape
  <2>3. js'[i].reader
    BY <1>0, <2>1, <2>2 DEF Js
  <2> QED
    BY <1>0, <2>1, <2>2, <2>3, ValueIndexed
<1>2. CASE NextOpens(i)
  <2>1. /\ Asked(i) /\ js[i].made /\ ~ js[i].done /\ ~ js[i].reader
        /\ taken'[i] = InOrder(i)[bits[js[i].bitmap]]
        /\ AfterFill(i, Opened(i, js[i].bitmap, Chunk(i)), PoolAfterAcquire(i))
    BY <1>0, <1>2 DEF NextOpens, MustFill, Asked
  <2>2. yielded[i] = <<>> /\ js[i].bitmap \in Bitmap
    BY <2>1 DEF Started, Typed, Shape
  <2>3. /\ bits[js[i].bitmap] \in SUBSET Value /\ Len(yielded[i]) = 0
    BY <2>2, EmptySeq DEF Typed, TypeOK
  <2>4. Len(taken'[i]) = Cardinality(bits[js[i].bitmap]) /\ Len(taken'[i]) \in Nat
    BY <2>1, <2>3, OrderedValues, SubsetsFinite
  <2>5. CASE FillCount(i, Opened(i, js[i].bitmap, Chunk(i))) > 0
    <3>1. /\ js'[i].reader /\ loop'[i] = HelperAfter(i, "value")
          /\ yielded'[i] = Append(yielded[i], memory'[Chunk(i)][1])
      BY <2>1, <2>5, FillOutcome
    <3> QED
      BY <2>1, <2>3, <2>4, <3>1, ValueIndexed
  <2>6. CASE ~ FillCount(i, Opened(i, js[i].bitmap, Chunk(i))) > 0
    BY <2>1, <2>6, FillOutcome, LeftIndexed
  <2> QED
    BY <2>5, <2>6
<1>3. CASE NextOpensFails(i)
  BY <1>0, <1>3, LeftIndexed DEF NextOpensFails, Answer
<1>4. CASE NextRefills(i)
  <2>1. /\ Asked(i) /\ js[i].made /\ ~ js[i].done /\ js[i].reader
        /\ AfterFill(i, native[i], pool) /\ taken' = taken
    BY <1>4 DEF NextRefills, MustFill, Asked
  <2>2. CASE FillCount(i, native[i]) > 0
    <3>1. /\ js'[i].reader /\ loop'[i] = HelperAfter(i, "value")
          /\ yielded'[i] = Append(yielded[i], memory'[Chunk(i)][1])
      BY <2>1, <2>2, FillOutcome
    <3> QED
      BY <1>0, <2>1, <3>1, ValueIndexed
  <2>3. CASE ~ FillCount(i, native[i]) > 0
    BY <2>1, <2>3, FillOutcome, LeftIndexed
  <2> QED
    BY <2>2, <2>3
<1>5. CASE NextThrows(i)
  BY <1>0, <1>5, LeftIndexed DEF NextThrows, Answer
<1>6. CASE CallbackReturns(i)
  <2>1. /\ UserRuns /\ stack # <<>> /\ stack[Len(stack)] = i
        /\ loop' = [loop EXCEPT ![i].at = "next",
             ![i].index = IF loop[i].helper = "reduceRight" THEN @ - 1 ELSE @ + 1]
        /\ UNCHANGED <<bits, js, taken, yielded>>
    BY <1>6 DEF CallbackReturns
  <2>2. loop[i].at = "callback"
    BY <2>1, OnTop
  <2>3. /\ loop'[i].at = "next" /\ loop'[i].helper = loop[i].helper
        /\ loop'[i].index = IF loop[i].helper = "reduceRight" THEN loop[i].index - 1
                            ELSE loop[i].index + 1
    BY <1>0, <2>1 DEF Loop
  <2>4. /\ js[i].reader
        /\ loop[i].index = IF loop[i].helper = "reduceRight"
                           THEN Len(taken[i]) - Len(yielded[i]) ELSE Len(yielded[i]) - 1
    BY <2>2 DEF Indexed
  <2>5. /\ loop[i].helper # "reduceRight" => loop'[i].index = Len(yielded[i])
        /\ loop[i].helper = "reduceRight" => loop'[i].index = Len(taken[i]) - Len(yielded[i]) - 1
    BY <1>0, <2>3, <2>4
  <2> QED
    BY <2>1, <2>3, <2>4, <2>5 DEF Indexed
<1>7. ASSUME NEW throws \in BOOLEAN, CallbackStops(i, throws) PROVE Indexed(i)'
  <2>1. loop'[i].at = "over"
    BY <1>0, <1>7 DEF CallbackStops, Loop
  <2> QED
    BY <2>1, OverIndexed
<1> QED
  BY <1>1, <1>2, <1>3, <1>4, <1>5, <1>6, <1>7 DEF Step

LEMMA StepIndexed ==
  ASSUME Typed, Stacked, \A i \in Iterator : Started(i) /\ Indexed(i), [Next]_vars
  PROVE  \A i \in Iterator : Indexed(i)'
<1>1. ASSUME NEW b \in Bitmap, Change(b) PROVE \A i \in Iterator : Indexed(i)'
  BY <1>1 DEF Change, UserRuns, Indexed
<1>2. ASSUME NEW i \in Iterator, NEW b \in Bitmap \cup {None}, NEW buffer \in Array \cup {None},
             NEW halves \in Halves \cup {None}, NewIterator(i, b, buffer, halves)
      PROVE  \A j \in Iterator : Indexed(j)'
  <2>1. loop'[i].at = "over" /\ \A j \in Iterator \ {i} : Quiet(j) /\ UNCHANGED bits
    BY <1>2, MadeQuiet DEF NewIterator, Typed, Shape
  <2> QED
    BY <2>1, OverIndexed, QuietIndexed
<1>3. ASSUME NEW i \in Iterator, NEW b \in Bitmap,
             NEW helper \in {"forEach", "every", "some", "reduceRight"},
             StartHelper(i, b, helper)
      PROVE  \A j \in Iterator : Indexed(j)'
  <2>1. /\ ~ js[i].made /\ NormalizeIteratorInputs(i, b, None, 2 * DefaultLen)
        /\ loop'[i] = [helper |-> helper, index |-> FirstIndex(helper, b), at |-> "next"]
        /\ UNCHANGED <<bits, taken, yielded>>
    BY <1>3 DEF StartHelper, Typed, TypeOK
  <2>2. b # None
    BY Assumption DEF Assumption
  <2>3. js'[i].bitmap = b /\ ~ js'[i].reader
    BY <2>1, <2>2, MadeTyped
  <2>4. yielded[i] = <<>> /\ Len(yielded[i]) = 0
    BY <2>1, EmptySeq DEF Started, Typed, Shape
  <2>5. Indexed(i)'
    BY <2>1, <2>3, <2>4 DEF FirstIndex, Indexed
  <2> QED
    BY <1>3, <2>5, MadeQuiet, QuietIndexed
<1>4. ASSUME NEW i \in Iterator, UserReturns(i) PROVE \A j \in Iterator : Indexed(j)'
  <2>1. loop'[i].at = "over"
    BY <1>4 DEF UserReturns, Typed, TypeOK, Shape, Loop
  <2> QED
    BY <1>4, <2>1, OverIndexed, MadeQuiet, QuietIndexed
<1>5. ASSUME NEW i \in Iterator, Step(i) PROVE \A j \in Iterator : Indexed(j)'
  BY <1>5, IteratorStepIndexed, StepQuiet, QuietIndexed
<1>6. CASE UNCHANGED vars
  BY <1>6 DEF vars, Indexed
<1>7. CASE User
  BY <1>1, <1>2, <1>3, <1>4, <1>7 DEF User
<1> QED
  BY <1>5, <1>6, <1>7 DEF Next

\* A callback is told the position of its value, whatever callbacks did to the
\* bitmap before.
THEOREM CallbacksAreIndexed == Spec => []CallbackIndex
<1> DEFINE Ok == Typed /\ Stacked /\ \A i \in Iterator : Started(i) /\ Indexed(i)
<1>1. Init => Ok
  <2> SUFFICES ASSUME Init PROVE Ok
    OBVIOUS
  <2>1. \A i \in Iterator : Indexed(i)
    BY DEF Init, Indexed
  <2> QED
    BY <2>1, InitTyped, InitStacked, InitStarted
<1>2. Ok /\ [Next]_vars => Ok'
  <2> SUFFICES ASSUME Ok, [Next]_vars PROVE Ok'
    OBVIOUS
  <2> QED
    BY StepTyped, StepStarted, StepIndexed
<1>3. Ok => CallbackIndex
  BY DEF CallbackIndex, Indexed
<1> HIDE DEF Ok
<1> QED
  BY <1>1, <1>2, <1>3, PTL DEF Spec
=============================================================================
