-------------------------- MODULE Containers_proofs --------------------------
(****************************************************************************)
(* Theorems about the containers of CRoaring, of every size and with every  *)
(* threshold: a container that stands for a set of values of its chunk is   *)
(* changed, combined and converted to one that stands for the right set,    *)
(* whatever the kinds of the containers.                                    *)
(****************************************************************************)
EXTENDS ContainerPairs, ContainerMerges, FiniteSetTheorems, SequenceTheorems, TLAPS

(* Induction over numbers, and functions that are defined by recursion over *)
(* them.  A set of numbers that lacks one lacks a least one, since the      *)
(* finite sets are well founded by inclusion.                               *)

\* Induction, for a set of numbers in place of a predicate.
LEMMA NumbersByInduction ==
  ASSUME NEW T \in SUBSET Nat, 0 \in T, \A n \in T : n + 1 \in T
  PROVE  T = Nat
<1> DEFINE F == {0 .. n : n \in Nat \ T}
<1>1. SUFFICES ASSUME Nat \ T # {} PROVE FALSE
  OBVIOUS
<1>2. F \subseteq FiniteSubsetsOf(Nat) /\ F # {}
  <2>1. \A n \in Nat : IsFiniteSet(0 .. n)
    BY FS_Interval
  <2> QED
    BY <2>1, <1>1 DEF FiniteSubsetsOf
<1>3. PICK X \in F : \A Y \in F : ~ (<<Y, X>> \in StrictSubsetOrdering(Nat))
  <2> HIDE DEF F
  <2> QED
    BY <1>2, FS_StrictSubsetOrderingWellFounded, WFMin
<1>4. PICK n \in Nat \ T : X = 0 .. n
  OBVIOUS
<1>5. n - 1 \in Nat \ T
  BY <1>4
<1>6. 0 .. (n - 1) \in F
  BY <1>5
<1>7. <<0 .. (n - 1), X>> \in StrictSubsetOrdering(Nat)
  <2>1. 0 .. (n - 1) \in SUBSET Nat /\ X \in SUBSET Nat
    BY <1>4
  <2>2. n \in X /\ n \notin 0 .. (n - 1) /\ 0 .. (n - 1) \subseteq X
    BY <1>4
  <2> QED
    BY <2>1, <2>2 DEF StrictSubsetOrdering
<1> QED
  BY <1>3, <1>6, <1>7

\* The same, from all smaller numbers.
LEMMA NumbersByStrongInduction ==
  ASSUME NEW T \in SUBSET Nat, \A n \in Nat : (\A i \in Nat : i < n => i \in T) => n \in T
  PROVE  T = Nat
<1> DEFINE U == {n \in Nat : \A i \in Nat : i < n => i \in T}
<1>1. 0 \in U
  OBVIOUS
<1>2. \A n \in U : n + 1 \in U
  <2> TAKE n \in U
  <2>1. n \in T
    OBVIOUS
  <2>2. \A i \in Nat : i < n + 1 => i < n \/ i = n
    OBVIOUS
  <2> QED
    BY <2>1, <2>2
<1>3. U = Nat
  <2> HIDE DEF U
  <2>1. U \in SUBSET Nat
    BY DEF U
  <2> QED
    BY <1>1, <1>2, <2>1, NumbersByInduction
<1> QED
  BY <1>3

\* What is assumed of the constants, one by one.
LEMMA ContainerConstants ==
  /\ ChunkSize \in Nat \ {0} /\ DEFAULT_MAX_SIZE \in Nat \ {0} /\ WordBits \in Nat \ {0}
  /\ ValueBytes \in Nat \ {0} /\ RunHeaderBytes \in Nat \ {0} /\ RunBytes \in Nat \ {0}
  /\ 2 * DEFAULT_MAX_SIZE < ChunkSize
  /\ WordBits <= DEFAULT_MAX_SIZE
  BY ContainerAssumption DEF ContainerAssumption

\* A container can hold every value of its chunk.
LEMMA LowIsFinite == IsFiniteSet(Low) /\ Cardinality(Low) = ChunkSize
  BY FS_Interval, ContainerConstants DEF Low

\* Every set of values of a chunk is finite.
LEMMA CountOfSet ==
  ASSUME NEW S \in SUBSET Low
  PROVE  /\ IsFiniteSet(S)
         /\ Cardinality(S) \in 0 .. ChunkSize
         /\ Cardinality(S) = 0 <=> S = {}
         /\ Cardinality(S) = ChunkSize <=> S = Low
<1>1. IsFiniteSet(S) /\ Cardinality(S) <= ChunkSize /\ (Cardinality(S) = ChunkSize => S = Low)
  BY FS_Subset, LowIsFinite
<1>2. Cardinality(S) \in Nat /\ (Cardinality(S) = 0 <=> S = {})
  BY <1>1, FS_CardinalityType, FS_EmptySet
<1> QED
  BY <1>1, <1>2, LowIsFinite, ContainerConstants

\* How many values there are in two sets put together, taken apart or compared.
LEMMA CountOfTwo ==
  ASSUME NEW S \in SUBSET Low, NEW T \in SUBSET Low
  PROVE  /\ Cardinality(S \cup T) = Cardinality(S) + Cardinality(T \ S)
         /\ Cardinality(S \ T) = Cardinality(S) - Cardinality(T \cap S)
         /\ Cardinality(SymDiff(S, T)) = Cardinality(S) + Cardinality(T \ S) - Cardinality(T \cap S)
         /\ Cardinality(T) = Cardinality(T \ S) + Cardinality(T \cap S)
         /\ S \subseteq T => Cardinality(S) <= Cardinality(T)
         /\ {S \cup T, S \cap T, S \ T, T \ S, T \cap S, SymDiff(S, T)} \subseteq SUBSET Low
<1>0. IsFiniteSet(S) /\ IsFiniteSet(T) /\ Cardinality(S) \in Nat /\ Cardinality(T) \in Nat
  BY CountOfSet
<1>1. {S \cup T, S \cap T, S \ T, T \ S, T \cap S, SymDiff(S, T)} \subseteq SUBSET Low
  BY DEF SymDiff
<1>2. /\ Cardinality(S \ T) \in Nat /\ Cardinality(T \ S) \in Nat /\ Cardinality(T \cap S) \in Nat
      /\ Cardinality(S \cap (T \ S)) = 0
      /\ Cardinality((S \ T) \cap (T \ S)) = 0
      /\ IsFiniteSet(S \ T) /\ IsFiniteSet(T \ S)
  <2>1. S \cap (T \ S) = {} /\ (S \ T) \cap (T \ S) = {}
    OBVIOUS
  <2>2. /\ Cardinality(S \ T) \in Nat /\ Cardinality(T \ S) \in Nat /\ Cardinality(T \cap S) \in Nat
        /\ IsFiniteSet(S \ T) /\ IsFiniteSet(T \ S)
    BY <1>1, CountOfSet
  <2> QED
    BY <2>1, <2>2, FS_EmptySet
<1>3. Cardinality(T \ S) = Cardinality(T) - Cardinality(T \cap S)
  BY <1>0, FS_Difference
<1>4. Cardinality(S \ T) = Cardinality(S) - Cardinality(T \cap S)
  <2>1. S \cap T = T \cap S
    OBVIOUS
  <2> QED
    BY <1>0, <2>1, FS_Difference
<1>5. Cardinality(S \cup T) = Cardinality(S) + Cardinality(T \ S)
  <2>1. S \cup T = S \cup (T \ S)
    OBVIOUS
  <2>2. Cardinality(S \cup (T \ S)) = Cardinality(S) + Cardinality(T \ S) - Cardinality(S \cap (T \ S))
    BY <1>0, <1>2, FS_Union
  <2>3. Cardinality(S \cup T) = Cardinality(S \cup (T \ S))
    BY <2>1, Zenon
  <2> QED
    BY <1>0, <1>2, <2>3, <2>2
<1>6. Cardinality(SymDiff(S, T)) = Cardinality(S \ T) + Cardinality(T \ S)
  <2>1. SymDiff(S, T) = (S \ T) \cup (T \ S)
    BY DEF SymDiff
  <2>2. Cardinality((S \ T) \cup (T \ S)) =
            Cardinality(S \ T) + Cardinality(T \ S) - Cardinality((S \ T) \cap (T \ S))
    BY <1>0, <1>2, FS_Union
  <2> QED
    BY <1>2, <2>1, <2>2
<1>7. S \subseteq T => Cardinality(S) <= Cardinality(T)
  BY <1>0, FS_Subset
<1> QED
  BY <1>0, <1>1, <1>2, <1>3, <1>4, <1>5, <1>6, <1>7

\* An interval of values has as many as its ends tell.
LEMMA CountOfInterval ==
  ASSUME NEW a \in Low, NEW b \in Low, a <= b
  PROVE  a .. b \in SUBSET Low /\ Cardinality(a .. b) = b - a + 1
  BY FS_Interval, ContainerConstants DEF Low

\* A set of values that is not empty has a least one and a greatest one.
LEMMA LeastOfNumbers ==
  ASSUME NEW S \in SUBSET Nat, S # {}
  PROVE  \E m \in S : \A x \in S : m <= x
<1>1. SUFFICES ASSUME ~ \E m \in S : \A x \in S : m <= x PROVE FALSE
  OBVIOUS
<1> DEFINE T == {n \in Nat : n \notin S}
<1>2. \A n \in Nat : (\A i \in Nat : i < n => i \in T) => n \in T
  BY <1>1
<1>3. T = Nat
  <2> HIDE DEF T
  <2>1. T \in SUBSET Nat
    BY DEF T
  <2> QED
    BY <1>2, <2>1, NumbersByStrongInduction
<1> QED
  BY <1>3

\* Integers that are bounded below have a least one.
LEMMA LeastOfSome ==
  ASSUME NEW S \in SUBSET Int, NEW lo \in Int, S # {}, \A x \in S : lo <= x
  PROVE  \E m \in S : \A x \in S : m <= x
<1> DEFINE T == {x - lo : x \in S}
<1>0. \A x \in S : x - lo \in Nat
  OBVIOUS
<1>1. T \in SUBSET Nat /\ T # {}
  BY <1>0, Zenon
<1>2. PICK m \in T : \A x \in T : m <= x
  <2> HIDE DEF T
  <2> QED
    BY <1>1, LeastOfNumbers
<1>3. PICK k \in S : m = k - lo
  OBVIOUS
<1>4. \A x \in S : m <= x - lo
  BY <1>2
<1> QED
  BY <1>3, <1>4

\* Integers that are bounded above have a greatest one.
LEMMA GreatestOfSome ==
  ASSUME NEW S \in SUBSET Int, NEW hi \in Int, S # {}, \A x \in S : x <= hi
  PROVE  \E m \in S : \A x \in S : x <= m
<1> DEFINE T == {hi - x : x \in S}
<1>0. \A x \in S : hi - x \in Nat
  OBVIOUS
<1>1. T \in SUBSET Nat /\ T # {}
  BY <1>0, Zenon
<1>2. PICK m \in T : \A x \in T : m <= x
  <2> HIDE DEF T
  <2> QED
    BY <1>1, LeastOfNumbers
<1>3. PICK k \in S : m = hi - k
  OBVIOUS
<1>4. \A x \in S : m <= hi - x
  BY <1>2
<1> QED
  BY <1>3, <1>4

\* The smallest of some values is one of them.
LEMMA MinOfSome ==
  ASSUME NEW S \in SUBSET Int, NEW lo \in Int, S # {}, \A x \in S : lo <= x
  PROVE  Min(S) \in S /\ \A x \in S : Min(S) <= x
  BY LeastOfSome DEF Min

\* The greatest of some values is one of them.
LEMMA MaxOfSome ==
  ASSUME NEW S \in SUBSET Int, NEW hi \in Int, S # {}, \A x \in S : x <= hi
  PROVE  Max(S) \in S /\ \A x \in S : x <= Max(S)
  BY GreatestOfSome DEF Max

\* The smaller of two values.
LEMMA MinOfTwo == \A a, b \in Int : Min({a, b}) = IF a <= b THEN a ELSE b
<1> SUFFICES ASSUME NEW a \in Int, NEW b \in Int PROVE Min({a, b}) = IF a <= b THEN a ELSE b
  OBVIOUS
<1>1. \E x \in {a, b} : \A y \in {a, b} : x <= y
  OBVIOUS
<1>2. Min({a, b}) \in {a, b} /\ \A y \in {a, b} : Min({a, b}) <= y
  BY <1>1 DEF Min
<1> QED
  BY <1>2

\* The greater of two values.
LEMMA MaxOfTwo == \A a, b \in Int : Max({a, b}) = IF a <= b THEN b ELSE a
<1> SUFFICES ASSUME NEW a \in Int, NEW b \in Int PROVE Max({a, b}) = IF a <= b THEN b ELSE a
  OBVIOUS
<1>1. \E x \in {a, b} : \A y \in {a, b} : x >= y
  OBVIOUS
<1>2. Max({a, b}) \in {a, b} /\ \A y \in {a, b} : Max({a, b}) >= y
  BY <1>1 DEF Max
<1> QED
  BY <1>2

-----------------------------------------------------------------------------
(* Sums. *)

\* What is summed up are the sizes of sets that have nothing in common: then
\* the sum is the size of their union.
SizesOf(f, P) ==
  /\ IsFiniteSet(DOMAIN f)
  /\ \A x \in DOMAIN f : IsFiniteSet(P[x]) /\ Cardinality(P[x]) = f[x]
  /\ \A x, y \in DOMAIN f : x # y => P[x] \cap P[y] = {}

\* The sizes of finite sets that share nothing add up to the size of their union.
LEMMA SumOfSizes ==
  ASSUME NEW f, NEW P, SizesOf(f, P)
  PROVE  /\ IsFiniteSet(UNION {P[x] : x \in DOMAIN f})
         /\ SumFunction(f) = Cardinality(UNION {P[x] : x \in DOMAIN f})
<1> DEFINE X == DOMAIN f
           Pick(s) == CHOOSE x \in s : TRUE
           Is(it) == it = [s \in SUBSET X |-> IF s = {} THEN 0 ELSE f[Pick(s)] + it[s \ {Pick(s)}]]
           Iter == CHOOSE it : Is(it)
           U(s) == UNION {P[x] : x \in s}
           h == [s \in SUBSET X |-> Cardinality(U(s))]
<1>1. SumFunction(f) = Iter[X]
  BY DEF SumFunction, SumFunctionOnSet, FoldFunctionOnSet, MapThenFoldSet
<1>2. \A s \in SUBSET X : IsFiniteSet(s) /\ IsFiniteSet(U(s))
  <2> TAKE s \in SUBSET X
  <2>1. IsFiniteSet(s)
    BY FS_Subset DEF SizesOf
  <2>2. IsFiniteSet({P[x] : x \in s})
    <3> DEFINE g == [x \in s |-> P[x]]
               T == {P[x] : x \in s}
    <3>1. g \in Surjection(s, T)
      BY DEF Surjection
    <3> HIDE DEF g, T
    <3>2. IsFiniteSet(T)
      BY <2>1, <3>1, FS_Surjection
    <3> QED
      BY <3>2 DEF T
  <2>3. \A p \in {P[x] : x \in s} : IsFiniteSet(p)
    BY DEF SizesOf
  <2> QED
    BY <2>1, <2>2, <2>3, FS_UNION
<1>3. U({}) = {}
  OBVIOUS
<1>4. ASSUME NEW s \in SUBSET X, NEW x \in s PROVE Cardinality(U(s)) = f[x] + Cardinality(U(s \ {x}))
  <2> DEFINE t == s \ {x}
  <2>1. t \in SUBSET X /\ x \notin t /\ x \in X
    OBVIOUS
  <2>2. U(s) = P[x] \cup U(t)
    OBVIOUS
  <2>3. P[x] \cap U(t) = {}
    BY <2>1 DEF SizesOf
  <2>4. IsFiniteSet(U(t)) /\ IsFiniteSet(P[x]) /\ Cardinality(P[x]) = f[x]
    BY <2>1, <1>2 DEF SizesOf
  <2> DEFINE V == U(t)
             S == U(s)
  <2>5. S = P[x] \cup V /\ P[x] \cap V = {} /\ IsFiniteSet(V)
    BY <2>2, <2>3, <2>4
  <2> HIDE DEF V, S
  <2>6. Cardinality(S) = Cardinality(P[x]) + Cardinality(V) - Cardinality(P[x] \cap V)
    BY ONLY <2>5, <2>4, FS_Union
  <2>7. Cardinality(P[x] \cap V) = 0
    BY <2>5, FS_EmptySet
  <2>8. Cardinality(P[x]) \in Nat /\ Cardinality(V) \in Nat
    BY <2>4, <2>5, FS_CardinalityType
  <2>9. Cardinality(S) = f[x] + Cardinality(V)
    BY <2>4, <2>6, <2>7, <2>8
  <2> QED
    BY <2>9 DEF V, S
<1>5. \A s \in SUBSET X : s # {} => Pick(s) \in s
  OBVIOUS
<1>6. Is(h)
  <2>1. ASSUME NEW s \in SUBSET X PROVE h[s] = IF s = {} THEN 0 ELSE f[Pick(s)] + h[s \ {Pick(s)}]
    <3>1. CASE s = {}
      BY <3>1, <1>3, FS_EmptySet
    <3>2. CASE s # {}
      <4> DEFINE x == Pick(s)
      <4>1. x \in s /\ s \ {x} \in SUBSET X
        BY <3>2, <1>5
      <4> HIDE DEF x
      <4>2. h[s] = Cardinality(U(s)) /\ h[s \ {x}] = Cardinality(U(s \ {x}))
        BY <4>1
      <4>3. h[s] = f[x] + h[s \ {x}]
        BY <4>1, <4>2, <1>4
      <4> QED
        BY <3>2, <4>3 DEF x
    <3> QED
      BY <3>1, <3>2
  <2> HIDE DEF U, Pick
  <2> QED
    BY <2>1
<1>7. Is(Iter)
  <2> HIDE DEF Is
  <2> QED
    BY <1>6
<1>8. \A s \in SUBSET X : Iter[s] = IF s = {} THEN 0 ELSE f[Pick(s)] + Iter[s \ {Pick(s)}]
  <2> HIDE DEF Iter, Pick
  <2>1. Iter = [s \in SUBSET X |-> IF s = {} THEN 0 ELSE f[Pick(s)] + Iter[s \ {Pick(s)}]]
    BY <1>7
  <2> QED
    BY <2>1
<1> HIDE DEF Is, Iter
<1> DEFINE T == {n \in Nat : \A s \in SUBSET X : Cardinality(s) = n => Iter[s] = Cardinality(U(s))}
<1>9. T = Nat
  <2>1. 0 \in T
    <3>1. ASSUME NEW s \in SUBSET X, Cardinality(s) = 0 PROVE Iter[s] = Cardinality(U(s))
      <4>1. s = {}
        BY <3>1, <1>2, FS_EmptySet
      <4> QED
        BY <4>1, <1>8, <1>3, FS_EmptySet
    <3> QED
      BY <3>1
  <2>2. ASSUME NEW n \in T PROVE n + 1 \in T
    <3>1. ASSUME NEW s \in SUBSET X, Cardinality(s) = n + 1 PROVE Iter[s] = Cardinality(U(s))
      <4> DEFINE x == Pick(s)
      <4>0. n \in Nat /\ Cardinality(s) = n + 1
        BY <3>1
      <4>1. s # {}
        BY ONLY <4>0, FS_EmptySet
      <4>2. x \in s
        BY <4>1, <1>5
      <4>3. Cardinality(s \ {x}) = n
        <5>1. IsFiniteSet(s)
          BY <1>2
        <5> HIDE DEF x
        <5> QED
          BY ONLY <4>0, <4>2, <5>1, FS_RemoveElement
      <4>4. Iter[s] = f[x] + Iter[s \ {x}]
        BY <4>1, <1>8
      <4> HIDE DEF x
      <4>5. Iter[s \ {x}] = Cardinality(U(s \ {x}))
        BY <4>3, <2>2
      <4>6. Cardinality(U(s)) = f[x] + Cardinality(U(s \ {x}))
        BY <4>2, <1>4
      <4> QED
        BY <4>4, <4>5, <4>6
    <3> QED
      BY <3>1
  <2> HIDE DEF T
  <2>3. T \in SUBSET Nat
    BY DEF T
  <2> QED
    BY <2>1, <2>2, <2>3, NumbersByInduction
<1>10. Cardinality(X) \in Nat
  BY FS_CardinalityType DEF SizesOf
<1>11. Iter[X] = Cardinality(U(X))
  BY <1>9, <1>10
<1>12. IsFiniteSet(U(X))
  BY <1>2
<1> QED
  BY <1>1, <1>11, <1>12

\* The same, for a set that has just what is in those sets.
LEMMA SumIsCount ==
  ASSUME NEW f, NEW P, SizesOf(f, P), NEW S, \A v : v \in S <=> \E x \in DOMAIN f : v \in P[x]
  PROVE  IsFiniteSet(S) /\ SumFunction(f) = Cardinality(S)
<1>1. UNION {P[x] : x \in DOMAIN f} = S
  OBVIOUS
<1> QED
  BY <1>1, SumOfSizes

-----------------------------------------------------------------------------
(* Sets of runs. *)

\* Runs within the chunk, with a gap between any two.
Apart(R) ==
  /\ R \in SUBSET (Low \X Low)
  /\ \A r \in R : r[1] <= r[2]
  /\ \A r, s \in R : r # s => r[2] + 1 < s[1] \/ s[2] + 1 < r[1]

\* The values of some runs are those between the ends of one.
LEMMA RunsHaveValues ==
  ASSUME NEW R \in SUBSET (Low \X Low), \A r \in R : r[1] <= r[2]
  PROVE  /\ RunValues(R) \in SUBSET Low
         /\ \A v : v \in RunValues(R) <=> v \in Int /\ \E r \in R : r[1] <= v /\ v <= r[2]
         /\ RunValues(R) = {} <=> R = {}
<1>1. \A v : v \in RunValues(R) <=> \E r \in R : v \in r[1] .. r[2]
  BY DEF RunValues
<1>2. \A r \in R : r[1] \in Low /\ r[2] \in Low
  OBVIOUS
<1>3. \A v : v \in RunValues(R) <=> v \in Int /\ \E r \in R : r[1] <= v /\ v <= r[2]
  BY <1>1, <1>2, ContainerConstants DEF Low
<1>4. \A r \in R : r[1] .. r[2] \subseteq Low /\ r[1] \in r[1] .. r[2]
  BY <1>2, ContainerConstants DEF Low
<1>5. RunValues(R) \in SUBSET Low
  BY <1>1, <1>4
<1>6. RunValues(R) = {} <=> R = {}
  BY <1>1, <1>4
<1> QED
  BY <1>3, <1>5, <1>6

\* Runs that are apart: their ends, and their values.
LEMMA ApartHaveValues ==
  ASSUME NEW R, Apart(R)
  PROVE  /\ RunValues(R) \in SUBSET Low
         /\ \A v : v \in RunValues(R) <=> v \in Int /\ \E r \in R : r[1] <= v /\ v <= r[2]
         /\ RunValues(R) = {} <=> R = {}
         /\ \A r \in R : r = <<r[1], r[2]>> /\ r[1] \in Low /\ r[2] \in Low /\ r[1] <= r[2]
         /\ \A r, s \in R : r # s => r[2] + 1 < s[1] \/ s[2] + 1 < r[1]
  BY RunsHaveValues DEF Apart

\* There are finitely many runs in a container.
LEMMA ApartIsFinite ==
  ASSUME NEW R, Apart(R)
  PROVE  IsFiniteSet(R)
<1>1. IsFiniteSet(Low \X Low)
  BY LowIsFinite, FS_Product
<1> QED
  BY <1>1, FS_Subset DEF Apart

\* The lengths of runs that are apart add up to the number of their values.
LEMMA RunLengthsAddUp ==
  ASSUME NEW R, Apart(R)
  PROVE  run_container_cardinality(Run(R)) = Cardinality(RunValues(R))
<1> DEFINE f == [r \in R |-> r[2] - r[1] + 1]
           P == [r \in R |-> r[1] .. r[2]]
<1>1. \A r \in R : r[1] \in Int /\ r[2] \in Int /\ r[1] <= r[2]
  BY ApartHaveValues, ContainerConstants DEF Low
<1>2. \A r \in R : IsFiniteSet(P[r]) /\ Cardinality(P[r]) = f[r]
  BY <1>1, FS_Interval
<1>3. \A r, s \in R : r # s => P[r] \cap P[s] = {}
  BY <1>1, ApartHaveValues
<1>4. IsFiniteSet(R)
  BY ApartIsFinite
<1>5. DOMAIN f = R
  OBVIOUS
<1>6. \A v : v \in RunValues(R) <=> \E r \in R : v \in P[r]
  BY DEF RunValues
<1>7. run_container_cardinality(Run(R)) = SumFunction(f)
  BY DEF run_container_cardinality, Run
<1> HIDE DEF f, P
<1>8. SizesOf(f, P)
  BY <1>2, <1>3, <1>4, <1>5 DEF SizesOf
<1> QED
  BY <1>5, <1>6, <1>7, <1>8, SumIsCount

\* A full run container has every value of the chunk.
LEMMA FullRun ==
  /\ Apart({rle16(0, ChunkSize - 1)})
  /\ RunValues({rle16(0, ChunkSize - 1)}) = Low
  /\ \A R : run_container_is_full(Run(R)) <=> R = {rle16(0, ChunkSize - 1)}
<1>1. rle16(0, ChunkSize - 1) \in Low \X Low /\ rle16(0, ChunkSize - 1)[1] = 0 /\ rle16(0, ChunkSize - 1)[2] = ChunkSize - 1
  BY ContainerConstants DEF Low, rle16
<1>2. Apart({rle16(0, ChunkSize - 1)})
  BY <1>1, ContainerConstants DEF Apart
<1>3. RunValues({rle16(0, ChunkSize - 1)}) = Low
  BY <1>1 DEF RunValues, Low
<1> QED
  BY <1>2, <1>3 DEF run_container_is_full, Run

\* One run.
LEMMA OneRun ==
  ASSUME NEW a \in Low, NEW b \in Low, a <= b
  PROVE  Apart({rle16(a, b)}) /\ RunValues({rle16(a, b)}) = a .. b
  BY DEF Apart, RunValues, rle16

\* No runs, no values.
LEMMA NoRuns == Apart({}) /\ RunValues({}) = {}
  BY DEF Apart, RunValues

\* The runs of a set are apart and have its values.
LEMMA RunsOfSet ==
  ASSUME NEW S \in SUBSET Low
  PROVE  Apart(RunsOf(S)) /\ RunValues(RunsOf(S)) = S
<1> DEFINE R == RunsOf(S)
<1>1. \A r \in R : /\ r \in Low \X Low /\ r[1] \in Int /\ r[2] \in Int /\ r[1] <= r[2]
                   /\ r[1] .. r[2] \subseteq S /\ r[1] - 1 \notin S /\ r[2] + 1 \notin S
  <2>1. \A r \in R : /\ r \in S \X S /\ r[1] <= r[2]
                     /\ r[1] .. r[2] \subseteq S /\ r[1] - 1 \notin S /\ r[2] + 1 \notin S
    BY Zenon DEF RunsOf
  <2>2. \A r \in S \X S : r \in Low \X Low /\ r[1] \in Int /\ r[2] \in Int
    <3>1. \A x \in S : x \in Low /\ x \in Int
      BY ContainerConstants DEF Low
    <3> QED
      BY <3>1, Zenon
  <2> QED
    BY <2>1, <2>2
<1>2. ASSUME NEW r \in R, NEW s \in R, r[1] <= s[1], s[1] <= r[2] + 1 PROVE r = s
  <2>0. r[1] \in Int /\ r[2] \in Int /\ s[1] \in Int /\ s[2] \in Int
    BY <1>1
  <2>1. s[1] - 1 \notin S /\ r[2] + 1 \notin S /\ r[1] .. r[2] \subseteq S /\ s[1] .. s[2] \subseteq S /\ s[1] <= s[2] /\ s[1] \in S
    BY <1>1
  <2>2. r[1] = s[1]
    <3>1. ~ (s[1] - 1 \in r[1] .. r[2])
      BY <2>1
    <3>2. s[1] # r[2] + 1
      BY <2>1
    <3> QED
      BY <1>2, <2>0, <3>1, <3>2
  <2>3. ~ (r[2] + 1 \in s[1] .. s[2]) /\ ~ (s[2] + 1 \in r[1] .. r[2])
    BY <1>1
  <2>4. r[2] = s[2]
    BY <2>0, <2>1, <2>2, <2>3, <1>1
  <2> QED
    BY <1>1, <2>2, <2>4
<1>3. Apart(R)
  <2>1. ASSUME NEW r \in R, NEW s \in R, r # s PROVE r[2] + 1 < s[1] \/ s[2] + 1 < r[1]
    <3>0. r[1] \in Int /\ r[2] \in Int /\ s[1] \in Int /\ s[2] \in Int
      BY <1>1
    <3>1. CASE r[1] <= s[1]
      BY <1>2, <2>1, <3>0, <3>1
    <3>2. CASE s[1] <= r[1]
      BY <1>2, <2>1, <3>0, <3>2
    <3> QED
      BY <3>0, <3>1, <3>2
  <2> HIDE DEF R
  <2> QED
    BY <1>1, <2>1 DEF Apart
<1>4. ASSUME NEW v \in S PROVE \E r \in R : v \in r[1] .. r[2]
  <2>0. v \in Int /\ v \in 0 .. ChunkSize - 1
    BY DEF Low
  <2> DEFINE A == {a \in 0 .. v : a .. v \subseteq S}
             B == {b \in v .. ChunkSize - 1 : v .. b \subseteq S}
  <2>1. A \in SUBSET Int /\ v \in A /\ A # {} /\ \A x \in A : 0 <= x
    <3>1. v .. v = {v} /\ v \in 0 .. v
      BY <2>0
    <3>2. v .. v \subseteq S
      BY <3>1
    <3>3. v \in A
      BY <3>1, <3>2
    <3> QED
      BY <2>0, <3>3
  <2>2. B \in SUBSET Int /\ v \in B /\ B # {} /\ ChunkSize - 1 \in Int /\ \A x \in B : x <= ChunkSize - 1
    BY <2>0, ContainerConstants
  <2>3. PICK a \in A : \A x \in A : a <= x
    <3> HIDE DEF A
    <3>1. 0 \in Int
      OBVIOUS
    <3> QED
      BY <2>1, <3>1, LeastOfSome, Zenon
  <2>4. PICK b \in B : \A x \in B : x <= b
    <3> HIDE DEF B
    <3> QED
      BY <2>2, GreatestOfSome, Zenon
  <2>5. a \in Int /\ b \in Int /\ a .. v \subseteq S /\ v .. b \subseteq S /\ a <= v /\ v <= b /\ 0 <= a /\ b <= ChunkSize - 1
    BY <2>0, ContainerConstants
  <2>6. a - 1 \notin S
    <3> SUFFICES ASSUME a - 1 \in S PROVE FALSE
      OBVIOUS
    <3>1. a - 1 \in 0 .. v
      BY <2>5, <2>0 DEF Low
    <3>2. (a - 1) .. v \subseteq S
      BY <2>5, <2>0
    <3>3. a - 1 \in A
      BY <3>1, <3>2
    <3> QED
      BY <2>3, <2>5, <3>3
  <2>7. b + 1 \notin S
    <3> SUFFICES ASSUME b + 1 \in S PROVE FALSE
      OBVIOUS
    <3>1. b + 1 \in v .. ChunkSize - 1
      BY <2>5, <2>0, ContainerConstants DEF Low
    <3>2. v .. (b + 1) \subseteq S
      BY <2>5, <2>0
    <3>3. b + 1 \in B
      BY <3>1, <3>2
    <3> QED
      BY <2>4, <2>5, <3>3
  <2>8. a .. b \subseteq S
    BY <2>5, <2>0
  <2>9. a \in S /\ b \in S /\ a <= b /\ v \in a .. b
    BY <2>5, <2>0, <2>8
  <2>10. <<a, b>> \in R
    BY <2>6, <2>7, <2>8, <2>9 DEF RunsOf
  <2> QED
    BY <2>9, <2>10
<1>5. RunValues(R) = S
  BY <1>1, <1>4 DEF RunValues
<1> QED
  BY <1>3, <1>5

-----------------------------------------------------------------------------
(* Sequences of runs, as the operations that put one run behind another     *)
(* build them.                                                              *)

\* Runs in the order in which they begin, with a gap between any two.
Chain(s) ==
  /\ s \in Seq(Low \X Low)
  /\ \A i \in DOMAIN s : s[i][1] <= s[i][2]
  /\ \A i, j \in DOMAIN s : i < j => s[i][2] + 1 < s[j][1]

\* The values of the runs of a sequence, and the numbers at which or after which they all begin.
ChainValues(s) == RunValues(ToSet(s))
BeginBy(s, n) == \A i \in DOMAIN s : s[i][1] <= n
EndBefore(s, n) == \A i \in DOMAIN s : s[i][2] + 1 < n

\* A chain of runs: its runs are apart, and their ends are in order.
LEMMA ChainIsApart ==
  ASSUME NEW s, Chain(s)
  PROVE  /\ Apart(ToSet(s))
         /\ ChainValues(s) \in SUBSET Low
         /\ \A v : v \in ChainValues(s) <=> v \in Int /\ \E i \in DOMAIN s : s[i][1] <= v /\ v <= s[i][2]
         /\ DOMAIN s = 1 .. Len(s) /\ Len(s) \in Nat
         /\ \A i \in DOMAIN s : /\ s[i] \in Low \X Low /\ s[i][1] \in Low /\ s[i][2] \in Low
                                /\ s[i] = <<s[i][1], s[i][2]>> /\ s[i][1] <= s[i][2]
         /\ \A i, j \in DOMAIN s : i < j => s[i][2] + 1 < s[j][1]
<1>1. DOMAIN s = 1 .. Len(s) /\ Len(s) \in Nat
  BY DEF Chain
<1>2. \A i \in DOMAIN s : /\ s[i] \in Low \X Low /\ s[i][1] \in Low /\ s[i][2] \in Low
                          /\ s[i] = <<s[i][1], s[i][2]>> /\ s[i][1] <= s[i][2]
  <2>1. \A i \in DOMAIN s : s[i] \in Low \X Low /\ s[i][1] <= s[i][2]
    BY <1>1 DEF Chain
  <2>2. \A x \in Low \X Low : x[1] \in Low /\ x[2] \in Low /\ x = <<x[1], x[2]>>
    OBVIOUS
  <2> QED
    BY <2>1, <2>2
<1>3. \A r : r \in ToSet(s) <=> \E i \in DOMAIN s : r = s[i]
  BY DEF ToSet
<1>4. \A i, j \in DOMAIN s : i < j => s[i][2] + 1 < s[j][1]
  BY DEF Chain
<1>5. ASSUME NEW r \in ToSet(s), NEW q \in ToSet(s), r # q PROVE r[2] + 1 < q[1] \/ q[2] + 1 < r[1]
  <2>1. PICK i \in DOMAIN s : r = s[i]
    BY <1>3
  <2>2. PICK j \in DOMAIN s : q = s[j]
    BY <1>3
  <2>3. i < j \/ j < i
    BY <1>1, <1>5, <2>1, <2>2
  <2> QED
    BY <1>4, <2>1, <2>2, <2>3
<1>6. \A r \in ToSet(s) : r \in Low \X Low /\ r[1] <= r[2]
  BY <1>2, <1>3
<1>7. Apart(ToSet(s))
  BY <1>5, <1>6 DEF Apart
<1>8. /\ ChainValues(s) \in SUBSET Low
      /\ \A v : v \in ChainValues(s) <=> v \in Int /\ \E r \in ToSet(s) : r[1] <= v /\ v <= r[2]
  BY <1>7, ApartHaveValues DEF ChainValues
<1>9. \A v : v \in ChainValues(s) <=> v \in Int /\ \E i \in DOMAIN s : s[i][1] <= v /\ v <= s[i][2]
  BY <1>3, <1>8
<1> QED
  BY <1>1, <1>2, <1>4, <1>7, <1>8, <1>9

\* The chain that a loop starts with.
LEMMA ChainOfNone == Chain(<<>>) /\ ChainValues(<<>>) = {} /\ \A n : BeginBy(<<>>, n) /\ EndBefore(<<>>, n)
<1>1. ToSet(<<>>) = {} /\ DOMAIN <<>> = {} /\ <<>> \in Seq(Low \X Low)
  BY DEF ToSet
<1>2. ChainValues(<<>>) = {}
  BY <1>1, NoRuns DEF ChainValues
<1> QED
  BY <1>1, <1>2, Zenon DEF Chain, BeginBy, EndBefore

\* A run that begins after the end of a chain is put behind it.
LEMMA ChainGrows ==
  ASSUME NEW s, Chain(s), NEW a \in Low, NEW b \in Low, a <= b, EndBefore(s, a)
  PROVE  /\ Chain(Append(s, <<a, b>>))
         /\ ChainValues(Append(s, <<a, b>>)) = ChainValues(s) \cup a .. b
         /\ \A n \in Int : BeginBy(s, n) /\ a <= n => BeginBy(Append(s, <<a, b>>), n)
         /\ \A n \in Int : EndBefore(s, n) /\ b + 1 < n => EndBefore(Append(s, <<a, b>>), n)
<1> DEFINE t == Append(s, <<a, b>>)
<1>0. a \in Int /\ b \in Int
  BY DEF Low
<1>1. s \in Seq(Low \X Low) /\ Len(s) \in Nat /\ DOMAIN s = 1 .. Len(s)
  BY ChainIsApart DEF Chain
<1>2. t \in Seq(Low \X Low) /\ DOMAIN t = 1 .. (Len(s) + 1)
  BY <1>1
<1>3. t[Len(s) + 1] = <<a, b>> /\ \A i \in DOMAIN s : t[i] = s[i]
  BY <1>1
<1> HIDE DEF t
<1>4. \A i \in DOMAIN t : i \in DOMAIN s \/ i = Len(s) + 1
  BY <1>1, <1>2
<1>5. \A i \in DOMAIN s : i \in DOMAIN t /\ i < Len(s) + 1
  BY <1>1, <1>2
<1>6. Len(s) + 1 \in DOMAIN t
  BY <1>1, <1>2
<1>7. \A i \in DOMAIN t : t[i][1] <= t[i][2]
  BY <1>3, <1>4 DEF Chain
<1>8. ASSUME NEW i \in DOMAIN t, NEW j \in DOMAIN t, i < j PROVE t[i][2] + 1 < t[j][1]
  <2>1. i \in DOMAIN s
    BY <1>1, <1>2, <1>8
  <2>2. CASE j \in DOMAIN s
    BY <1>3, <1>8, <2>1, <2>2 DEF Chain
  <2>3. CASE j = Len(s) + 1
    BY <1>3, <2>1, <2>3 DEF EndBefore
  <2> QED
    BY <1>4, <2>2, <2>3
<1>9. Chain(t)
  BY <1>2, <1>7, <1>8 DEF Chain
<1>10. ChainValues(t) = ChainValues(s) \cup a .. b
  <2>1. \A v : v \in ChainValues(t) <=> v \in Int /\ \E i \in DOMAIN t : t[i][1] <= v /\ v <= t[i][2]
    BY <1>9, ChainIsApart
  <2>2. \A v : v \in ChainValues(s) <=> v \in Int /\ \E i \in DOMAIN s : s[i][1] <= v /\ v <= s[i][2]
    BY ChainIsApart
  <2>3. \A v : (\E i \in DOMAIN t : t[i][1] <= v /\ v <= t[i][2]) <=> (\E i \in DOMAIN s : s[i][1] <= v /\ v <= s[i][2]) \/ (a <= v /\ v <= b)
    <3>1. <<a, b>>[1] = a /\ <<a, b>>[2] = b
      OBVIOUS
    <3> QED
      BY <1>3, <1>4, <1>5, <1>6, <3>1
  <2>4. \A v : v \in a .. b <=> v \in Int /\ a <= v /\ v <= b
    BY <1>0
  <2> QED
    BY <2>1, <2>2, <2>3, <2>4
<1>11. \A n \in Int : BeginBy(s, n) /\ a <= n => BeginBy(t, n)
  BY <1>3, <1>4 DEF BeginBy
<1>12. \A n \in Int : EndBefore(s, n) /\ b + 1 < n => EndBefore(t, n)
  BY <1>3, <1>4 DEF EndBefore
<1> QED
  BY <1>9, <1>10, <1>11, <1>12 DEF t

\* A sequence without its last run.
LEMMA ChainShrinks ==
  ASSUME NEW s, Chain(s), s # <<>>
  PROVE  /\ Chain(Front(s))
         /\ s[Len(s)] = <<s[Len(s)][1], s[Len(s)][2]>>
         /\ s[Len(s)][1] \in Low /\ s[Len(s)][2] \in Low /\ s[Len(s)][1] <= s[Len(s)][2]
         /\ ChainValues(s) = ChainValues(Front(s)) \cup s[Len(s)][1] .. s[Len(s)][2]
         /\ EndBefore(Front(s), s[Len(s)][1])
         /\ \A n \in Int : BeginBy(s, n) => BeginBy(Front(s), n) /\ s[Len(s)][1] <= n
<1> DEFINE t == Front(s)
<1>1. s \in Seq(Low \X Low) /\ Len(s) \in Nat \ {0} /\ DOMAIN s = 1 .. Len(s) /\ Len(s) \in DOMAIN s
  BY DEF Chain
<1>2. t \in Seq(Low \X Low) /\ DOMAIN t = 1 .. Len(s) - 1 /\ \A i \in DOMAIN t : t[i] = s[i]
  BY <1>1 DEF Front
<1> HIDE DEF t
<1>3. \A i \in DOMAIN t : i \in DOMAIN s /\ i < Len(s)
  BY <1>1, <1>2
<1>4. \A i \in DOMAIN s : i \in DOMAIN t \/ i = Len(s)
  BY <1>1, <1>2
<1>5. Chain(t)
  BY <1>2, <1>3 DEF Chain
<1>6. /\ s[Len(s)] = <<s[Len(s)][1], s[Len(s)][2]>>
      /\ s[Len(s)][1] \in Low /\ s[Len(s)][2] \in Low /\ s[Len(s)][1] <= s[Len(s)][2]
  BY <1>1, ChainIsApart
<1>7. EndBefore(t, s[Len(s)][1])
  BY <1>1, <1>2, <1>3 DEF EndBefore, Chain
<1>8. \A n \in Int : BeginBy(s, n) => BeginBy(t, n) /\ s[Len(s)][1] <= n
  BY <1>1, <1>2, <1>3 DEF BeginBy
<1>9. ChainValues(s) = ChainValues(t) \cup s[Len(s)][1] .. s[Len(s)][2]
  <2>1. \A v : v \in ChainValues(t) <=> v \in Int /\ \E i \in DOMAIN t : t[i][1] <= v /\ v <= t[i][2]
    BY <1>5, ChainIsApart
  <2>2. \A v : v \in ChainValues(s) <=> v \in Int /\ \E i \in DOMAIN s : s[i][1] <= v /\ v <= s[i][2]
    BY ChainIsApart
  <2>3. \A v : (\E i \in DOMAIN s : s[i][1] <= v /\ v <= s[i][2])
                 <=> (\E i \in DOMAIN t : t[i][1] <= v /\ v <= t[i][2]) \/ (s[Len(s)][1] <= v /\ v <= s[Len(s)][2])
    BY <1>1, <1>2, <1>3, <1>4
  <2>4. \A v : v \in s[Len(s)][1] .. s[Len(s)][2] <=> v \in Int /\ s[Len(s)][1] <= v /\ v <= s[Len(s)][2]
    BY <1>6 DEF Low
  <2> QED
    BY <2>1, <2>2, <2>3, <2>4
<1> QED
  BY <1>5, <1>6, <1>7, <1>8, <1>9 DEF t

\* A run that is put behind a chain, none of whose runs begins after it.
LEMMA RunAppended ==
  ASSUME NEW s, Chain(s), s # <<>>, NEW a \in Low, NEW b \in Low, a <= b, BeginBy(s, a)
  PROVE  LET t == run_container_append(s, <<a, b>>)
         IN  /\ Chain(t) /\ t # <<>>
             /\ ChainValues(t) = ChainValues(s) \cup a .. b
             /\ BeginBy(t, a)
<1> DEFINE p == s[Len(s)][1]
           q == s[Len(s)][2]
           f == Front(s)
           t == run_container_append(s, <<a, b>>)
<1>0. a \in Int /\ b \in Int /\ p \in Int /\ q \in Int
  BY ChainShrinks DEF Low
<1>1. /\ Chain(f) /\ p \in Low /\ q \in Low /\ p <= q
      /\ ChainValues(s) = ChainValues(f) \cup p .. q
      /\ EndBefore(f, p) /\ BeginBy(f, a) /\ p <= a
  BY <1>0, ChainShrinks
<1>2. t = IF a > q + 1 THEN Append(s, <<a, b>>) ELSE IF b >= q THEN f \o <<rle16(p, b)>> ELSE s
  <2>1. <<a, b>>[1] = a /\ <<a, b>>[2] = b
    OBVIOUS
  <2> QED
    BY <1>0, <2>1 DEF run_container_append
<1>3. s \in Seq(Low \X Low) /\ f \in Seq(Low \X Low) /\ Len(s) \in Nat \ {0}
  BY <1>1 DEF Chain
<1>4. f \o <<rle16(p, b)>> = Append(f, <<p, b>>)
  BY <1>1, <1>3 DEF rle16
<1> HIDE DEF p, q, f, t
<1>5. CASE a > q + 1
  <2>1. t = Append(s, <<a, b>>)
    BY <1>2, <1>5
  <2>2. EndBefore(s, a)
    <3>1. s = Append(f, <<p, q>>)
      <4>1. s[Len(s)] = <<p, q>>
        BY ChainShrinks DEF p, q
      <4> QED
        BY <1>3, <4>1 DEF f, Front
    <3>2. EndBefore(f, a)
      BY <1>0, <1>1, ChainIsApart DEF EndBefore, Low
    <3> QED
      BY <1>0, <1>1, <1>5, <3>1, <3>2, ChainGrows
  <2>3. Append(s, <<a, b>>) # <<>>
    BY <1>3
  <2>4. Chain(t) /\ ChainValues(t) = ChainValues(s) \cup a .. b /\ BeginBy(t, a)
    BY <1>0, <2>1, <2>2, ChainGrows
  <2> QED
    BY <2>1, <2>3, <2>4 DEF t
<1>6. CASE a <= q + 1 /\ b >= q
  <2>1. t = Append(f, <<p, b>>)
    BY <1>0, <1>2, <1>4, <1>6
  <2>2. p <= b
    BY <1>0, <1>1
  <2>3. Chain(t) /\ ChainValues(t) = ChainValues(f) \cup p .. b /\ BeginBy(t, a)
    BY <1>0, <1>1, <2>1, <2>2, ChainGrows
  <2>4. p .. b = p .. q \cup a .. b
    BY <1>0, <1>1, <1>6
  <2>5. t # <<>>
    BY <1>3, <2>1
  <2> QED
    BY <1>1, <2>3, <2>4, <2>5 DEF t
<1>7. CASE a <= q + 1 /\ b < q
  <2>1. t = s
    BY <1>0, <1>2, <1>7
  <2>2. a .. b \subseteq p .. q
    BY <1>0, <1>1, <1>7
  <2> QED
    BY <1>1, <2>1, <2>2 DEF t
<1> QED
  BY <1>0, <1>5, <1>6, <1>7

\* A run that takes out what it shares with the last one: where two overlap, nothing is left.
LEMMA RunExcluded ==
  ASSUME NEW s, Chain(s), NEW a \in Low, NEW b \in Low, a <= b, BeginBy(s, a)
  PROVE  LET t == run_container_smart_append_exclusive(s, <<a, b>>)
         IN  /\ Chain(t)
             /\ ChainValues(t) = SymDiff(ChainValues(s), a .. b)
             /\ \A n \in Int : a <= n /\ n \notin ChainValues(s) \cap (a .. b) => BeginBy(t, n)
<1> DEFINE p == s[Len(s)][1]
           q == s[Len(s)][2]
           f == Front(s)
           m == Min({b, q})
           M == Max({b, q})
           before == IF a = p THEN <<>> ELSE <<rle16(p, a - 1)>>
           after == IF b = q THEN <<>> ELSE <<rle16(m + 1, M)>>
           t == run_container_smart_append_exclusive(s, <<a, b>>)
<1>ab. a \in Int /\ b \in Int /\ 0 <= a /\ b <= ChunkSize - 1
  BY ContainerConstants DEF Low
<1>1. t = IF s = <<>> \/ a > q + 1 THEN Append(s, <<a, b>>)
          ELSE IF a = q + 1 THEN f \o <<rle16(p, b)>> ELSE f \o before \o after
  <2>1. <<a, b>>[1] = a /\ <<a, b>>[2] = b
    OBVIOUS
  <2> QED
    BY <2>1 DEF run_container_smart_append_exclusive
<1>2. s # <<>> => /\ p \in Int /\ q \in Int
                  /\ Chain(f) /\ p \in Low /\ q \in Low /\ p <= q
                  /\ ChainValues(s) = ChainValues(f) \cup p .. q
                  /\ EndBefore(f, p) /\ BeginBy(f, a) /\ p <= a
                  /\ s[Len(s)] = <<p, q>>
  BY <1>ab, ChainShrinks DEF Low
<1>3. \A n \in Int : a <= n /\ BeginBy(s, a) => BeginBy(s, n)
  <2>1. \A i \in DOMAIN s : s[i][1] \in Int
    BY ChainIsApart DEF Low
  <2> QED
    BY <1>ab, <2>1 DEF BeginBy
<1>4. \A v \in ChainValues(s) : v \in Int
  BY ChainIsApart DEF Low
<1>5. CASE s = <<>> \/ a > q + 1
  <2>1. t = Append(s, <<a, b>>)
    BY <1>1, <1>5
  <2>2. EndBefore(s, a)
    <3>1. CASE s = <<>>
      BY <3>1, ChainOfNone
    <3>2. CASE s # <<>>
      <4>1. s \in Seq(Low \X Low) /\ Len(s) \in Nat \ {0}
        BY <3>2 DEF Chain
      <4>2. s = Append(f, <<p, q>>)
        BY <1>2, <3>2, <4>1 DEF Front
      <4>3. EndBefore(f, a)
        BY <1>ab, <1>2, <3>2, ChainIsApart DEF EndBefore, Low
      <4> HIDE DEF f, p, q
      <4> QED
        BY <1>ab, <1>2, <1>5, <3>2, <4>2, <4>3, ChainGrows
    <3> QED
      BY <3>1, <3>2
  <2>3. Chain(t) /\ ChainValues(t) = ChainValues(s) \cup a .. b
    BY <2>1, <2>2, ChainGrows
  <2>4. \A v \in ChainValues(s) : v < a
    <3>1. \A v \in ChainValues(s) : v \in Int /\ \E i \in DOMAIN s : s[i][1] <= v /\ v <= s[i][2]
      BY ChainIsApart
    <3>2. \A i \in DOMAIN s : s[i][2] + 1 < a /\ s[i][2] \in Int
      BY <2>2, ChainIsApart DEF EndBefore, Low
    <3> QED
      BY <1>ab, <3>1, <3>2
  <2>5. ChainValues(s) \cup a .. b = SymDiff(ChainValues(s), a .. b)
    <3>1. \A v \in a .. b : v \notin ChainValues(s)
      BY <1>ab, <2>4
    <3> QED
      BY <3>1 DEF SymDiff
  <2>6. ASSUME NEW n \in Int, a <= n PROVE BeginBy(t, n)
    BY <1>3, <2>1, <2>2, <2>6, ChainGrows
  <2> HIDE DEF t
  <2> QED
    BY <2>3, <2>5, <2>6 DEF t
<1>6. CASE s # <<>> /\ a = q + 1
  <2>0. f \in Seq(Low \X Low) /\ p \in Low /\ q \in Low
    BY <1>2, <1>6 DEF Chain
  <2> HIDE DEF p, q, f, t
  <2>1. t = f \o <<rle16(p, b)>>
    <3>1. ~ (s = <<>> \/ a > q + 1)
      BY <1>ab, <1>2, <1>6
    <3> QED
      BY <1>1, <1>6, <3>1
  <2>2. f \in Seq(Low \X Low)
    BY <2>0
  <2>3. t = Append(f, <<p, b>>)
    BY <2>0, <2>1 DEF rle16
  <2>4. p <= b
    BY <1>ab, <1>2, <1>6
  <2>5. Chain(t) /\ ChainValues(t) = ChainValues(f) \cup p .. b
    BY <1>2, <1>6, <2>0, <2>3, <2>4, ChainGrows
  <2>6. \A v \in ChainValues(f) : v < p
    <3>1. \A v \in ChainValues(f) : v \in Int /\ \E i \in DOMAIN f : f[i][1] <= v /\ v <= f[i][2]
      BY <1>2, <1>6, ChainIsApart
    <3>2. \A i \in DOMAIN f : f[i][2] + 1 < p /\ f[i][2] \in Int
      BY <1>2, <1>6, ChainIsApart DEF EndBefore, Low
    <3> QED
      BY <1>2, <1>6, <3>1, <3>2
  <2>7. ChainValues(f) \cup p .. b = SymDiff(ChainValues(s), a .. b)
    <3>1. \A v : v \in p .. b <=> v \in p .. q \/ v \in a .. b
      BY <1>ab, <1>2, <1>6
    <3>2. \A v \in a .. b : v \notin p .. q /\ v \notin ChainValues(f)
      BY <1>ab, <1>2, <1>6, <2>6
    <3> QED
      BY <1>2, <1>6, <3>1, <3>2 DEF SymDiff
  <2>8. ASSUME NEW n \in Int, a <= n PROVE BeginBy(t, n)
    <3>1. BeginBy(s, n)
      BY <1>3, <2>8
    <3>2. BeginBy(f, n) /\ p <= n
      BY <1>6, <3>1, ChainShrinks DEF f, p
    <3> QED
      BY <1>2, <1>6, <2>3, <2>4, <3>2, ChainGrows
  <2> QED
    BY <2>5, <2>7, <2>8 DEF t
<1>7. CASE s # <<>> /\ a <= q
  <2>1. t = f \o before \o after
    <3> HIDE DEF p, q, f, t, before, after
    <3>1. ~ (s = <<>> \/ a > q + 1) /\ a # q + 1
      BY <1>ab, <1>2, <1>7
    <3> QED
      BY <1>1, <3>1
  <2>2. f \in Seq(Low \X Low)
    BY <1>2, <1>7 DEF Chain
  <2>3. m \in Int /\ M \in Int /\ a <= m /\ m <= M /\ m <= b /\ m <= q /\ M <= ChunkSize - 1
        /\ (b # q => m < M) /\ (b = q => m = M /\ m = b)
        /\ (\A v \in Int : v \in (m + 1) .. M <=> (v \in a .. b /\ v > q) \/ (v \in p .. q /\ v > b))
    <3>1. m = (IF b <= q THEN b ELSE q) /\ M = (IF b <= q THEN q ELSE b)
      BY <1>ab, <1>2, <1>7, MinOfTwo, MaxOfTwo
    <3> HIDE DEF m, M
    <3>2. q <= ChunkSize - 1
      BY <1>2, <1>7, ContainerConstants DEF Low
    <3> QED
      BY <1>ab, <1>2, <1>7, <3>1, <3>2
  <2> DEFINE u == f \o before
  <2>4. u = IF a = p THEN f ELSE Append(f, <<p, a - 1>>)
    <3>1. f \o <<>> = f /\ f \o <<<<p, a - 1>>>> = Append(f, <<p, a - 1>>)
      <4> HIDE DEF f, p
      <4> QED
        BY <2>2
    <3> QED
      BY <3>1, Zenon DEF rle16
  <2>5. Chain(u) /\ ChainValues(u) = ChainValues(f) \cup p .. (a - 1) /\ EndBefore(u, m + 1)
        /\ \A n \in Int : BeginBy(f, n) /\ p <= n => BeginBy(u, n)
    <3> HIDE DEF p, q, f, u, m, M
    <3>0. p \in Int /\ p \in Low /\ 0 <= p /\ p <= a
      BY <1>2, <1>7, ContainerConstants DEF Low
    <3>1. CASE a = p
      <4>1. p .. (a - 1) = {}
        BY <1>ab, <3>0, <3>1
      <4>2. EndBefore(f, m + 1)
        <5>1. \A i \in DOMAIN f : f[i][2] \in Int
          BY <1>2, <1>7, ChainIsApart DEF Low
        <5> QED
          BY <1>ab, <1>2, <1>7, <2>3, <3>0, <5>1 DEF EndBefore
      <4> QED
        BY <1>2, <1>7, <2>4, <3>1, <4>1, <4>2
    <3>2. CASE a # p
      <4>1. a - 1 \in Low /\ p <= a - 1
        BY <1>ab, <3>0, <3>2, ContainerConstants DEF Low
      <4>2. EndBefore(f, m + 1)
        <5>1. \A i \in DOMAIN f : f[i][2] \in Int
          BY <1>2, <1>7, ChainIsApart DEF Low
        <5> QED
          BY <1>ab, <1>2, <1>7, <2>3, <3>0, <5>1 DEF EndBefore
      <4>3. (a - 1) + 1 < m + 1 /\ m + 1 \in Int
        BY <1>ab, <2>3
      <4> QED
        BY <1>2, <1>7, <2>4, <3>0, <3>2, <4>1, <4>2, <4>3, ChainGrows
    <3> QED
      BY <3>1, <3>2
  <2>6. u \in Seq(Low \X Low)
    BY <2>5 DEF Chain
  <2>7. t = IF b = q THEN u ELSE Append(u, <<m + 1, M>>)
    <3>1. t = u \o after
      BY <2>1
    <3>2. u \o <<>> = u /\ u \o <<<<m + 1, M>>>> = Append(u, <<m + 1, M>>)
      <4> HIDE DEF u, m, M
      <4> QED
        BY <2>6
    <3> QED
      BY <3>1, <3>2, Zenon DEF rle16
  <2> HIDE DEF p, q, f, u, m, M, t
  <2>8. /\ Chain(t) /\ ChainValues(t) = ChainValues(u) \cup (m + 1) .. M
        /\ \A n \in Int : BeginBy(u, n) /\ m + 1 <= n => BeginBy(t, n)
    <3>1. CASE b = q
      <4>1. (m + 1) .. M = {}
        BY <2>3, <3>1
      <4> QED
        BY <2>5, <2>7, <3>1, <4>1
    <3>2. CASE b # q
      <4>1. m + 1 \in Low /\ M \in Low /\ m + 1 <= M
        BY <1>ab, <2>3, <3>2, ContainerConstants DEF Low
      <4> QED
        BY <2>5, <2>7, <3>2, <4>1, ChainGrows
    <3> QED
      BY <3>1, <3>2
  <2>9. \A v \in ChainValues(f) : v \in Int /\ v < p
    <3>1. \A v \in ChainValues(f) : v \in Int /\ \E i \in DOMAIN f : f[i][1] <= v /\ v <= f[i][2]
      BY <1>2, <1>7, ChainIsApart
    <3>2. \A i \in DOMAIN f : f[i][2] + 1 < p /\ f[i][2] \in Int
      BY <1>2, <1>7, ChainIsApart DEF EndBefore, Low
    <3> QED
      BY <1>2, <1>7, <3>1, <3>2
  <2>10. ChainValues(t) = SymDiff(ChainValues(s), a .. b)
    <3>1. ASSUME NEW v \in Int
          PROVE v \in ChainValues(t) <=> ~ (v \in ChainValues(s) <=> v \in a .. b)
      <4>1. v \in ChainValues(t) <=> v \in ChainValues(f) \/ v \in p .. (a - 1) \/ v \in (m + 1) .. M
        BY <2>5, <2>8
      <4>2. v \in ChainValues(s) <=> v \in ChainValues(f) \/ v \in p .. q
        BY <1>2, <1>7
      <4>3. v \in (m + 1) .. M <=> (v \in a .. b /\ v > q) \/ (v \in p .. q /\ v > b)
        BY <2>3
      <4>4. v \in ChainValues(f) => v < p
        BY <2>9
      <4> QED
        BY <1>ab, <1>2, <1>7, <4>1, <4>2, <4>3, <4>4
    <3>2. \A v : v \in ChainValues(t) \/ v \in ChainValues(s) \/ v \in a .. b => v \in Int
      BY <1>4, <2>8, ChainIsApart DEF Low
    <3> QED
      BY <3>1, <3>2 DEF SymDiff
  <2>11. ASSUME NEW n \in Int, a <= n, n \notin ChainValues(s) \cap (a .. b) PROVE BeginBy(t, n)
    <3>1. BeginBy(s, n)
      BY <1>3, <2>11
    <3>2. BeginBy(f, n) /\ p <= n
      BY <1>7, <3>1, ChainShrinks DEF f, p
    <3>3. m + 1 <= n
      <4>1. ~ (n \in p .. q /\ n \in a .. b)
        BY <1>2, <1>7, <2>11
      <4> QED
        BY <1>ab, <1>2, <1>7, <2>3, <2>11, <3>2, <4>1, MinOfTwo DEF m
    <3> QED
      BY <2>5, <2>8, <3>2, <3>3
  <2> QED
    BY <2>8, <2>10, <2>11 DEF t
<1> HIDE DEF p, q, f, t
<1> QED
  BY <1>ab, <1>2, <1>5, <1>6, <1>7

\* A function on 1 .. n is a sequence.
LEMMA FunctionIsSequence == ASSUME NEW n \in Nat, NEW X, NEW f \in [1 .. n -> X] PROVE f \in Seq(X) /\ Len(f) = n
  OBVIOUS

-----------------------------------------------------------------------------
(* Sorting, by a number that tells the elements of a set apart.             *)

KeyBelow(S, k, x) == {y \in S : k[y] < k[x]}
TellsApart(k, S) == k \in [S -> Int] /\ \A x, y \in S : k[x] = k[y] => x = y
Enumerates(s, S, k) ==
  /\ s \in [1 .. Cardinality(S) -> S]
  /\ \A x \in S : \E i \in DOMAIN s : s[i] = x
  /\ \A i, j \in DOMAIN s : i < j => k[s[i]] < k[s[j]]

\* An element's rank is the number of those below it.
LEMMA RankGrows ==
  ASSUME NEW S, IsFiniteSet(S), NEW k, TellsApart(k, S)
  PROVE  /\ \A x \in S : Cardinality(KeyBelow(S, k, x)) \in 0 .. Cardinality(S) - 1
         /\ \A x, y \in S : k[x] < k[y] => Cardinality(KeyBelow(S, k, x)) < Cardinality(KeyBelow(S, k, y))
<1> DEFINE n == Cardinality(S)
<1>0. k \in [S -> Int] /\ \A x, y \in S : k[x] = k[y] => x = y
  BY DEF TellsApart
<1>1. n \in Nat /\ \A x \in S : IsFiniteSet(KeyBelow(S, k, x)) /\ Cardinality(KeyBelow(S, k, x)) \in Nat
  <2>1. \A x \in S : KeyBelow(S, k, x) \in SUBSET S
    BY DEF KeyBelow
  <2> QED
    BY <2>1, FS_Subset, FS_CardinalityType
<1>2. ASSUME NEW x \in S, NEW y \in S, k[x] < k[y]
      PROVE  Cardinality(KeyBelow(S, k, x)) < Cardinality(KeyBelow(S, k, y))
  <2>1. KeyBelow(S, k, x) \cup {x} \in SUBSET KeyBelow(S, k, y) /\ x \notin KeyBelow(S, k, x)
    <3>1. \A w \in S : k[w] < k[x] => k[w] < k[y]
      BY <1>0, <1>2
    <3>2. ~(k[x] < k[x])
      BY <1>0
    <3> QED
      BY <1>2, <3>1, <3>2 DEF KeyBelow
  <2>2. Cardinality(KeyBelow(S, k, x) \cup {x}) = Cardinality(KeyBelow(S, k, x)) + 1
    BY <1>1, <2>1, FS_AddElement
  <2>3. Cardinality(KeyBelow(S, k, x) \cup {x}) <= Cardinality(KeyBelow(S, k, y))
    BY <1>1, <2>1, FS_Subset
  <2> QED
    BY <1>1, <2>2, <2>3
<1>3. ASSUME NEW x \in S PROVE Cardinality(KeyBelow(S, k, x)) \in 0 .. n - 1
  <2>1. KeyBelow(S, k, x) \in SUBSET (S \ {x})
    BY <1>0 DEF KeyBelow
  <2>2. IsFiniteSet(S \ {x}) /\ Cardinality(S \ {x}) = n - 1
    BY FS_RemoveElement
  <2>3. Cardinality(KeyBelow(S, k, x)) <= n - 1
    BY <2>1, <2>2, FS_Subset
  <2> QED
    BY <1>1, <2>3
<1> QED
  BY <1>2, <1>3

\* There is an element of every rank.
LEMMA RanksAreTaken ==
  ASSUME NEW S, IsFiniteSet(S), NEW k, TellsApart(k, S)
  PROVE  \A i \in 1 .. Cardinality(S) : \E x \in S : Cardinality(KeyBelow(S, k, x)) = i - 1
<1> DEFINE n == Cardinality(S)
           rank == [x \in S |-> Cardinality(KeyBelow(S, k, x))]
<1>0. k \in [S -> Int] /\ \A x, y \in S : k[x] = k[y] => x = y
  BY DEF TellsApart
<1>1. n \in Nat
  BY FS_CardinalityType
<1>2. \A x, y \in S : k[x] < k[y] => Cardinality(KeyBelow(S, k, x)) < Cardinality(KeyBelow(S, k, y))
  BY RankGrows
<1>3. \A x \in S : Cardinality(KeyBelow(S, k, x)) \in 0 .. n - 1
  BY RankGrows
<1>4. rank \in Injection(S, 0 .. n - 1)
  <2>1. rank \in [S -> 0 .. n - 1]
    BY <1>3
  <2>2. ASSUME NEW x \in S, NEW y \in S, rank[x] = rank[y] PROVE x = y
    <3>1. ~ (k[x] < k[y]) /\ ~ (k[y] < k[x])
      BY <1>1, <1>2, <1>3, <2>2
    <3> QED
      BY <1>0, <3>1
  <2> QED
    BY <2>1, <2>2, Zenon DEF Injection, IsInjective
<1>5. IsFiniteSet(0 .. n - 1) /\ Cardinality(0 .. n - 1) = n
  BY <1>1, FS_Interval
<1>6. rank \in Surjection(S, 0 .. n - 1)
  <2> HIDE DEF rank, n
  <2> QED
    BY <1>4, <1>5, FS_Injection DEF n
<1>7. \A i \in 1 .. n : \E x \in S : Cardinality(KeyBelow(S, k, x)) = i - 1
  <2> SUFFICES ASSUME NEW i \in 1 .. n PROVE \E x \in S : Cardinality(KeyBelow(S, k, x)) = i - 1
    OBVIOUS
  <2>1. i - 1 \in 0 .. n - 1
    BY <1>1
  <2>2. \E x \in S : rank[x] = i - 1
    <3> HIDE DEF rank, n
    <3> QED
      BY <1>6, <2>1 DEF Surjection
  <2> QED
    BY <2>2
<1> QED
  BY <1>7

\* Elements that are put where their rank tells are sorted.
LEMMA RankedInOrder ==
  ASSUME NEW S, IsFiniteSet(S), NEW k, TellsApart(k, S), NEW s, DOMAIN s = 1 .. Cardinality(S),
         s = [i \in DOMAIN s |-> s[i]],
         \A i \in DOMAIN s : s[i] \in S /\ Cardinality(KeyBelow(S, k, s[i])) = i - 1
  PROVE  Enumerates(s, S, k)
<1> DEFINE n == Cardinality(S)
<1>0. k \in [S -> Int] /\ \A x, y \in S : k[x] = k[y] => x = y
  BY DEF TellsApart
<1>1. n \in Nat
  BY FS_CardinalityType
<1>2. \A x, y \in S : k[x] < k[y] => Cardinality(KeyBelow(S, k, x)) < Cardinality(KeyBelow(S, k, y))
  BY RankGrows
<1>3. \A x \in S : Cardinality(KeyBelow(S, k, x)) \in 0 .. n - 1
  BY RankGrows
<1>8. \A i \in 1 .. n : s[i] \in S /\ Cardinality(KeyBelow(S, k, s[i])) = i - 1
  OBVIOUS
<1>9. DOMAIN s = 1 .. n /\ s \in [1 .. n -> S]
  <2>1. \A i \in DOMAIN s : s[i] \in S
    OBVIOUS
  <2> QED
    BY <2>1
<1> HIDE DEF n
<1>10. ASSUME NEW x \in S PROVE \E i \in DOMAIN s : s[i] = x
  <2> DEFINE i == Cardinality(KeyBelow(S, k, x)) + 1
  <2>1. i \in 1 .. n /\ Cardinality(KeyBelow(S, k, x)) = i - 1
    BY <1>1, <1>3
  <2> HIDE DEF i
  <2>2. s[i] \in S /\ Cardinality(KeyBelow(S, k, s[i])) = Cardinality(KeyBelow(S, k, x))
    BY <1>8, <2>1
  <2>3. ~ (k[s[i]] < k[x]) /\ ~ (k[x] < k[s[i]])
    BY <1>1, <1>2, <1>3, <2>2
  <2>4. s[i] = x
    BY <1>0, <2>2, <2>3
  <2> QED
    BY <1>9, <2>1, <2>4
<1>11. ASSUME NEW i \in DOMAIN s, NEW j \in DOMAIN s, i < j PROVE k[s[i]] < k[s[j]]
  <2>1. s[i] \in S /\ s[j] \in S /\ Cardinality(KeyBelow(S, k, s[i])) = i - 1 /\ Cardinality(KeyBelow(S, k, s[j])) = j - 1
    BY <1>8, <1>9
  <2>2. i \in Int /\ j \in Int
    BY <1>9, <1>1
  <2>3. s[i] # s[j]
    BY <1>11, <2>1, <2>2
  <2>4. ~ (k[s[j]] < k[s[i]])
    BY <1>1, <1>2, <1>3, <1>11, <2>1, <2>2
  <2> QED
    BY <1>0, <2>1, <2>3, <2>4
<1> QED
  BY <1>9, <1>10, <1>11 DEF Enumerates, n

-----------------------------------------------------------------------------
(* Runs in the order in which they begin.                                   *)

\* Runs that may touch but do not overlap.
Separate(R) ==
  /\ R \in SUBSET (Low \X Low)
  /\ \A r \in R : r[1] <= r[2]
  /\ \A r, s \in R : r # s => r[2] < s[1] \/ s[2] < r[1]

InOrder(s) ==
  /\ s \in Seq(Low \X Low)
  /\ \A i \in DOMAIN s : s[i][1] <= s[i][2]
  /\ \A i, j \in DOMAIN s : i < j => s[i][1] <= s[j][1]

\* Runs that are apart have no value in common.
LEMMA ApartAreSeparate == ASSUME NEW R, Apart(R) PROVE Separate(R)
<1>1. \A r \in R : r[1] \in Int /\ r[2] \in Int
  BY ApartHaveValues DEF Low
<1> QED
  BY <1>1 DEF Apart, Separate

\* Runs without common values: their ends, and their values.
LEMMA SeparateHaveValues ==
  ASSUME NEW R, Separate(R)
  PROVE  /\ RunValues(R) \in SUBSET Low /\ IsFiniteSet(R)
         /\ \A v : v \in RunValues(R) <=> v \in Int /\ \E r \in R : r[1] <= v /\ v <= r[2]
         /\ RunValues(R) = {} <=> R = {}
         /\ \A r \in R : r = <<r[1], r[2]>> /\ r[1] \in Low /\ r[2] \in Low /\ r[1] <= r[2]
                         /\ r[1] \in Int /\ r[2] \in Int
         /\ \A r, s \in R : r # s => r[2] < s[1] \/ s[2] < r[1]
<1>1. IsFiniteSet(Low \X Low)
  BY FS_Product, LowIsFinite
<1>2. IsFiniteSet(R)
  BY <1>1, FS_Subset DEF Separate
<1>3. \A r \in R : r = <<r[1], r[2]>> /\ r[1] \in Low /\ r[2] \in Low /\ r[1] <= r[2]
                   /\ r[1] \in Int /\ r[2] \in Int
  <2>1. \A r \in Low \X Low : r = <<r[1], r[2]>> /\ r[1] \in Low /\ r[2] \in Low
    OBVIOUS
  <2>2. Low \subseteq Int
    BY DEF Low
  <2> QED
    BY <2>1, <2>2 DEF Separate
<1> QED
  BY <1>2, <1>3, RunsHaveValues DEF Separate

\* Each value of a set as a run.
LEMMA RunsOfValues ==
  ASSUME NEW S \in SUBSET Low
  PROVE  Separate(ValueRuns(S)) /\ RunValues(ValueRuns(S)) = S
<1>0. \A v \in S : v \in Low /\ v \in Int
  BY DEF Low
<1>1. \A r : r \in ValueRuns(S) <=> \E v \in S : r = <<v, v>>
  BY DEF ValueRuns, rle16
<1>2. \A r \in ValueRuns(S) : r \in Low \X Low /\ r[1] = r[2] /\ r[1] \in S /\ r = <<r[1], r[1]>> /\ r[1] \in Int
  BY <1>0, <1>1
<1>3. \A r, s \in ValueRuns(S) : r # s => r[2] < s[1] \/ s[2] < r[1]
  <2> SUFFICES ASSUME NEW r \in ValueRuns(S), NEW s \in ValueRuns(S), r # s PROVE r[2] < s[1] \/ s[2] < r[1]
    OBVIOUS
  <2>1. r[1] # s[1]
    BY <1>2
  <2> QED
    BY <1>2, <2>1
<1>4. \A r \in ValueRuns(S) : r[1] <= r[2]
  BY <1>2
<1>5. Separate(ValueRuns(S))
  BY <1>2, <1>3, <1>4 DEF Separate
<1>6. \A v : v \in RunValues(ValueRuns(S)) <=> v \in Int /\ \E r \in ValueRuns(S) : r[1] <= v /\ v <= r[2]
  BY <1>5, SeparateHaveValues
<1>7. \A v \in Int : (\E r \in ValueRuns(S) : r[1] <= v /\ v <= r[2]) => v \in S
  BY <1>2
<1>8. \A v \in S : \E r \in ValueRuns(S) : r[1] <= v /\ v <= r[2]
  <2> TAKE v \in S
  <2>1. <<v, v>> \in ValueRuns(S) /\ <<v, v>>[1] = v /\ <<v, v>>[2] = v /\ v <= v
    BY <1>0, <1>1
  <2> QED
    BY <2>1
<1>9. RunValues(ValueRuns(S)) = S
  BY <1>0, <1>6, <1>7, <1>8
<1> QED
  BY <1>5, <1>9

\* The sorted runs are the runs, each once, in order.
LEMMA SortedRunsInOrder ==
  ASSUME NEW R, Separate(R)
  PROVE  /\ InOrder(SortedRuns(R))
         /\ \A i \in DOMAIN SortedRuns(R) : SortedRuns(R)[i] \in R
         /\ \A r \in R : \E i \in DOMAIN SortedRuns(R) : SortedRuns(R)[i] = r
         /\ \A i, j \in DOMAIN SortedRuns(R) : i < j => SortedRuns(R)[i] # SortedRuns(R)[j]
<1> DEFINE k == [r \in R |-> r[1]]
           s == SortedRuns(R)
<1>1. IsFiniteSet(R) /\ Cardinality(R) \in Nat
  BY SeparateHaveValues, FS_CardinalityType
<1>2. TellsApart(k, R)
  <2>1. \A r \in R : k[r] \in Int
    BY SeparateHaveValues
  <2>2. \A r, q \in R : r[1] = q[1] => r = q
    BY SeparateHaveValues
  <2> QED
    BY <2>1, <2>2 DEF TellsApart
<1> HIDE DEF k, s
<1>3. /\ DOMAIN s = 1 .. Cardinality(R) /\ s = [i \in DOMAIN s |-> s[i]]
      /\ \A i \in DOMAIN s : s[i] = CHOOSE x \in R : Cardinality({y \in R : y[1] < x[1]}) = i - 1
  <2> DEFINE pick(i) == CHOOSE x \in R : Cardinality({y \in R : y[1] < x[1]}) = i - 1
  <2>1. s = [i \in 1 .. Cardinality(R) |-> pick(i)]
    BY Zenon DEF SortedRuns, Sorted, s
  <2> HIDE DEF pick
  <2>2. DOMAIN s = 1 .. Cardinality(R) /\ s = [i \in DOMAIN s |-> s[i]] /\ \A i \in DOMAIN s : s[i] = pick(i)
    BY <2>1
  <2> QED
    BY <2>2, Zenon DEF pick
<1>a. \A x \in R : {y \in R : y[1] < x[1]} = KeyBelow(R, k, x)
  BY DEF KeyBelow, k
<1>b. \A i \in DOMAIN s : s[i] \in R /\ Cardinality(KeyBelow(R, k, s[i])) = i - 1
  <2> SUFFICES ASSUME NEW i \in DOMAIN s PROVE s[i] \in R /\ Cardinality(KeyBelow(R, k, s[i])) = i - 1
    OBVIOUS
  <2>1. \E x \in R : Cardinality(KeyBelow(R, k, x)) = i - 1
    BY <1>1, <1>2, <1>3, RanksAreTaken
  <2>2. \E x \in R : Cardinality({y \in R : y[1] < x[1]}) = i - 1
    BY <1>a, <2>1
  <2>3. s[i] \in R /\ Cardinality({y \in R : y[1] < s[i][1]}) = i - 1
    BY <1>3, <2>2
  <2> QED
    BY <1>a, <2>3
<1>4. Enumerates(s, R, k)
  BY <1>1, <1>2, <1>3, <1>b, RankedInOrder
<1>5. s \in [1 .. Cardinality(R) -> R] /\ DOMAIN s = 1 .. Cardinality(R)
  BY <1>4, Zenon DEF Enumerates
<1>6. \A i \in DOMAIN s : s[i] \in R
  BY <1>5
<1>7. \A i \in DOMAIN s : s[i] \in Low \X Low /\ s[i][1] <= s[i][2] /\ k[s[i]] = s[i][1] /\ s[i][1] \in Int
  BY <1>6, SeparateHaveValues DEF Separate, k
<1>8. s \in Seq(Low \X Low)
  <2>1. s \in [1 .. Cardinality(R) -> Low \X Low]
    BY <1>5, <1>7
  <2> QED
    BY <1>1, <2>1, FunctionIsSequence
<1>9. \A i, j \in DOMAIN s : i < j => s[i][1] < s[j][1]
  BY <1>4, <1>7 DEF Enumerates
<1>10. InOrder(s)
  <2>1. \A i, j \in DOMAIN s : i < j => s[i][1] <= s[j][1]
    BY <1>7, <1>9
  <2> QED
    BY <1>7, <1>8, <2>1 DEF InOrder
<1>11. \A i, j \in DOMAIN s : i < j => s[i] # s[j]
  <2> SUFFICES ASSUME NEW i \in DOMAIN s, NEW j \in DOMAIN s, i < j, s[i] = s[j] PROVE FALSE
    OBVIOUS
  <2> QED
    BY <1>7, <1>9
<1> QED
  BY <1>4, <1>6, <1>10, <1>11 DEF Enumerates, s

-----------------------------------------------------------------------------
(* Loops that put runs behind each other.                                   *)

AppendsFrom(start, seq) == Loop(run_container_append, start, seq)

\* A loop is the last of the states that one step after another makes.
LEMMA LoopOfAppends ==
  ASSUME NEW start, NEW seq, Len(seq) \in Nat
  PROVE  \E f : /\ f[0] = start
                /\ \A n \in 1 .. Len(seq) : f[n] = run_container_append(f[n - 1], seq[n])
                /\ AppendsFrom(start, seq) = f[Len(seq)]
<1> DEFINE Next(a, n) == run_container_append(a, seq[n])
           Is(f, m) == f = [n \in 0 .. m |-> IF n = 0 THEN start ELSE Next(f[n - 1], n)]
           T == {m \in Nat : \E f : Is(f, m)}
<1>1. 0 \in T
  <2> HIDE DEF Next
  <2>1. Is([n \in 0 .. 0 |-> start], 0)
    OBVIOUS
  <2> QED
    BY <2>1
<1>2. ASSUME NEW m \in T PROVE m + 1 \in T
  <2> HIDE DEF Next
  <2>1. PICK f : Is(f, m)
    BY <1>2
  <2> DEFINE g == [n \in 0 .. m + 1 |-> IF n \in 0 .. m THEN f[n] ELSE Next(f[m], m + 1)]
  <2>2. \A n \in 0 .. m : f[n] = IF n = 0 THEN start ELSE Next(f[n - 1], n)
    BY <2>1
  <2>3. ASSUME NEW n \in 0 .. m + 1 PROVE g[n] = IF n = 0 THEN start ELSE Next(g[n - 1], n)
    <3>1. CASE n = 0
      BY <2>2, <3>1
    <3>2. CASE n \in 1 .. m
      BY <2>2, <3>2
    <3>3. CASE n = m + 1
      BY <3>3
    <3> QED
      BY <3>1, <3>2, <3>3
  <2>4. g = [n \in 0 .. m + 1 |-> g[n]]
    OBVIOUS
  <2>5. Is(g, m + 1)
    <3> HIDE DEF g
    <3> QED
      BY <2>3, <2>4
  <2>6. m + 1 \in Nat
    OBVIOUS
  <2> HIDE DEF Is, g
  <2> QED
    BY <2>5, <2>6
<1>3. T = Nat
  <2> HIDE DEF T
  <2>1. T \in SUBSET Nat
    BY DEF T
  <2> QED
    BY <1>1, <1>2, <2>1, NumbersByInduction
<1> DEFINE h == CHOOSE f : Is(f, Len(seq))
<1>4. Is(h, Len(seq))
  <2>1. \E f : Is(f, Len(seq))
    BY <1>3
  <2> HIDE DEF Is
  <2> QED
    BY <2>1
<1>5. AppendsFrom(start, seq) = h[Len(seq)]
  BY Zenon DEF AppendsFrom, Loop
<1>6. h[0] = start /\ \A n \in 1 .. Len(seq) : h[n] = Next(h[n - 1], n)
  <2> HIDE DEF h, Next
  <2> QED
    BY <1>4
<1> HIDE DEF h
<1> QED
  BY <1>5, <1>6

ExclusionsFrom(start, seq) == Loop(run_container_smart_append_exclusive, start, seq)

\* The same for the step that takes out what two runs share.
LEMMA LoopOfExclusions ==
  ASSUME NEW start, NEW seq, Len(seq) \in Nat
  PROVE  \E f : /\ f[0] = start
                /\ \A n \in 1 .. Len(seq) : f[n] = run_container_smart_append_exclusive(f[n - 1], seq[n])
                /\ ExclusionsFrom(start, seq) = f[Len(seq)]
<1> DEFINE Next(a, n) == run_container_smart_append_exclusive(a, seq[n])
           Is(f, m) == f = [n \in 0 .. m |-> IF n = 0 THEN start ELSE Next(f[n - 1], n)]
           T == {m \in Nat : \E f : Is(f, m)}
<1>1. 0 \in T
  <2> HIDE DEF Next
  <2>1. Is([n \in 0 .. 0 |-> start], 0)
    OBVIOUS
  <2> QED
    BY <2>1
<1>2. ASSUME NEW m \in T PROVE m + 1 \in T
  <2> HIDE DEF Next
  <2>1. PICK f : Is(f, m)
    BY <1>2
  <2> DEFINE g == [n \in 0 .. m + 1 |-> IF n \in 0 .. m THEN f[n] ELSE Next(f[m], m + 1)]
  <2>2. \A n \in 0 .. m : f[n] = IF n = 0 THEN start ELSE Next(f[n - 1], n)
    BY <2>1
  <2>3. ASSUME NEW n \in 0 .. m + 1 PROVE g[n] = IF n = 0 THEN start ELSE Next(g[n - 1], n)
    <3>1. CASE n = 0
      BY <2>2, <3>1
    <3>2. CASE n \in 1 .. m
      BY <2>2, <3>2
    <3>3. CASE n = m + 1
      BY <3>3
    <3> QED
      BY <3>1, <3>2, <3>3
  <2>4. g = [n \in 0 .. m + 1 |-> g[n]]
    OBVIOUS
  <2>5. Is(g, m + 1)
    <3> HIDE DEF g
    <3> QED
      BY <2>3, <2>4
  <2>6. m + 1 \in Nat
    OBVIOUS
  <2> HIDE DEF Is, g
  <2> QED
    BY <2>5, <2>6
<1>3. T = Nat
  <2> HIDE DEF T
  <2>1. T \in SUBSET Nat
    BY DEF T
  <2> QED
    BY <1>1, <1>2, <2>1, NumbersByInduction
<1> DEFINE h == CHOOSE f : Is(f, Len(seq))
<1>4. Is(h, Len(seq))
  <2>1. \E f : Is(f, Len(seq))
    BY <1>3
  <2> HIDE DEF Is
  <2> QED
    BY <2>1
<1>5. ExclusionsFrom(start, seq) = h[Len(seq)]
  BY Zenon DEF ExclusionsFrom, Loop
<1>6. h[0] = start /\ \A n \in 1 .. Len(seq) : h[n] = Next(h[n - 1], n)
  <2> HIDE DEF h, Next
  <2> QED
    BY <1>4
<1> HIDE DEF h
<1> QED
  BY <1>5, <1>6

\* Runs in order: their ends, and their values.
LEMMA InOrderHaveValues ==
  ASSUME NEW s, InOrder(s)
  PROVE  /\ DOMAIN s = 1 .. Len(s) /\ Len(s) \in Nat
         /\ \A i \in DOMAIN s : /\ s[i][1] \in Low /\ s[i][2] \in Low /\ s[i] = <<s[i][1], s[i][2]>>
                                /\ s[i][1] <= s[i][2] /\ s[i][1] \in Int /\ s[i][2] \in Int
         /\ \A i, j \in DOMAIN s : i < j => s[i][1] <= s[j][1]
         /\ \A v : v \in ChainValues(s) <=> v \in Int /\ \E i \in DOMAIN s : s[i][1] <= v /\ v <= s[i][2]
<1>1. DOMAIN s = 1 .. Len(s) /\ Len(s) \in Nat
  BY DEF InOrder
<1>2. \A i \in DOMAIN s : s[i] \in Low \X Low /\ s[i][1] <= s[i][2]
  BY DEF InOrder
<1>3. \A x \in Low \X Low : x[1] \in Low /\ x[2] \in Low /\ x = <<x[1], x[2]>> /\ x[1] \in Int /\ x[2] \in Int
  <2>1. \A y \in Low : y \in Int
    BY DEF Low
  <2>2. \A x \in Low \X Low : x[1] \in Low /\ x[2] \in Low /\ x = <<x[1], x[2]>>
    OBVIOUS
  <2> QED
    BY <2>1, <2>2
<1>4. \A r : r \in ToSet(s) <=> \E i \in DOMAIN s : r = s[i]
  BY DEF ToSet
<1>5. ToSet(s) \in SUBSET (Low \X Low) /\ \A r \in ToSet(s) : r[1] <= r[2]
  BY <1>2, <1>4
<1>6. \A v : v \in ChainValues(s) <=> v \in Int /\ \E r \in ToSet(s) : r[1] <= v /\ v <= r[2]
  BY <1>5, RunsHaveValues DEF ChainValues
<1>7. \A v : v \in ChainValues(s) <=> v \in Int /\ \E i \in DOMAIN s : s[i][1] <= v /\ v <= s[i][2]
  BY <1>4, <1>6
<1>8. \A i, j \in DOMAIN s : i < j => s[i][1] <= s[j][1]
  BY DEF InOrder
<1> QED
  BY <1>1, <1>2, <1>3, <1>7, <1>8

\* Runs put behind each other in order: the union of their values.
LEMMA AppendedInOrder ==
  ASSUME NEW s, InOrder(s), s # <<>>
  PROVE  \E R : AppendedRuns(s) = Run(R) /\ Apart(R) /\ RunValues(R) = ChainValues(s)
<1> DEFINE rest == Tail(s)
           Covers(i, v) == s[i][1] <= v /\ v <= s[i][2]
<1>0. /\ DOMAIN s = 1 .. Len(s) /\ Len(s) \in Nat \ {0} /\ 1 \in DOMAIN s
      /\ Len(rest) = Len(s) - 1 /\ Len(rest) \in Nat /\ \A n \in 1 .. Len(rest) : rest[n] = s[n + 1]
  <2>1. s \in Seq(Low \X Low)
    BY DEF InOrder
  <2> QED
    BY <2>1
<1>1. \A i \in DOMAIN s : /\ s[i][1] \in Low /\ s[i][2] \in Low /\ s[i] = <<s[i][1], s[i][2]>>
                          /\ s[i][1] <= s[i][2] /\ s[i][1] \in Int /\ s[i][2] \in Int
  BY InOrderHaveValues
<1>2. \A i, j \in DOMAIN s : i < j => s[i][1] <= s[j][1]
  BY InOrderHaveValues
<1> HIDE DEF rest
<1>3. PICK f : /\ f[0] = <<s[1]>>
               /\ \A n \in 1 .. Len(rest) : f[n] = run_container_append(f[n - 1], rest[n])
               /\ AppendsFrom(<<s[1]>>, rest) = f[Len(rest)]
  <2>1. Len(rest) \in Nat
    BY <1>0
  <2> QED
    BY <2>1, LoopOfAppends
<1> DEFINE Inv(n) == /\ Chain(f[n]) /\ f[n] # <<>> /\ BeginBy(f[n], s[n + 1][1])
                     /\ \A v : v \in ChainValues(f[n]) <=> v \in Int /\ \E i \in 1 .. n + 1 : Covers(i, v)
           T == {n \in Nat : n < Len(s) => Inv(n)}
<1>4. Inv(0)
  <2> DEFINE a == s[1][1]
             b == s[1][2]
  <2>1. f[0] = Append(<<>>, <<a, b>>) /\ a \in Low /\ b \in Low /\ a <= b /\ a \in Int /\ b \in Int
    BY <1>0, <1>1, <1>3
  <2>2. Chain(<<>>) /\ ChainValues(<<>>) = {} /\ EndBefore(<<>>, a) /\ BeginBy(<<>>, a)
    BY ChainOfNone
  <2> HIDE DEF a, b
  <2>3. Chain(f[0]) /\ ChainValues(f[0]) = {} \cup a .. b /\ BeginBy(f[0], a)
    <3>1. a <= a
      BY <2>1
    <3>2. <<>> = <<>> /\ Chain(Append(<<>>, <<a, b>>)) /\ ChainValues(Append(<<>>, <<a, b>>)) = ChainValues(<<>>) \cup a .. b
          /\ BeginBy(Append(<<>>, <<a, b>>), a)
      BY <2>1, <2>2, <3>1, ChainGrows
    <3> QED
      BY <2>1, <2>2, <3>2
  <2>4. f[0] # <<>>
    BY <2>1
  <2>5. \A v : v \in ChainValues(f[0]) <=> v \in Int /\ \E i \in 1 .. 1 : Covers(i, v)
    BY <2>1, <2>3 DEF a, b
  <2> QED
    BY <2>3, <2>4, <2>5 DEF a
<1>5. ASSUME NEW n \in Nat, n + 1 < Len(s), Inv(n) PROVE Inv(n + 1)
  <2> DEFINE a == s[n + 2][1]
             b == s[n + 2][2]
  <2>1. n + 1 \in DOMAIN s /\ n + 2 \in DOMAIN s /\ n + 1 \in 1 .. Len(rest)
    BY <1>0, <1>5
  <2>2. f[n + 1] = run_container_append(f[n], s[n + 2])
    <3>1. (n + 1) - 1 = n /\ (n + 1) + 1 = n + 2
      OBVIOUS
    <3> QED
      BY <1>0, <1>3, <2>1, <3>1
  <2>3. s[n + 2] = <<a, b>> /\ a \in Low /\ b \in Low /\ a <= b /\ a \in Int /\ b \in Int
    BY <1>1, <2>1
  <2>4. BeginBy(f[n], a)
    <3>1. s[n + 1][1] <= a /\ s[n + 1][1] \in Int
      BY <1>1, <1>2, <2>1
    <3>2. \A i \in DOMAIN f[n] : f[n][i][1] \in Int
      BY <1>5, ChainIsApart DEF Low
    <3> HIDE DEF a
    <3> QED
      BY <1>5, <2>3, <3>1, <3>2 DEF BeginBy
  <2> HIDE DEF a, b
  <2>5. /\ Chain(f[n + 1]) /\ f[n + 1] # <<>> /\ ChainValues(f[n + 1]) = ChainValues(f[n]) \cup a .. b
        /\ BeginBy(f[n + 1], a)
    BY <1>5, <2>2, <2>3, <2>4, RunAppended
  <2>6. \A v : v \in ChainValues(f[n + 1]) <=> v \in Int /\ \E i \in 1 .. n + 2 : Covers(i, v)
    <3>1. \A v : v \in a .. b <=> v \in Int /\ Covers(n + 2, v)
      BY <2>3 DEF a, b
    <3>2. \A i : i \in 1 .. n + 2 <=> i \in 1 .. n + 1 \/ i = n + 2
      OBVIOUS
    <3> HIDE DEF Covers
    <3> QED
      BY <1>5, <2>5, <3>1, <3>2
  <2>7. (n + 1) + 1 = n + 2
    OBVIOUS
  <2> HIDE DEF Covers
  <2> QED
    BY <2>5, <2>6, <2>7 DEF a
<1> HIDE DEF Inv
<1>6. T = Nat
  <2>1. T \in SUBSET Nat /\ 0 \in T
    BY <1>4
  <2>2. \A n \in T : n + 1 \in T
    BY <1>0, <1>5
  <2> HIDE DEF T
  <2> QED
    BY <2>1, <2>2, NumbersByInduction
<1>7. Inv(Len(rest))
  BY <1>0, <1>6
<1> DEFINE t == f[Len(rest)]
<1>8. Chain(t) /\ \A v : v \in ChainValues(t) <=> v \in Int /\ \E i \in 1 .. Len(s) : Covers(i, v)
  <2>1. Len(rest) + 1 = Len(s)
    BY <1>0
  <2> HIDE DEF Covers
  <2> QED
    BY <1>7, <2>1 DEF Inv
<1>9. AppendedRuns(s) = Run(ToSet(t))
  BY <1>3, Zenon DEF AppendedRuns, AppendsFrom, rest
<1> HIDE DEF t
<1>10. Apart(ToSet(t)) /\ RunValues(ToSet(t)) = ChainValues(t)
  BY <1>8, ChainIsApart DEF ChainValues
<1>11. ChainValues(t) = ChainValues(s)
  <2>1. \A v : v \in ChainValues(s) <=> v \in Int /\ \E i \in DOMAIN s : Covers(i, v)
    BY InOrderHaveValues
  <2> HIDE DEF Covers
  <2> QED
    BY <1>0, <1>8, <2>1
<1> QED
  BY <1>9, <1>10, <1>11

\* A run of a sequence has a value; no value is in three runs, those of a first chain counted too.
InRun(s, i, v) == s[i][1] <= v /\ v <= s[i][2]
AtMostTwice(base, s) ==
  /\ \A v \in base : \A i, j \in DOMAIN s : i < j => ~ (InRun(s, i, v) /\ InRun(s, j, v))
  /\ \A v \in Int : \A i, j, k \in DOMAIN s : i < j /\ j < k => ~ (InRun(s, i, v) /\ InRun(s, j, v) /\ InRun(s, k, v))
Once(base, s, n, v) ==
  \/ v \in base /\ \A i \in 1 .. n : ~ InRun(s, i, v)
  \/ v \notin base /\ \E i \in 1 .. n : InRun(s, i, v) /\ \A j \in 1 .. n : j # i => ~ InRun(s, j, v)

\* One run more changes for its values whether they were met once.
LEMMA OnceOrNot ==
  ASSUME NEW base, NEW s, DOMAIN s = 1 .. Len(s), Len(s) \in Nat, AtMostTwice(base, s),
         NEW n \in Nat, n + 1 \in DOMAIN s, NEW v \in Int
  PROVE  Once(base, s, n + 1, v) <=> ~ (Once(base, s, n, v) <=> InRun(s, n + 1, v))
<1> DEFINE C(i) == InRun(s, i, v)
<1>1. \A i : i \in 1 .. n + 1 <=> i \in 1 .. n \/ i = n + 1
  OBVIOUS
<1>2. \A i \in 1 .. n : i \in DOMAIN s /\ i < n + 1 /\ i # n + 1
  OBVIOUS
<1>3. v \in base => \A i \in 1 .. n : ~ (C(i) /\ C(n + 1))
  BY <1>2 DEF AtMostTwice
<1>4. \A i, j \in 1 .. n : i # j => ~ (C(i) /\ C(j) /\ C(n + 1))
  <2> SUFFICES ASSUME NEW i \in 1 .. n, NEW j \in 1 .. n, i # j PROVE ~ (C(i) /\ C(j) /\ C(n + 1))
    OBVIOUS
  <2>1. i < j \/ j < i
    OBVIOUS
  <2> QED
    BY <1>2, <2>1 DEF AtMostTwice
<1> HIDE DEF C
<1>5. Once(base, s, n, v) <=> \/ v \in base /\ \A i \in 1 .. n : ~ C(i)
                              \/ v \notin base /\ \E i \in 1 .. n : C(i) /\ \A j \in 1 .. n : j # i => ~ C(j)
  BY DEF Once, C
<1>6. Once(base, s, n + 1, v) <=> \/ v \in base /\ \A i \in 1 .. n + 1 : ~ C(i)
                                  \/ v \notin base /\ \E i \in 1 .. n + 1 : C(i) /\ \A j \in 1 .. n + 1 : j # i => ~ C(j)
  BY DEF Once, C
<1>7. CASE C(n + 1)
  <2>1. v \in base => Once(base, s, n, v)
    BY <1>3, <1>5, <1>7
  <2>2. ~ (v \in base /\ \A i \in 1 .. n + 1 : ~ C(i))
    BY <1>1, <1>7
  <2>3. ASSUME v \notin base PROVE Once(base, s, n + 1, v) <=> \A i \in 1 .. n : ~ C(i)
    BY <1>1, <1>2, <1>6, <1>7, <2>3
  <2>4. ASSUME v \notin base PROVE Once(base, s, n, v) <=> \E i \in 1 .. n : C(i)
    BY <1>4, <1>5, <1>7, <2>4
  <2>5. v \in base => ~ Once(base, s, n + 1, v)
    BY <1>6, <2>2
  <2> QED
    BY <1>7, <2>1, <2>3, <2>4, <2>5 DEF C
<1>8. CASE ~ C(n + 1)
  BY <1>1, <1>2, <1>5, <1>6, <1>8 DEF C
<1> QED
  BY <1>7, <1>8

\* Runs put behind a chain, each of which takes out what it shares: the values that are in one of them only.
LEMMA ExcludedInOrder ==
  ASSUME NEW chain, Chain(chain), NEW s, InOrder(s), s # <<>> => BeginBy(chain, s[1][1]),
         AtMostTwice(ChainValues(chain), s)
  PROVE  LET R == ToSet(ExclusionsFrom(chain, s))
         IN  Apart(R) /\ \A v : v \in RunValues(R) <=> v \in Int /\ Once(ChainValues(chain), s, Len(s), v)
<1> DEFINE base == ChainValues(chain)
<1>0. /\ DOMAIN s = 1 .. Len(s) /\ Len(s) \in Nat
      /\ \A i \in DOMAIN s : /\ s[i][1] \in Low /\ s[i][2] \in Low /\ s[i] = <<s[i][1], s[i][2]>>
                             /\ s[i][1] <= s[i][2] /\ s[i][1] \in Int /\ s[i][2] \in Int
      /\ \A i, j \in DOMAIN s : i < j => s[i][1] <= s[j][1]
  BY InOrderHaveValues
<1>1. base \in SUBSET Low /\ \A v \in base : v \in Int
  BY ChainIsApart DEF Low
<1>2. PICK f : /\ f[0] = chain
               /\ \A n \in 1 .. Len(s) : f[n] = run_container_smart_append_exclusive(f[n - 1], s[n])
               /\ ExclusionsFrom(chain, s) = f[Len(s)]
  <2>1. Len(s) \in Nat
    BY <1>0
  <2> QED
    BY <2>1, LoopOfExclusions
<1> HIDE DEF base
<1> DEFINE Inv(n) == /\ Chain(f[n])
                     /\ \A v : v \in ChainValues(f[n]) <=> v \in Int /\ Once(base, s, n, v)
                     /\ \A m \in DOMAIN s : m > n => BeginBy(f[n], s[m][1])
           T == {n \in Nat : n <= Len(s) => Inv(n)}
<1>3. Inv(0)
  <2>1. \A v : Once(base, s, 0, v) <=> v \in base
    BY DEF Once
  <2>2. ASSUME NEW m \in DOMAIN s PROVE BeginBy(chain, s[m][1])
    <3>1. s # <<>> /\ 1 \in DOMAIN s /\ m \in Int /\ (m = 1 \/ 1 < m)
      BY <1>0
    <3>2. s[1][1] <= s[m][1] /\ s[1][1] \in Int /\ s[m][1] \in Int
      BY <1>0, <3>1
    <3>3. \A i \in DOMAIN chain : chain[i][1] \in Int
      BY ChainIsApart DEF Low
    <3> QED
      BY <3>1, <3>2, <3>3 DEF BeginBy
  <2> QED
    BY <1>1, <1>2, <2>1, <2>2 DEF base
<1>4. ASSUME NEW n \in Nat, n < Len(s), Inv(n) PROVE Inv(n + 1)
  <2> DEFINE a == s[n + 1][1]
             b == s[n + 1][2]
  <2>1. n + 1 \in DOMAIN s /\ n + 1 \in 1 .. Len(s) /\ (n + 1) - 1 = n
    BY <1>0, <1>4
  <2>2. f[n + 1] = run_container_smart_append_exclusive(f[n], <<a, b>>) /\ a \in Low /\ b \in Low /\ a <= b /\ a \in Int /\ b \in Int
    BY <1>0, <1>2, <2>1
  <2>3. BeginBy(f[n], a)
    BY <1>4, <2>1
  <2> HIDE DEF a, b
  <2>4. /\ Chain(f[n + 1]) /\ ChainValues(f[n + 1]) = SymDiff(ChainValues(f[n]), a .. b)
        /\ \A x \in Int : a <= x /\ x \notin ChainValues(f[n]) \cap (a .. b) => BeginBy(f[n + 1], x)
    BY <1>4, <2>2, <2>3, RunExcluded
  <2>5. \A v : v \in a .. b <=> v \in Int /\ InRun(s, n + 1, v)
    BY <2>2 DEF a, b, InRun
  <2>6. ASSUME NEW v \in Int PROVE Once(base, s, n + 1, v) <=> ~ (Once(base, s, n, v) <=> InRun(s, n + 1, v))
    BY <1>0, <2>1, OnceOrNot DEF base
  <2>7. \A v : v \in ChainValues(f[n + 1]) <=> v \in Int /\ Once(base, s, n + 1, v)
    <3>1. \A v : v \in SymDiff(ChainValues(f[n]), a .. b) <=> ~ (v \in ChainValues(f[n]) <=> v \in a .. b)
      BY DEF SymDiff
    <3> QED
      BY <1>4, <2>4, <2>5, <2>6, <3>1
  <2>8. ASSUME NEW m \in DOMAIN s, m > n + 1 PROVE BeginBy(f[n + 1], s[m][1])
    <3> DEFINE x == s[m][1]
    <3>1. x \in Int /\ a <= x /\ InRun(s, m, x)
      BY <1>0, <2>1, <2>8 DEF a, InRun
    <3> HIDE DEF x
    <3>2. ASSUME x \in ChainValues(f[n]), x \in a .. b PROVE FALSE
      <4>1. Once(base, s, n, x) /\ InRun(s, n + 1, x)
        BY <1>4, <2>5, <3>2
      <4>2. m \in Int /\ n + 1 < m
        BY <1>0, <2>8
      <4>3. CASE x \in base
        BY <2>1, <2>8, <3>1, <4>1, <4>2, <4>3 DEF AtMostTwice, base
      <4>4. CASE x \notin base
        <5>1. PICK i \in 1 .. n : InRun(s, i, x)
          BY <4>1, <4>4 DEF Once
        <5>2. i \in DOMAIN s /\ i < n + 1
          BY <1>0, <2>1
        <5> QED
          BY <2>1, <2>8, <3>1, <4>1, <4>2, <5>1, <5>2 DEF AtMostTwice
      <4> QED
        BY <4>3, <4>4
    <3> QED
      BY <2>4, <3>1, <3>2 DEF x
  <2> QED
    BY <2>4, <2>7, <2>8
<1> HIDE DEF Inv
<1>5. T = Nat
  <2>1. T \in SUBSET Nat /\ 0 \in T
    BY <1>3
  <2>2. \A n \in T : n + 1 \in T
    BY <1>0, <1>4
  <2> HIDE DEF T
  <2> QED
    BY <2>1, <2>2, NumbersByInduction
<1>6. Inv(Len(s))
  BY <1>0, <1>5
<1> DEFINE t == f[Len(s)]
<1>7. Chain(t) /\ \A v : v \in ChainValues(t) <=> v \in Int /\ Once(base, s, Len(s), v)
  BY <1>6 DEF Inv
<1>8. ExclusionsFrom(chain, s) = t
  BY <1>2
<1> HIDE DEF t
<1>9. Apart(ToSet(t)) /\ RunValues(ToSet(t)) = ChainValues(t)
  BY <1>7, ChainIsApart DEF ChainValues
<1> QED
  BY <1>7, <1>8, <1>9 DEF base

\* The runs of a sequence are those of two sets, each of them once.
Shuffles(s, tag, R1, R2) ==
  /\ tag \in [DOMAIN s -> {1, 2}]
  /\ \A i \in DOMAIN s : s[i] \in IF tag[i] = 1 THEN R1 ELSE R2
  /\ \A r \in R1 : \E i \in DOMAIN s : tag[i] = 1 /\ s[i] = r
  /\ \A r \in R2 : \E i \in DOMAIN s : tag[i] = 2 /\ s[i] = r
  /\ \A i, j \in DOMAIN s : i # j /\ tag[i] = tag[j] => s[i] # s[j]

\* The runs of two sets are merged in order, each with the set it came from.
LEMMA MergedRunsInOrder ==
  ASSUME NEW R1, Separate(R1), NEW R2, Separate(R2)
  PROVE  InOrder(MergedRuns(R1, R2)) /\ \E tag : Shuffles(MergedRuns(R1, R2), tag, R1, R2)
<1> DEFINE P == (R1 \X {1}) \cup (R2 \X {2})
           k == [p \in P |-> 3 * p[1][1] + p[2]]
           Before(p, q) == p[1][1] < q[1][1] \/ (p[1][1] = q[1][1] /\ p[2] < q[2])
           pick(i) == CHOOSE x \in P : Cardinality({y \in P : Before(y, x)}) = i - 1
           q == [i \in 1 .. Cardinality(P) |-> pick(i)]
           m == MergedRuns(R1, R2)
<1>1. IsFiniteSet(P)
  <2>1. IsFiniteSet(R1) /\ IsFiniteSet(R2) /\ IsFiniteSet({1}) /\ IsFiniteSet({2})
    BY SeparateHaveValues, FS_Singleton
  <2>2. IsFiniteSet(R1 \X {1}) /\ IsFiniteSet(R2 \X {2})
    BY <2>1, FS_Product
  <2> QED
    BY <2>2, FS_Union
<1>2. \A p \in P : /\ p = <<p[1], p[2]>> /\ p[2] \in {1, 2} /\ p[1] \in (IF p[2] = 1 THEN R1 ELSE R2)
                   /\ p[1][1] \in Int
  <2>1. \A r \in R1 \cup R2 : r[1] \in Int
    BY SeparateHaveValues
  <2> QED
    BY <2>1
<1>3. \A r \in R1 : <<r, 1>> \in P
  OBVIOUS
<1>4. \A r \in R2 : <<r, 2>> \in P
  OBVIOUS
<1> HIDE DEF P
<1>5. TellsApart(k, P)
  <2>1. \A p \in P : k[p] = 3 * p[1][1] + p[2] /\ k[p] \in Int
    BY <1>2
  <2>2. ASSUME NEW p \in P, NEW r \in P, k[p] = k[r] PROVE p = r
    <3>1. p[2] = r[2] /\ p[1][1] = r[1][1]
      BY <1>2, <2>1, <2>2
    <3>2. p[1] = r[1]
      <4>1. \A x, y \in R1 : x[1] = y[1] => x = y
        BY SeparateHaveValues
      <4>2. \A x, y \in R2 : x[1] = y[1] => x = y
        BY SeparateHaveValues
      <4> QED
        BY <1>2, <3>1, <4>1, <4>2
    <3> QED
      BY <1>2, <3>1, <3>2
  <2>3. k = [p \in P |-> k[p]]
    OBVIOUS
  <2> HIDE DEF k
  <2>4. k \in [P -> Int]
    BY <2>1, <2>3
  <2> QED
    BY <2>2, <2>4 DEF TellsApart
<1>6. \A x \in P : {y \in P : Before(y, x)} = KeyBelow(P, k, x)
  <2>1. \A x, y \in P : Before(y, x) <=> k[y] < k[x]
    BY <1>2
  <2> HIDE DEF k, Before
  <2> QED
    BY <2>1 DEF KeyBelow
<1> HIDE DEF k, Before
<1>7. DOMAIN q = 1 .. Cardinality(P) /\ q = [i \in DOMAIN q |-> q[i]]
  <2> HIDE DEF pick
  <2> QED
    OBVIOUS
<1>8. \A i \in DOMAIN q : q[i] = pick(i)
  <2> HIDE DEF pick
  <2> QED
    OBVIOUS
<1> HIDE DEF q
<1>9. \A i \in DOMAIN q : q[i] \in P /\ Cardinality(KeyBelow(P, k, q[i])) = i - 1
  <2> SUFFICES ASSUME NEW i \in DOMAIN q PROVE q[i] \in P /\ Cardinality(KeyBelow(P, k, q[i])) = i - 1
    OBVIOUS
  <2>1. \E x \in P : Cardinality(KeyBelow(P, k, x)) = i - 1
    BY <1>1, <1>5, <1>7, RanksAreTaken
  <2>2. \E x \in P : Cardinality({y \in P : Before(y, x)}) = i - 1
    BY <1>6, <2>1
  <2>3. q[i] \in P /\ Cardinality({y \in P : Before(y, q[i])}) = i - 1
    BY <1>8, <2>2
  <2> QED
    BY <1>6, <2>3
<1>10. Enumerates(q, P, k)
  BY <1>1, <1>5, <1>7, <1>9, RankedInOrder
<1>11. m = [i \in DOMAIN q |-> q[i][1]]
  BY Zenon DEF MergedRuns, Sorted, q, P, Before
<1>12. DOMAIN q = 1 .. Cardinality(P) /\ Cardinality(P) \in Nat
  BY <1>1, <1>7, FS_CardinalityType
<1>13. DOMAIN m = DOMAIN q /\ m = [i \in DOMAIN q |-> m[i]] /\ \A i \in DOMAIN q : m[i] = q[i][1]
  BY <1>11
<1> HIDE DEF m
<1>14. \A i \in DOMAIN m : m[i] \in Low \X Low /\ m[i][1] <= m[i][2] /\ m[i][1] \in Int
  BY <1>2, <1>9, <1>13 DEF Separate
<1>15. m \in Seq(Low \X Low)
  <2>1. m \in [1 .. Cardinality(P) -> Low \X Low]
    BY <1>12, <1>13, <1>14
  <2> QED
    BY <1>12, <2>1, FunctionIsSequence
<1>16. \A i, j \in DOMAIN m : i < j => m[i][1] <= m[j][1]
  <2> SUFFICES ASSUME NEW i \in DOMAIN m, NEW j \in DOMAIN m, i < j PROVE m[i][1] <= m[j][1]
    OBVIOUS
  <2>1. k[q[i]] < k[q[j]]
    BY <1>10, <1>13 DEF Enumerates
  <2>2. k[q[i]] = 3 * q[i][1][1] + q[i][2] /\ k[q[j]] = 3 * q[j][1][1] + q[j][2]
    BY <1>9, <1>13 DEF k
  <2>3. q[i][2] \in {1, 2} /\ q[j][2] \in {1, 2} /\ q[i][1] = m[i] /\ q[j][1] = m[j] /\ m[i][1] \in Int /\ m[j][1] \in Int
    BY <1>2, <1>9, <1>13, <1>14
  <2> QED
    BY <2>1, <2>2, <2>3
<1>17. InOrder(m)
  BY <1>14, <1>15, <1>16 DEF InOrder
<1> DEFINE tag == [i \in DOMAIN m |-> q[i][2]]
<1>18. Shuffles(m, tag, R1, R2)
  <2>1. \A i \in DOMAIN m : tag[i] = q[i][2] /\ q[i] \in P /\ q[i] = <<m[i], tag[i]>>
    BY <1>2, <1>9, <1>13
  <2>2. tag = [i \in DOMAIN m |-> tag[i]]
    OBVIOUS
  <2> HIDE DEF tag
  <2>3. \A i \in DOMAIN m : tag[i] \in {1, 2} /\ m[i] \in IF tag[i] = 1 THEN R1 ELSE R2
    BY <1>2, <1>13, <2>1
  <2>4. tag \in [DOMAIN m -> {1, 2}]
    BY <2>2, <2>3
  <2>5. ASSUME NEW p \in P PROVE \E i \in DOMAIN m : q[i] = p
    BY <1>10, <1>13 DEF Enumerates
  <2>6. \A r \in R1 : \E i \in DOMAIN m : tag[i] = 1 /\ m[i] = r
    <3> TAKE r \in R1
    <3>1. <<r, 1>> \in P
      BY <1>3
    <3>2. PICK i \in DOMAIN m : q[i] = <<r, 1>>
      BY <2>5, <3>1
    <3>3. <<m[i], tag[i]>> = <<r, 1>>
      BY <2>1, <3>2
    <3> QED
      BY <3>3
  <2>7. \A r \in R2 : \E i \in DOMAIN m : tag[i] = 2 /\ m[i] = r
    <3> TAKE r \in R2
    <3>1. <<r, 2>> \in P
      BY <1>4
    <3>2. PICK i \in DOMAIN m : q[i] = <<r, 2>>
      BY <2>5, <3>1
    <3>3. <<m[i], tag[i]>> = <<r, 2>>
      BY <2>1, <3>2
    <3> QED
      BY <3>3
  <2>8. ASSUME NEW i \in DOMAIN m, NEW j \in DOMAIN m, i # j, tag[i] = tag[j] PROVE m[i] # m[j]
    <3>1. i < j \/ j < i
      BY <1>12, <1>13, <2>8
    <3>2. q[i] # q[j]
      <4>1. k[q[i]] \in Int /\ k[q[j]] \in Int
        BY <1>5, <2>1 DEF TellsApart
      <4> QED
        BY <1>10, <1>13, <3>1, <4>1 DEF Enumerates
    <3> QED
      BY <2>1, <2>8, <3>2
  <2> QED
    BY <2>3, <2>4, <2>6, <2>7, <2>8 DEF Shuffles
<1> QED
  BY <1>17, <1>18 DEF m

\* What the runs of two sets cover, told from their places in a sequence.
LEMMA ShuffledValues ==
  ASSUME NEW R1, Separate(R1), NEW R2, Separate(R2), NEW s, InOrder(s), NEW tag, Shuffles(s, tag, R1, R2)
  PROVE  /\ \A v \in Int : v \in RunValues(R1) <=> \E i \in DOMAIN s : tag[i] = 1 /\ InRun(s, i, v)
         /\ \A v \in Int : v \in RunValues(R2) <=> \E i \in DOMAIN s : tag[i] = 2 /\ InRun(s, i, v)
         /\ \A v \in Int : \A i, j \in DOMAIN s : tag[i] = tag[j] /\ InRun(s, i, v) /\ InRun(s, j, v) => i = j
         /\ \A i \in DOMAIN s : tag[i] = 1 \/ tag[i] = 2
         /\ \A v \in RunValues(R1) \cup RunValues(R2) : v \in Int
<1>1. \A i \in DOMAIN s : tag[i] \in {1, 2} /\ s[i] \in IF tag[i] = 1 THEN R1 ELSE R2
  BY DEF Shuffles
<1>2. \A v \in Int : v \in RunValues(R1) <=> \E r \in R1 : r[1] <= v /\ v <= r[2]
  BY SeparateHaveValues
<1>3. \A v \in Int : v \in RunValues(R2) <=> \E r \in R2 : r[1] <= v /\ v <= r[2]
  BY SeparateHaveValues
<1>4. \A v \in Int : v \in RunValues(R1) <=> \E i \in DOMAIN s : tag[i] = 1 /\ InRun(s, i, v)
  <2>1. \A r \in R1 : \E i \in DOMAIN s : tag[i] = 1 /\ s[i] = r
    BY DEF Shuffles
  <2> QED
    BY <1>1, <1>2, <2>1 DEF InRun
<1>5. \A v \in Int : v \in RunValues(R2) <=> \E i \in DOMAIN s : tag[i] = 2 /\ InRun(s, i, v)
  <2>1. \A r \in R2 : \E i \in DOMAIN s : tag[i] = 2 /\ s[i] = r
    BY DEF Shuffles
  <2> QED
    BY <1>1, <1>3, <2>1 DEF InRun
<1>6. ASSUME NEW v \in Int, NEW i \in DOMAIN s, NEW j \in DOMAIN s, tag[i] = tag[j], InRun(s, i, v), InRun(s, j, v)
      PROVE  i = j
  <2>1. \A r, q \in R1 : r[1] <= v /\ v <= r[2] /\ q[1] <= v /\ v <= q[2] => r = q
    BY SeparateHaveValues
  <2>2. \A r, q \in R2 : r[1] <= v /\ v <= r[2] /\ q[1] <= v /\ v <= q[2] => r = q
    BY SeparateHaveValues
  <2>3. s[i] = s[j]
    BY <1>1, <1>6, <2>1, <2>2 DEF InRun
  <2> QED
    BY <1>6, <2>3 DEF Shuffles
<1>7. \A v \in RunValues(R1) \cup RunValues(R2) : v \in Int
  BY SeparateHaveValues
<1> QED
  BY <1>1, <1>4, <1>5, <1>6, <1>7

\* Merging by run_container_union gives the runs of the union.
LEMMA UnionOfRuns ==
  ASSUME NEW R1, Separate(R1), NEW R2, Separate(R2), R1 # {} \/ R2 # {}
  PROVE  \E R : /\ AppendedRuns(MergedRuns(R1, R2)) = Run(R) /\ Apart(R)
               /\ RunValues(R) = RunValues(R1) \cup RunValues(R2)
<1> DEFINE s == MergedRuns(R1, R2)
<1>1. InOrder(s) /\ \E tag : Shuffles(s, tag, R1, R2)
  BY MergedRunsInOrder
<1> HIDE DEF s
<1>2. PICK tag : Shuffles(s, tag, R1, R2)
  BY <1>1
<1>3. s # <<>>
  <2>1. \E i : i \in DOMAIN s
    BY <1>2 DEF Shuffles
  <2>2. DOMAIN <<>> = {}
    OBVIOUS
  <2> QED
    BY <2>1, <2>2
<1>4. PICK R : AppendedRuns(s) = Run(R) /\ Apart(R) /\ RunValues(R) = ChainValues(s)
  BY <1>1, <1>3, AppendedInOrder
<1>5. ChainValues(s) = RunValues(R1) \cup RunValues(R2)
  <2>1. \A v : v \in ChainValues(s) <=> v \in Int /\ \E i \in DOMAIN s : InRun(s, i, v)
    BY <1>1, InOrderHaveValues DEF InRun
  <2> QED
    BY <1>1, <1>2, <2>1, ShuffledValues
<1> QED
  BY <1>4, <1>5 DEF s

\* Two sets of runs do not cover a value three times, and cover one once where they differ.
LEMMA ShuffledTwice ==
  ASSUME NEW R1, Separate(R1), NEW R2, Separate(R2), NEW s, InOrder(s), NEW tag, Shuffles(s, tag, R1, R2)
  PROVE  /\ AtMostTwice({}, s)
         /\ \A v : v \in Int /\ Once({}, s, Len(s), v) <=> v \in SymDiff(RunValues(R1), RunValues(R2))
<1>1. /\ \A v \in Int : v \in RunValues(R1) <=> \E i \in DOMAIN s : tag[i] = 1 /\ InRun(s, i, v)
      /\ \A v \in Int : v \in RunValues(R2) <=> \E i \in DOMAIN s : tag[i] = 2 /\ InRun(s, i, v)
      /\ \A v \in Int : \A i, j \in DOMAIN s : tag[i] = tag[j] /\ InRun(s, i, v) /\ InRun(s, j, v) => i = j
      /\ \A i \in DOMAIN s : tag[i] = 1 \/ tag[i] = 2
      /\ \A v \in RunValues(R1) \cup RunValues(R2) : v \in Int
  BY ShuffledValues
<1>2. DOMAIN s = 1 .. Len(s) /\ \A i \in DOMAIN s : i \in Int
  BY InOrderHaveValues
<1>3. AtMostTwice({}, s)
  <2> SUFFICES ASSUME NEW v \in Int, NEW i \in DOMAIN s, NEW j \in DOMAIN s, NEW k \in DOMAIN s, i < j, j < k,
                      InRun(s, i, v), InRun(s, j, v), InRun(s, k, v)
               PROVE FALSE
    BY DEF AtMostTwice
  <2>1. i # j /\ j # k /\ i # k
    BY <1>2
  <2> QED
    BY <1>1, <2>1
<1>4. ASSUME NEW v \in Int PROVE Once({}, s, Len(s), v) <=> ~ (v \in RunValues(R1) <=> v \in RunValues(R2))
  <2>1. Once({}, s, Len(s), v) <=> \E i \in DOMAIN s : InRun(s, i, v) /\ \A j \in DOMAIN s : j # i => ~ InRun(s, j, v)
    BY <1>2 DEF Once
  <2>2. ASSUME NEW i \in DOMAIN s, InRun(s, i, v), \A j \in DOMAIN s : j # i => ~ InRun(s, j, v)
        PROVE ~ (v \in RunValues(R1) <=> v \in RunValues(R2))
    <3>1. CASE tag[i] = 1
      BY <1>1, <2>2, <3>1
    <3>2. CASE tag[i] = 2
      BY <1>1, <2>2, <3>2
    <3> QED
      BY <1>1, <3>1, <3>2
  <2>3. ASSUME v \in RunValues(R1), v \notin RunValues(R2) PROVE Once({}, s, Len(s), v)
    <3>1. PICK i \in DOMAIN s : tag[i] = 1 /\ InRun(s, i, v)
      BY <1>1, <2>3
    <3>2. \A j \in DOMAIN s : j # i => ~ InRun(s, j, v)
      BY <1>1, <2>3, <3>1
    <3> QED
      BY <2>1, <3>1, <3>2
  <2>4. ASSUME v \in RunValues(R2), v \notin RunValues(R1) PROVE Once({}, s, Len(s), v)
    <3>1. PICK i \in DOMAIN s : tag[i] = 2 /\ InRun(s, i, v)
      BY <1>1, <2>4
    <3>2. \A j \in DOMAIN s : j # i => ~ InRun(s, j, v)
      BY <1>1, <2>4, <3>1
    <3> QED
      BY <2>1, <3>1, <3>2
  <2> QED
    BY <2>1, <2>2, <2>3, <2>4
<1>5. \A v : v \in SymDiff(RunValues(R1), RunValues(R2)) <=> ~ (v \in RunValues(R1) <=> v \in RunValues(R2))
  BY DEF SymDiff
<1> QED
  BY <1>1, <1>3, <1>4, <1>5

\* Merging by run_container_xor gives the runs of the symmetric difference.
LEMMA DifferenceOfRuns ==
  ASSUME NEW R1, Separate(R1), NEW R2, Separate(R2)
  PROVE  \E R : /\ ExclusiveRuns(MergedRuns(R1, R2)) = Run(R) /\ Apart(R)
               /\ RunValues(R) = SymDiff(RunValues(R1), RunValues(R2))
<1> DEFINE s == MergedRuns(R1, R2)
           R == ToSet(ExclusionsFrom(<<>>, s))
<1>1. InOrder(s) /\ \E tag : Shuffles(s, tag, R1, R2)
  BY MergedRunsInOrder
<1>2. ExclusiveRuns(s) = Run(R)
  BY Zenon DEF ExclusiveRuns, ExclusionsFrom
<1> HIDE DEF s
<1>3. PICK tag : Shuffles(s, tag, R1, R2)
  BY <1>1
<1>4. /\ AtMostTwice({}, s)
      /\ \A v : v \in Int /\ Once({}, s, Len(s), v) <=> v \in SymDiff(RunValues(R1), RunValues(R2))
  BY <1>1, <1>3, ShuffledTwice
<1>5. Chain(<<>>) /\ ChainValues(<<>>) = {} /\ BeginBy(<<>>, s[1][1])
  BY ChainOfNone
<1>6. Apart(R) /\ \A v : v \in RunValues(R) <=> v \in Int /\ Once({}, s, Len(s), v)
  BY <1>1, <1>4, <1>5, ExcludedInOrder
<1> HIDE DEF R
<1>7. RunValues(R) = SymDiff(RunValues(R1), RunValues(R2))
  BY <1>4, <1>6
<1> QED
  BY <1>2, <1>6, <1>7 DEF s

-----------------------------------------------------------------------------
(* What a container has to be to stand for a set of values of its chunk.    *)

IsArray(c, S) == S \in SUBSET Low /\ c = Array(S) /\ Cardinality(S) <= DEFAULT_MAX_SIZE
IsBitset(c, S) == S \in SUBSET Low /\ c = Bitset(S, Cardinality(S))
IsLazy(c, S) == S \in SUBSET Low /\ c = Bitset(S, BITSET_UNKNOWN_CARDINALITY)
IsRun(c, S) == c = Run(c.runs) /\ Apart(c.runs) /\ S = RunValues(c.runs)

\* Exact: every number kept with the container is right.  Sound: a bitset also has more values than
\* an array takes, as between two calls.  Within a lazy operation a bitset may be uncounted.
Exact(c, S) == IsArray(c, S) \/ IsBitset(c, S) \/ IsRun(c, S)
Sound(c, S) == Exact(c, S) /\ (c.type = "bitset" => Cardinality(S) > DEFAULT_MAX_SIZE)
Lazy(c, S) == Exact(c, S) \/ IsLazy(c, S)

\* What an array that stands for a set is.
LEMMA ArrayHas ==
  ASSUME NEW c, NEW S, IsArray(c, S)
  PROVE  /\ c.type = "array" /\ c.values = S /\ S \in SUBSET Low /\ c = Array(S)
         /\ IsFiniteSet(S) /\ Cardinality(S) \in Nat /\ Cardinality(S) <= DEFAULT_MAX_SIZE
<1>1. c.type = "array" /\ c.values = S /\ S \in SUBSET Low /\ c = Array(S) /\ Cardinality(S) <= DEFAULT_MAX_SIZE
  BY DEF IsArray, Array
<1>2. IsFiniteSet(S) /\ Cardinality(S) \in 0 .. ChunkSize
  BY <1>1, CountOfSet
<1> QED
  BY <1>1, <1>2

\* What a bitset that stands for a set is.
LEMMA BitsetHas ==
  ASSUME NEW c, NEW S, IsBitset(c, S)
  PROVE  /\ c.type = "bitset" /\ c.values = S /\ S \in SUBSET Low /\ c.cardinality = Cardinality(S)
         /\ c = Bitset(S, Cardinality(S)) /\ IsFiniteSet(S) /\ Cardinality(S) \in Nat /\ Cardinality(S) <= ChunkSize
<1>1. c.type = "bitset" /\ c.values = S /\ S \in SUBSET Low /\ c.cardinality = Cardinality(S) /\ c = Bitset(S, Cardinality(S))
  BY DEF IsBitset, Bitset
<1>2. IsFiniteSet(S) /\ Cardinality(S) \in 0 .. ChunkSize
  BY <1>1, CountOfSet
<1> QED
  BY <1>1, <1>2, ContainerConstants

\* What a bitset with unknown cardinality is.
LEMMA LazyHas ==
  ASSUME NEW c, NEW S, IsLazy(c, S)
  PROVE  /\ c.type = "bitset" /\ c.values = S /\ S \in SUBSET Low /\ c.cardinality = -1
         /\ c = Bitset(S, -1) /\ IsFiniteSet(S)
<1>1. c.type = "bitset" /\ c.values = S /\ S \in SUBSET Low /\ c.cardinality = -1 /\ c = Bitset(S, -1)
  BY DEF IsLazy, Bitset, BITSET_UNKNOWN_CARDINALITY
<1> QED
  BY <1>1, CountOfSet

\* What a run container that stands for a set is; its cardinality is counted right.
LEMMA RunHas ==
  ASSUME NEW c, NEW S, IsRun(c, S)
  PROVE  /\ c.type = "run" /\ c = Run(c.runs) /\ Apart(c.runs) /\ S = RunValues(c.runs)
         /\ S \in SUBSET Low /\ run_container_cardinality(c) = Cardinality(S)
         /\ IsFiniteSet(S) /\ Cardinality(S) \in Nat /\ Cardinality(S) <= ChunkSize
<1>1. c = Run(c.runs) /\ Apart(c.runs) /\ S = RunValues(c.runs)
  BY DEF IsRun
<1>2. c.type = "run"
  BY <1>1 DEF Run
<1>3. S \in SUBSET Low
  BY <1>1, ApartHaveValues
<1>4. run_container_cardinality(c) = Cardinality(S)
  BY <1>1, RunLengthsAddUp
<1>5. IsFiniteSet(S) /\ Cardinality(S) \in 0 .. ChunkSize
  BY <1>3, CountOfSet
<1> QED
  BY <1>1, <1>2, <1>3, <1>4, <1>5, ContainerConstants

\* What is made of a set, by each of the three constructors.
LEMMA ArrayOf ==
  ASSUME NEW S \in SUBSET Low, Cardinality(S) <= DEFAULT_MAX_SIZE
  PROVE  IsArray(Array(S), S) /\ Exact(Array(S), S) /\ Sound(Array(S), S) /\ Lazy(Array(S), S)
<1>1. IsArray(Array(S), S)
  BY DEF IsArray
<1>2. Array(S).type = "array"
  BY DEF Array
<1> QED
  BY <1>1, <1>2 DEF Exact, Sound, Lazy

\* A bitset with the right cardinality stands for its values.
LEMMA BitsetOf ==
  ASSUME NEW S \in SUBSET Low, NEW n, n = Cardinality(S)
  PROVE  /\ IsBitset(Bitset(S, n), S) /\ Exact(Bitset(S, n), S) /\ Lazy(Bitset(S, n), S)
         /\ n > DEFAULT_MAX_SIZE => Sound(Bitset(S, n), S)
<1>1. IsBitset(Bitset(S, n), S)
  BY DEF IsBitset
<1> QED
  BY <1>1 DEF Exact, Sound, Lazy

\* A bitset with unknown cardinality stands lazily for its values.
LEMMA LazyOf ==
  ASSUME NEW S \in SUBSET Low
  PROVE  IsLazy(Bitset(S, BITSET_UNKNOWN_CARDINALITY), S) /\ Lazy(Bitset(S, BITSET_UNKNOWN_CARDINALITY), S)
  BY DEF IsLazy, Lazy

\* A container of runs that are apart stands for their values.
LEMMA RunOf ==
  ASSUME NEW R, Apart(R)
  PROVE  LET S == RunValues(R)
         IN IsRun(Run(R), S) /\ Exact(Run(R), S) /\ Sound(Run(R), S) /\ Lazy(Run(R), S)
<1> DEFINE S == RunValues(R)
<1>1. Run(R).type = "run" /\ Run(R).runs = R
  BY DEF Run
<1>2. IsRun(Run(R), S)
  BY <1>1 DEF IsRun
<1>3. Exact(Run(R), S) /\ Lazy(Run(R), S)
  BY <1>2 DEF Exact, Lazy
<1>4. Sound(Run(R), S)
  BY <1>1, <1>3 DEF Sound
<1> QED
  BY <1>2, <1>3, <1>4

\* One run from the first value to the last stands for all values.
LEMMA FullRunOf == /\ IsRun(Run({rle16(0, ChunkSize - 1)}), Low) /\ Sound(Run({rle16(0, ChunkSize - 1)}), Low)
                  /\ Exact(Run({rle16(0, ChunkSize - 1)}), Low) /\ Lazy(Run({rle16(0, ChunkSize - 1)}), Low)
  BY FullRun, RunOf

\* A container is of one of the kinds.
LEMMA SoundIs == ASSUME NEW c, NEW S, Sound(c, S)
                 PROVE  IsArray(c, S) \/ (IsBitset(c, S) /\ Cardinality(S) > DEFAULT_MAX_SIZE) \/ IsRun(c, S)
<1>1. CASE IsBitset(c, S)
  BY <1>1, BitsetHas DEF Sound
<1> QED
  BY <1>1 DEF Sound, Exact

\* The three kinds of containers that are sound.
LEMMA SoundWhen ==
  ASSUME NEW c, NEW S, IsArray(c, S) \/ (IsBitset(c, S) /\ Cardinality(S) > DEFAULT_MAX_SIZE) \/ IsRun(c, S)
  PROVE  Sound(c, S)
<1>1. CASE IsArray(c, S)
  BY <1>1, ArrayHas DEF Sound, Exact
<1>2. CASE IsBitset(c, S) /\ Cardinality(S) > DEFAULT_MAX_SIZE
  BY <1>2 DEF Sound, Exact
<1>3. CASE IsRun(c, S)
  BY <1>3, RunHas DEF Sound, Exact
<1> QED
  BY <1>1, <1>2, <1>3

\* The set is that of the values of the container.
LEMMA LazyHasValues ==
  ASSUME NEW c, NEW S, Lazy(c, S)
  PROVE  /\ S = container_to_uint32_array(c) /\ S \in SUBSET Low
         /\ container_nonzero_cardinality(c) <=> S # {}
         /\ c # NULL
<1>1. CASE IsArray(c, S)
  <2>1. Cardinality(S) > 0 <=> S # {}
    BY <1>1, ArrayHas, CountOfSet
  <2>2. NULL.type = "null"
    BY DEF NULL
  <2> QED
    BY <1>1, <2>1, <2>2, ArrayHas DEF container_to_uint32_array, container_nonzero_cardinality
<1>2. CASE IsBitset(c, S) \/ IsLazy(c, S)
  <2>1. c.type = "bitset" /\ c.values = S /\ S \in SUBSET Low
    BY <1>2, BitsetHas, LazyHas
  <2>2. NULL.type = "null"
    BY DEF NULL
  <2> QED
    BY <2>1, <2>2 DEF container_to_uint32_array, container_nonzero_cardinality
<1>3. CASE IsRun(c, S)
  <2>1. c.runs # {} <=> S # {}
    BY <1>3, RunHas, ApartHaveValues
  <2>2. NULL.type = "null"
    BY DEF NULL
  <2> QED
    BY <1>3, <2>1, <2>2, RunHas DEF container_to_uint32_array, container_nonzero_cardinality
<1> QED
  BY <1>1, <1>2, <1>3 DEF Lazy, Exact

\* The cardinality of an exact container is that of its set.
LEMMA CountedIsRight ==
  ASSUME NEW c, NEW S, Exact(c, S)
  PROVE  container_get_cardinality(c) = Cardinality(S) /\ Lazy(c, S)
<1>0. Lazy(c, S)
  BY DEF Lazy
<1>1. CASE IsArray(c, S)
  BY <1>0, <1>1, ArrayHas DEF container_get_cardinality
<1>2. CASE IsBitset(c, S)
  BY <1>0, <1>2, BitsetHas DEF container_get_cardinality
<1>3. CASE IsRun(c, S)
  BY <1>0, <1>3, RunHas DEF container_get_cardinality
<1> QED
  BY <1>1, <1>2, <1>3 DEF Exact, Lazy

\* A container is full when it has every value of the chunk, and is counted.
LEMMA FullHasAll ==
  ASSUME NEW c, NEW S, Lazy(c, S), container_is_full(c)
  PROVE  S = Low /\ Sound(c, S)
<1> USE ContainerConstants
<1>1. CASE IsArray(c, S)
  <2>1. container_get_cardinality(c) = Cardinality(S)
    BY <1>1, ArrayHas DEF container_get_cardinality
  <2> QED
    BY <1>1, <2>1, ArrayHas, CountOfSet, SoundWhen DEF container_is_full
<1>2. CASE IsBitset(c, S)
  <2>1. container_get_cardinality(c) = Cardinality(S) /\ c.type = "bitset" /\ S \in SUBSET Low
    BY <1>2, BitsetHas DEF container_get_cardinality
  <2>2. Cardinality(S) = ChunkSize
    BY <2>1 DEF container_is_full
  <2> QED
    BY <1>2, <2>1, <2>2, CountOfSet, SoundWhen
<1>3. CASE IsLazy(c, S)
  <2>1. container_get_cardinality(c) = -1 /\ c.type = "bitset"
    BY <1>3, LazyHas DEF container_get_cardinality
  <2> QED
    BY <2>1 DEF container_is_full
<1>4. CASE IsRun(c, S)
  <2>1. run_container_is_full(c)
    BY <1>4, RunHas DEF container_is_full
  <2>2. c.runs = {rle16(0, ChunkSize - 1)}
    BY <2>1 DEF run_container_is_full
  <2> QED
    BY <1>4, <2>2, RunHas, FullRun, SoundWhen
<1> QED
  BY <1>1, <1>2, <1>3, <1>4 DEF Lazy, Exact

-----------------------------------------------------------------------------
(* Conversions.                                                             *)

\* A bitset is made an array when it has few values.
LEMMA SmallBecomesArray ==
  ASSUME NEW S \in SUBSET Low, NEW n, n = Cardinality(S)
  PROVE  Sound(ArrayIfSmall(Bitset(S, n)), S)
<1>1. Bitset(S, n).cardinality = n /\ Bitset(S, n).values = S
  BY DEF Bitset
<1>2. n \in Nat
  BY CountOfSet, ContainerConstants
<1>3. ArrayIfSmall(Bitset(S, n)) = IF n <= DEFAULT_MAX_SIZE THEN Array(S) ELSE Bitset(S, n)
  BY <1>1 DEF ArrayIfSmall, array_container_from_bitset
<1> QED
  BY <1>2, <1>3, ArrayOf, BitsetOf, ContainerConstants

\* Runs made a bitset or an array have the same values.
LEMMA RunsConverted ==
  ASSUME NEW c, NEW S, IsRun(c, S), NEW n, n = Cardinality(S)
  PROVE  Sound(convert_to_bitset_or_array_container(c, n), S)
<1>1. S = RunValues(c.runs) /\ S \in SUBSET Low /\ n \in Nat
  BY RunHas
<1>2. convert_to_bitset_or_array_container(c, n) = IF n <= DEFAULT_MAX_SIZE THEN Array(S) ELSE Bitset(S, n)
  BY <1>1 DEF convert_to_bitset_or_array_container, array_container_from_run
<1> QED
  BY <1>1, <1>2, ArrayOf, BitsetOf, ContainerConstants

\* convert_run_to_efficient_container keeps the values.
LEMMA RunsMadeEfficient ==
  ASSUME NEW c, NEW S, IsRun(c, S)
  PROVE  Sound(convert_run_to_efficient_container(c), S)
<1>1. run_container_cardinality(c) = Cardinality(S) /\ Sound(c, S)
  BY RunHas, SoundWhen
<1>2. \/ convert_run_to_efficient_container(c) = c
      \/ convert_run_to_efficient_container(c) = convert_to_bitset_or_array_container(c, run_container_cardinality(c))
  BY DEF convert_run_to_efficient_container
<1> QED
  BY <1>1, <1>2, RunsConverted

\* convert_run_optimize keeps the values.
LEMMA Optimized ==
  ASSUME NEW c, NEW S, Sound(c, S)
  PROVE  Sound(convert_run_optimize(c), S)
<1>1. CASE IsArray(c, S)
  <2>1. convert_run_optimize(c) = c \/ convert_run_optimize(c) = Run(RunsOf(S))
    BY <1>1, ArrayHas DEF convert_run_optimize, run_container_from_array
  <2> QED
    BY <1>1, <2>1, ArrayHas, RunsOfSet, RunOf
<1>2. CASE IsBitset(c, S)
  <2>1. convert_run_optimize(c) = c \/ convert_run_optimize(c) = Run(RunsOf(S))
    BY <1>2, BitsetHas DEF convert_run_optimize
  <2> QED
    BY <1>2, <2>1, BitsetHas, RunsOfSet, RunOf
<1>3. CASE IsRun(c, S)
  <2>1. convert_run_optimize(c) = convert_run_to_efficient_container(c)
    BY <1>3, RunHas DEF convert_run_optimize
  <2> QED
    BY <1>3, <2>1, RunsMadeEfficient
<1> QED
  BY <1>1, <1>2, <1>3 DEF Sound, Exact

\* A lazy container is repaired to a sound one with the same values.
LEMMA Repaired ==
  ASSUME NEW c, NEW S, Lazy(c, S)
  PROVE  Sound(container_repair_after_lazy(c), S)
<1>1. CASE IsArray(c, S)
  <2>1. container_repair_after_lazy(c) = c
    BY <1>1, ArrayHas DEF container_repair_after_lazy
  <2> QED
    BY <1>1, <2>1, SoundWhen
<1>2. CASE IsBitset(c, S) \/ IsLazy(c, S)
  <2>1. c.type = "bitset" /\ c.values = S /\ S \in SUBSET Low
    BY <1>2, BitsetHas, LazyHas
  <2>2. container_repair_after_lazy(c) = ArrayIfSmall(Bitset(S, Cardinality(S)))
    BY <2>1 DEF container_repair_after_lazy, bitset_container_compute_cardinality
  <2> QED
    BY <2>1, <2>2, SmallBecomesArray
<1>3. CASE IsRun(c, S)
  <2>1. container_repair_after_lazy(c) = convert_run_to_efficient_container(c)
    BY <1>3, RunHas DEF container_repair_after_lazy
  <2> QED
    BY <1>3, <2>1, RunsMadeEfficient
<1> QED
  BY <1>1, <1>2, <1>3 DEF Lazy, Exact

-----------------------------------------------------------------------------
(* Runs with more values or fewer.                                          *)

\* The values of a container are numbers below its size.
LEMMA LowAreNumbers == \A v \in Low : v \in Int /\ v \in Nat /\ 0 <= v /\ v < ChunkSize
  BY ContainerConstants DEF Low

\* The runs before and behind a range that do not touch it, and the run that takes the place of the others.
RunsBefore(R, min) == {r \in R : r[2] + 1 < min}
RunsBehind(R, max) == {r \in R : r[1] > max + 1}
RunsTouching(R, min, max) == R \ (RunsBefore(R, min) \cup RunsBehind(R, max))
JoinedFirst(R, min, max) == Min({min} \cup {r[1] : r \in RunsTouching(R, min, max)})
JoinedLast(R, min, max) == Max({max} \cup {r[2] : r \in RunsTouching(R, min, max)})
JoinedRuns(R, min, max) ==
  RunsBefore(R, min) \cup RunsBehind(R, max) \cup {rle16(JoinedFirst(R, min, max), JoinedLast(R, min, max))}

\* The runs that a range touches become one run with it.
LEMMA RunsJoined ==
  ASSUME NEW R, Apart(R), NEW min \in Low, NEW max \in Low, min <= max
  PROVE  Apart(JoinedRuns(R, min, max)) /\ RunValues(JoinedRuns(R, min, max)) = RunValues(R) \cup min .. max
<1> DEFINE less == RunsBefore(R, min)
           greater == RunsBehind(R, max)
           common == RunsTouching(R, min, max)
           first == JoinedFirst(R, min, max)
           last == JoinedLast(R, min, max)
           Q == JoinedRuns(R, min, max)
<1>1. /\ RunValues(R) \in SUBSET Low
      /\ \A x : x \in RunValues(R) <=> x \in Int /\ \E r \in R : r[1] <= x /\ x <= r[2]
      /\ \A r \in R : r = <<r[1], r[2]>> /\ r[1] \in Low /\ r[2] \in Low /\ r[1] <= r[2]
      /\ \A r, s \in R : r # s => r[2] + 1 < s[1] \/ s[2] + 1 < r[1]
  BY ApartHaveValues
<1>2. \A r \in R : r[1] \in Int /\ r[2] \in Int /\ 0 <= r[1] /\ r[2] < ChunkSize
  BY <1>1, LowAreNumbers
<1>3. min \in Int /\ max \in Int /\ 0 <= min /\ max < ChunkSize /\ ChunkSize \in Int
  BY LowAreNumbers, ContainerConstants
<1>4. \A r : /\ r \in less <=> r \in R /\ r[2] + 1 < min
             /\ r \in greater <=> r \in R /\ r[1] > max + 1
             /\ r \in common <=> r \in R /\ ~ (r[2] + 1 < min) /\ ~ (r[1] > max + 1)
  BY DEF RunsBefore, RunsBehind, RunsTouching
<1>5. first \in {min} \cup {r[1] : r \in common} /\ \A x \in {min} \cup {r[1] : r \in common} : first <= x
  <2>1. {min} \cup {r[1] : r \in common} \in SUBSET Int /\ \A x \in {min} \cup {r[1] : r \in common} : 0 <= x
    BY <1>2, <1>3, <1>4
  <2>2. {min} \cup {r[1] : r \in common} # {} /\ 0 \in Int
    OBVIOUS
  <2> QED
    BY <2>1, <2>2, MinOfSome DEF JoinedFirst
<1>6. last \in {max} \cup {r[2] : r \in common} /\ \A x \in {max} \cup {r[2] : r \in common} : x <= last
  <2>1. {max} \cup {r[2] : r \in common} \in SUBSET Int /\ \A x \in {max} \cup {r[2] : r \in common} : x <= ChunkSize
    BY <1>2, <1>3, <1>4
  <2>2. {max} \cup {r[2] : r \in common} # {} /\ ChunkSize \in Int
    BY <1>3
  <2> QED
    BY <2>1, <2>2, MaxOfSome DEF JoinedLast
<1> HIDE DEF less, greater, common, first, last
<1>7. /\ first <= min /\ max <= last
      /\ \A r \in common : first <= r[1] /\ r[2] <= last
      /\ first = min \/ \E r \in common : first = r[1]
      /\ last = max \/ \E r \in common : last = r[2]
  BY <1>5, <1>6
<1>8. first \in Low /\ last \in Low /\ first \in Int /\ last \in Int /\ first <= last
  BY <1>1, <1>2, <1>3, <1>4, <1>7
<1>9. ASSUME NEW r \in less PROVE r[2] + 1 < first
  <2>1. r \in R /\ r[2] + 1 < min
    BY <1>4
  <2>2. ASSUME NEW s \in common, first = s[1] PROVE r[2] + 1 < first
    <3>1. s \in R /\ ~ (s[2] + 1 < min)
      BY <1>4
    <3> QED
      BY <3>1, <2>1, <2>2, <1>1, <1>2, <1>3
  <2> QED
    BY <2>1, <2>2, <1>7
<1>10. ASSUME NEW r \in greater PROVE last + 1 < r[1]
  <2>1. r \in R /\ r[1] > max + 1
    BY <1>4
  <2>2. ASSUME NEW s \in common, last = s[2] PROVE last + 1 < r[1]
    <3>1. s \in R /\ ~ (s[1] > max + 1)
      BY <1>4
    <3> QED
      BY <3>1, <2>1, <2>2, <1>1, <1>2, <1>3
  <2>3. CASE last = max
    BY <2>1, <2>3, <1>2, <1>3
  <2> QED
    BY <2>2, <2>3, <1>7
<1>11. \A q : q \in Q <=> q \in less \/ q \in greater \/ q = <<first, last>>
  BY DEF JoinedRuns, rle16, less, greater, first, last
<1> HIDE DEF Q
<1>12. \A q \in Q : q \in Low \X Low /\ q[1] <= q[2]
  <2>1. <<first, last>> \in Low \X Low
    BY <1>8
  <2>2. \A q \in R : q \in Low \X Low
    BY <1>1
  <2> QED
    BY <2>1, <2>2, <1>1, <1>4, <1>8, <1>11
<1>13. ASSUME NEW q \in Q, NEW p \in Q, q # p PROVE q[2] + 1 < p[1] \/ p[2] + 1 < q[1]
  <2>1. CASE q \in R /\ p \in R
    BY <2>1, <1>1, <1>13
  <2>2. CASE q = <<first, last>> /\ p \in less \cup greater
    BY <2>2, <1>9, <1>10
  <2>3. CASE p = <<first, last>> /\ q \in less \cup greater
    BY <2>3, <1>9, <1>10
  <2> QED
    BY <2>1, <2>2, <2>3, <1>4, <1>11, <1>13
<1>14. Apart(Q)
  BY <1>12, <1>13 DEF Apart
<1>15. \A x : x \in RunValues(Q) <=> x \in Int /\ \E q \in Q : q[1] <= x /\ x <= q[2]
  BY <1>14, ApartHaveValues
<1>16. ASSUME NEW x \in Int PROVE (first <= x /\ x <= last) <=> x \in min .. max \/ \E r \in common : r[1] <= x /\ x <= r[2]
  <2>1. ASSUME NEW r \in common, r[1] <= x, x <= r[2] PROVE first <= x /\ x <= last
    BY <2>1, <1>2, <1>4, <1>7, <1>8
  <2>2. ASSUME first <= x, x < min PROVE \E r \in common : r[1] <= x /\ x <= r[2]
    <3>0. first # min
      BY <2>2, <1>3
    <3>1. PICK r \in common : first = r[1]
      BY <3>0, <1>7
    <3>2. r[1] <= x /\ x <= r[2]
      BY <3>1, <2>2, <1>2, <1>3, <1>4
    <3> QED
      BY <3>2
  <2>3. ASSUME max < x, x <= last PROVE \E r \in common : r[1] <= x /\ x <= r[2]
    <3>0. last # max
      BY <2>3, <1>3
    <3>1. PICK r \in common : last = r[2]
      BY <3>0, <1>7
    <3>2. r[1] <= x /\ x <= r[2]
      BY <3>1, <2>3, <1>2, <1>3, <1>4
    <3> QED
      BY <3>2
  <2>4. x \in min .. max => first <= x /\ x <= last
    BY <1>3, <1>7, <1>8
  <2>5. x \in min .. max \/ x < min \/ max < x
    BY <1>3
  <2> QED
    BY <2>1, <2>2, <2>3, <2>4, <2>5
<1>17. ASSUME NEW x \in Int PROVE x \in RunValues(Q) <=> x \in RunValues(R) \cup min .. max
  <2>1. (\E q \in Q : q[1] <= x /\ x <= q[2]) <=> (\E r \in less \cup greater : r[1] <= x /\ x <= r[2]) \/ (first <= x /\ x <= last)
    <3>1. <<first, last>>[1] = first /\ <<first, last>>[2] = last
      OBVIOUS
    <3>2. \A q : q \in Q <=> q \in less \cup greater \/ q = <<first, last>>
      BY <1>11
    <3> QED
      BY ONLY <3>1, <3>2, Zenon
  <2>2. \A r : r \in R <=> r \in less \cup greater \/ r \in common
    BY <1>4
  <2>3. x \in RunValues(R) <=> \E r \in R : r[1] <= x /\ x <= r[2]
    BY <1>1
  <2> QED
    BY <2>1, <2>2, <2>3, <1>15, <1>16
<1>18. RunValues(Q) = RunValues(R) \cup min .. max
  <2>1. \A x : x \in RunValues(Q) => x \in Int
    BY <1>15
  <2>2. \A x : x \in RunValues(R) \cup min .. max => x \in Int
    BY <1>1, <1>3
  <2> QED
    BY <1>17, <2>1, <2>2
<1> QED
  BY <1>14, <1>18 DEF Q

\* A value that comes between two runs joins them.
LEMMA RunAdded ==
  ASSUME NEW c, NEW S, IsRun(c, S), NEW v \in Low
  PROVE  IsRun(run_container_add(c, v), S \cup {v})
<1> DEFINE R == c.runs
           joined == {r \in R : r[2] + 1 = v \/ r[1] = v + 1}
<1>1. /\ Apart(R) /\ S = RunValues(R) /\ S \in SUBSET Low
      /\ \A x : x \in S <=> x \in Int /\ \E r \in R : r[1] <= x /\ x <= r[2]
      /\ \A r \in R : r[1] \in Low /\ r[2] \in Low /\ r[1] <= r[2]
  BY RunHas, ApartHaveValues
<1>2. CASE v \in S
  <2>1. run_container_add(c, v) = c /\ S \cup {v} = S
    BY <1>1, <1>2 DEF run_container_add
  <2> QED
    BY <2>1
<1>3. CASE v \notin S
  <2>1. v \in Int /\ v <= v /\ v .. v = {v} /\ \A r \in R : r[1] \in Int /\ r[2] \in Int
    BY <1>1, LowAreNumbers
  <2>2. \A r \in R : v < r[1] \/ r[2] < v
    BY <1>1, <1>3, <2>1
  <2>3. \A r \in R : r \in joined <=> ~ (r[2] + 1 < v) /\ ~ (r[1] > v + 1)
    BY <1>1, <2>1, <2>2
  <2>4. joined = RunsTouching(R, v, v) /\ R \ joined = RunsBefore(R, v) \cup RunsBehind(R, v)
    BY <2>3 DEF RunsTouching, RunsBefore, RunsBehind
  <2>5. run_container_add(c, v) = Run((R \ joined) \cup {rle16(Min({v} \cup {r[1] : r \in joined}), Max({v} \cup {r[2] : r \in joined}))})
    BY <1>1, <1>3 DEF run_container_add
  <2>6. run_container_add(c, v) = Run(JoinedRuns(R, v, v))
    BY <2>4, <2>5 DEF JoinedRuns, JoinedFirst, JoinedLast
  <2>7. Apart(JoinedRuns(R, v, v)) /\ RunValues(JoinedRuns(R, v, v)) = S \cup {v}
    BY <1>1, <2>1, RunsJoined
  <2> QED
    BY <2>6, <2>7, RunOf
<1> QED
  BY <1>2, <1>3

\* Parts of runs that are apart are apart when those of each run are.
LEMMA PiecesAreApart ==
  ASSUME NEW R, Apart(R), NEW Q, Q \in SUBSET (Low \X Low), \A q \in Q : q[1] <= q[2],
         \A q \in Q : \E r \in R : r[1] <= q[1] /\ q[2] <= r[2],
         \A r \in R : \A q, p \in Q : q # p /\ r[1] <= q[1] /\ q[2] <= r[2] /\ r[1] <= p[1] /\ p[2] <= r[2]
                                        => q[2] + 1 < p[1] \/ p[2] + 1 < q[1]
  PROVE  Apart(Q)
<1>1. ASSUME NEW q \in Q, NEW p \in Q, q # p PROVE q[2] + 1 < p[1] \/ p[2] + 1 < q[1]
  <2>1. PICK r \in R : r[1] <= q[1] /\ q[2] <= r[2]
    OBVIOUS
  <2>2. PICK s \in R : s[1] <= p[1] /\ p[2] <= s[2]
    OBVIOUS
  <2>3. q[1] \in Low /\ q[2] \in Low /\ p[1] \in Low /\ p[2] \in Low /\ q[1] <= q[2] /\ p[1] <= p[2]
    OBVIOUS
  <2>4. r[1] \in Low /\ r[2] \in Low /\ s[1] \in Low /\ s[2] \in Low /\ (r # s => r[2] + 1 < s[1] \/ s[2] + 1 < r[1])
    BY ApartHaveValues
  <2>5. CASE r = s
    BY <1>1, <2>1, <2>2, <2>5
  <2>6. CASE r # s
    BY <2>1, <2>2, <2>3, <2>4, <2>6, LowAreNumbers
  <2> QED
    BY <2>5, <2>6
<1> QED
  BY <1>1 DEF Apart

\* What is left of runs without the values from min to max.
LeftRuns(R, min) == {rle16(r[1], Min({r[2], min - 1})) : r \in {s \in R : s[1] < min}}
RightRuns(R, max) == {rle16(Max({r[1], max + 1}), r[2]) : r \in {s \in R : s[2] > max}}

\* The runs that a range touches lose its values.
LEMMA CutRuns ==
  ASSUME NEW R, Apart(R), NEW min \in Low, NEW max \in Low, min <= max
  PROVE  /\ Apart(LeftRuns(R, min) \cup RightRuns(R, max))
         /\ RunValues(LeftRuns(R, min) \cup RightRuns(R, max)) = RunValues(R) \ (min .. max)
<1> DEFINE Q == LeftRuns(R, min) \cup RightRuns(R, max)
           m(r) == Min({r[2], min - 1})
           M(r) == Max({r[1], max + 1})
<1>1. /\ RunValues(R) \in SUBSET Low
      /\ \A x : x \in RunValues(R) <=> x \in Int /\ \E r \in R : r[1] <= x /\ x <= r[2]
      /\ \A r \in R : r = <<r[1], r[2]>> /\ r[1] \in Low /\ r[2] \in Low /\ r[1] <= r[2]
  BY ApartHaveValues
<1>2. \A r \in R : r[1] \in Int /\ r[2] \in Int /\ 0 <= r[1] /\ r[2] < ChunkSize
  BY <1>1, LowAreNumbers
<1>3. min \in Int /\ max \in Int /\ 0 <= min /\ max < ChunkSize /\ ChunkSize \in Int
  BY LowAreNumbers, ContainerConstants
<1>4. \A r \in R : /\ m(r) = (IF r[2] <= min - 1 THEN r[2] ELSE min - 1)
                   /\ M(r) = (IF r[1] <= max + 1 THEN max + 1 ELSE r[1])
  BY <1>2, <1>3, MinOfTwo, MaxOfTwo
<1>5. \A q : q \in Q <=> \/ \E r \in R : r[1] < min /\ q = <<r[1], m(r)>>
                        \/ \E r \in R : r[2] > max /\ q = <<M(r), r[2]>>
  BY DEF LeftRuns, RightRuns, rle16
<1> HIDE DEF Q, m, M
<1>6. \A r \in R : r[1] < min => m(r) \in Low /\ r[1] <= m(r) /\ m(r) <= r[2] /\ m(r) < min
  BY <1>1, <1>2, <1>3, <1>4 DEF Low
<1>7. \A r \in R : r[2] > max => M(r) \in Low /\ r[1] <= M(r) /\ M(r) <= r[2] /\ M(r) > max
  BY <1>1, <1>2, <1>3, <1>4 DEF Low
<1>8. \A q \in Q : q \in Low \X Low /\ q[1] <= q[2] /\ \E r \in R : r[1] <= q[1] /\ q[2] <= r[2]
  <2> SUFFICES ASSUME NEW q \in Q PROVE q \in Low \X Low /\ q[1] <= q[2] /\ \E r \in R : r[1] <= q[1] /\ q[2] <= r[2]
    OBVIOUS
  <2>1. CASE \E r \in R : r[1] < min /\ q = <<r[1], m(r)>>
    <3>1. PICK r \in R : r[1] < min /\ q = <<r[1], m(r)>>
      BY <2>1
    <3> QED
      BY <3>1, <1>1, <1>2, <1>6
  <2>2. CASE \E r \in R : r[2] > max /\ q = <<M(r), r[2]>>
    <3>1. PICK r \in R : r[2] > max /\ q = <<M(r), r[2]>>
      BY <2>2
    <3> QED
      BY <3>1, <1>1, <1>2, <1>7
  <2> QED
    BY <2>1, <2>2, <1>5
<1>9. ASSUME NEW r \in R, NEW q \in Q, r[1] <= q[1], q[2] <= r[2]
      PROVE  (r[1] < min /\ q = <<r[1], m(r)>>) \/ (r[2] > max /\ q = <<M(r), r[2]>>)
  <2>0. \A s \in R : r # s => r[2] + 1 < s[1] \/ s[2] + 1 < r[1]
    BY ApartHaveValues
  <2>1. CASE \E s \in R : s[1] < min /\ q = <<s[1], m(s)>>
    <3>1. PICK s \in R : s[1] < min /\ q = <<s[1], m(s)>>
      BY <2>1
    <3>2. r[1] <= s[1] /\ s[1] <= m(s) /\ m(s) <= s[2] /\ m(s) <= r[2] /\ m(s) \in Int
      BY <3>1, <1>6, <1>9, LowAreNumbers
    <3>3. r = s
      BY <3>2, <2>0, <1>2
    <3> QED
      BY <3>1, <3>3
  <2>2. CASE \E s \in R : s[2] > max /\ q = <<M(s), s[2]>>
    <3>1. PICK s \in R : s[2] > max /\ q = <<M(s), s[2]>>
      BY <2>2
    <3>2. r[1] <= M(s) /\ s[1] <= M(s) /\ M(s) <= s[2] /\ s[2] <= r[2] /\ M(s) \in Int
      BY <3>1, <1>7, <1>9, LowAreNumbers
    <3>3. r = s
      BY <3>2, <2>0, <1>2
    <3> QED
      BY <3>1, <3>3
  <2> QED
    BY <2>1, <2>2, <1>5
<1>10. ASSUME NEW r \in R, NEW q \in Q, NEW p \in Q, q # p, r[1] <= q[1], q[2] <= r[2], r[1] <= p[1], p[2] <= r[2]
       PROVE  q[2] + 1 < p[1] \/ p[2] + 1 < q[1]
  <2>1. (r[1] < min /\ q = <<r[1], m(r)>>) \/ (r[2] > max /\ q = <<M(r), r[2]>>)
    BY <1>9, <1>10
  <2>2. (r[1] < min /\ p = <<r[1], m(r)>>) \/ (r[2] > max /\ p = <<M(r), r[2]>>)
    BY <1>9, <1>10
  <2>3. CASE r[1] < min /\ r[2] > max
    <3>0. m(r) \in Int /\ M(r) \in Int /\ m(r) < min /\ max < M(r)
      BY <2>3, <1>6, <1>7, LowAreNumbers
    <3>1. m(r) + 1 < M(r)
      BY <3>0, <1>3
    <3> QED
      BY <2>1, <2>2, <3>1, <1>10
  <2> QED
    BY <2>1, <2>2, <2>3, <1>10
<1>11. Apart(Q)
  BY <1>8, <1>10, PiecesAreApart
<1>12. \A x : x \in RunValues(Q) <=> x \in Int /\ \E q \in Q : q[1] <= x /\ x <= q[2]
  BY <1>11, ApartHaveValues
<1>13. ASSUME NEW x \in Int PROVE x \in RunValues(Q) <=> x \in RunValues(R) \ (min .. max)
  <2>1. ASSUME NEW q \in Q, q[1] <= x, x <= q[2] PROVE x \in RunValues(R) \ (min .. max)
    <3>1. CASE \E r \in R : r[1] < min /\ q = <<r[1], m(r)>>
      <4>1. PICK r \in R : r[1] < min /\ q = <<r[1], m(r)>>
        BY <3>1
      <4>2. r[1] <= x /\ x <= r[2] /\ x < min
        <5>1. q[1] = r[1] /\ q[2] = m(r) /\ m(r) \in Int /\ m(r) <= r[2] /\ m(r) < min
          BY <4>1, <1>6, LowAreNumbers
        <5> QED
          BY <5>1, <2>1, <1>2, <1>3
      <4> QED
        BY <4>2, <1>1, <1>3
    <3>2. CASE \E r \in R : r[2] > max /\ q = <<M(r), r[2]>>
      <4>1. PICK r \in R : r[2] > max /\ q = <<M(r), r[2]>>
        BY <3>2
      <4>2. r[1] <= x /\ x <= r[2] /\ x > max
        <5>1. q[1] = M(r) /\ q[2] = r[2] /\ M(r) \in Int /\ r[1] <= M(r) /\ max < M(r)
          BY <4>1, <1>7, LowAreNumbers
        <5> QED
          BY <5>1, <2>1, <1>2, <1>3
      <4> QED
        BY <4>2, <1>1, <1>3
    <3> QED
      BY <3>1, <3>2, <1>5
  <2>2. ASSUME x \in RunValues(R), x \notin min .. max PROVE \E q \in Q : q[1] <= x /\ x <= q[2]
    <3>1. PICK r \in R : r[1] <= x /\ x <= r[2]
      BY <2>2, <1>1
    <3>2. CASE x < min
      <4>1. r[1] < min /\ x <= m(r)
        BY <3>1, <3>2, <1>2, <1>3, <1>4
      <4>2. <<r[1], m(r)>> \in Q
        BY <4>1, <1>5
      <4> QED
        BY <4>1, <4>2, <3>1
    <3>3. CASE x > max
      <4>1. r[2] > max /\ M(r) <= x
        BY <3>1, <3>3, <1>2, <1>3, <1>4
      <4>2. <<M(r), r[2]>> \in Q
        BY <4>1, <1>5
      <4> QED
        BY <4>1, <4>2, <3>1
    <3> QED
      BY <3>2, <3>3, <2>2, <1>3
  <2> QED
    BY <2>1, <2>2, <1>12
<1>14. RunValues(Q) = RunValues(R) \ (min .. max)
  <2>1. \A x : x \in RunValues(Q) => x \in Int
    BY <1>12
  <2>2. \A x : x \in RunValues(R) => x \in Int
    BY <1>1
  <2> QED
    BY <1>13, <2>1, <2>2
<1> QED
  BY <1>11, <1>14 DEF Q

\* A value is taken out of a run, which may become two.
LEMMA RunRemoved ==
  ASSUME NEW c, NEW S, IsRun(c, S), NEW v \in Low
  PROVE  IsRun(run_container_remove(c, v), S \ {v})
<1> DEFINE R == c.runs
           hit == {r \in R : v \in r[1] .. r[2]}
           left == {rle16(r[1], v - 1) : r \in {s \in hit : s[1] < v}}
           right == {rle16(v + 1, r[2]) : r \in {s \in hit : v < s[2]}}
           Q == (R \ hit) \cup left \cup right
<1>1. /\ Apart(R) /\ S = RunValues(R)
      /\ \A r \in R : r = <<r[1], r[2]>> /\ r[1] \in Low /\ r[2] \in Low /\ r[1] <= r[2]
  BY RunHas, ApartHaveValues
<1>2. v \in Int /\ \A r \in R : r[1] \in Int /\ r[2] \in Int
  BY <1>1, LowAreNumbers
<1>3. \A r \in R : /\ Min({r[2], v - 1}) = (IF r[2] <= v - 1 THEN r[2] ELSE v - 1)
                   /\ Max({r[1], v + 1}) = (IF r[1] <= v + 1 THEN v + 1 ELSE r[1])
  BY <1>2, MinOfTwo, MaxOfTwo
<1>4. \A q : q \in LeftRuns(R, v) <=> \E r \in R : r[1] < v /\ q = <<r[1], IF r[2] <= v - 1 THEN r[2] ELSE v - 1>>
  BY <1>3 DEF LeftRuns, rle16
<1>5. \A q : q \in RightRuns(R, v) <=> \E r \in R : r[2] > v /\ q = <<IF r[1] <= v + 1 THEN v + 1 ELSE r[1], r[2]>>
  BY <1>3 DEF RightRuns, rle16
<1>6. \A q : q \in Q <=> \/ \E r \in R : ~ (r[1] <= v /\ v <= r[2]) /\ q = <<r[1], r[2]>>
                         \/ \E r \in R : r[1] < v /\ v <= r[2] /\ q = <<r[1], v - 1>>
                         \/ \E r \in R : r[1] <= v /\ v < r[2] /\ q = <<v + 1, r[2]>>
  <2>1. \A q : q \in R \ hit <=> \E r \in R : ~ (r[1] <= v /\ v <= r[2]) /\ q = <<r[1], r[2]>>
    BY <1>1, <1>2
  <2>2. \A q : q \in left <=> \E r \in R : r[1] < v /\ v <= r[2] /\ q = <<r[1], v - 1>>
    BY <1>2 DEF rle16
  <2>3. \A q : q \in right <=> \E r \in R : r[1] <= v /\ v < r[2] /\ q = <<v + 1, r[2]>>
    BY <1>2 DEF rle16
  <2> HIDE DEF hit, left, right
  <2> QED
    BY <2>1, <2>2, <2>3
<1>7. run_container_remove(c, v) = Run(Q)
  BY DEF run_container_remove
<1> HIDE DEF Q
<1>8. \A q : q \in Q => q \in LeftRuns(R, v) \cup RightRuns(R, v)
  <2> SUFFICES ASSUME NEW q \in Q PROVE q \in LeftRuns(R, v) \cup RightRuns(R, v)
    OBVIOUS
  <2>1. CASE \E r \in R : ~ (r[1] <= v /\ v <= r[2]) /\ q = <<r[1], r[2]>>
    <3>1. PICK r \in R : ~ (r[1] <= v /\ v <= r[2]) /\ q = <<r[1], r[2]>>
      BY <2>1
    <3>2. CASE v < r[1]
      <4>1. r[2] > v /\ (IF r[1] <= v + 1 THEN v + 1 ELSE r[1]) = r[1]
        BY <3>1, <3>2, <1>1, <1>2
      <4> QED
        BY <4>1, <3>1, <1>5
    <3>3. CASE r[2] < v
      <4>1. r[1] < v /\ (IF r[2] <= v - 1 THEN r[2] ELSE v - 1) = r[2]
        BY <3>1, <3>3, <1>1, <1>2
      <4> QED
        BY <4>1, <3>1, <1>4
    <3> QED
      BY <3>1, <3>2, <3>3, <1>2
  <2>2. CASE \E r \in R : r[1] < v /\ v <= r[2] /\ q = <<r[1], v - 1>>
    <3>1. PICK r \in R : r[1] < v /\ v <= r[2] /\ q = <<r[1], v - 1>>
      BY <2>2
    <3>2. (IF r[2] <= v - 1 THEN r[2] ELSE v - 1) = v - 1
      BY <3>1, <1>2
    <3> QED
      BY <3>1, <3>2, <1>4
  <2>3. CASE \E r \in R : r[1] <= v /\ v < r[2] /\ q = <<v + 1, r[2]>>
    <3>1. PICK r \in R : r[1] <= v /\ v < r[2] /\ q = <<v + 1, r[2]>>
      BY <2>3
    <3>2. (IF r[1] <= v + 1 THEN v + 1 ELSE r[1]) = v + 1
      BY <3>1, <1>2
    <3> QED
      BY <3>1, <3>2, <1>5
  <2> QED
    BY <2>1, <2>2, <2>3, <1>6
<1>9. \A q : q \in LeftRuns(R, v) => q \in Q
  <2> SUFFICES ASSUME NEW r \in R, r[1] < v PROVE <<r[1], IF r[2] <= v - 1 THEN r[2] ELSE v - 1>> \in Q
    BY <1>4
  <2>1. CASE r[2] < v
    <3>1. (IF r[2] <= v - 1 THEN r[2] ELSE v - 1) = r[2] /\ ~ (r[1] <= v /\ v <= r[2])
      BY <2>1, <1>2
    <3> QED
      BY <3>1, <1>6
  <2>2. CASE v <= r[2]
    <3>1. (IF r[2] <= v - 1 THEN r[2] ELSE v - 1) = v - 1
      BY <2>2, <1>2
    <3> QED
      BY <3>1, <2>2, <1>6
  <2> QED
    BY <2>1, <2>2, <1>2
<1>10. \A q : q \in RightRuns(R, v) => q \in Q
  <2> SUFFICES ASSUME NEW r \in R, r[2] > v PROVE <<IF r[1] <= v + 1 THEN v + 1 ELSE r[1], r[2]>> \in Q
    BY <1>5
  <2>1. CASE v < r[1]
    <3>1. (IF r[1] <= v + 1 THEN v + 1 ELSE r[1]) = r[1] /\ ~ (r[1] <= v /\ v <= r[2])
      BY <2>1, <1>2
    <3> QED
      BY <3>1, <1>6
  <2>2. CASE r[1] <= v
    <3>1. (IF r[1] <= v + 1 THEN v + 1 ELSE r[1]) = v + 1
      BY <2>2, <1>2
    <3> QED
      BY <3>1, <2>2, <1>6, <1>2
  <2> QED
    BY <2>1, <2>2, <1>2
<1>11. Q = LeftRuns(R, v) \cup RightRuns(R, v)
  BY <1>8, <1>9, <1>10
<1>12. Apart(Q) /\ RunValues(Q) = S \ (v .. v)
  <2>1. v <= v
    BY <1>2
  <2>2. /\ Apart(LeftRuns(R, v) \cup RightRuns(R, v))
        /\ RunValues(LeftRuns(R, v) \cup RightRuns(R, v)) = RunValues(R) \ (v .. v)
    BY ONLY <1>1, <2>1, v \in Low, CutRuns
  <2> QED
    BY <2>2, <1>1, <1>11
<1>13. v .. v = {v}
  BY <1>2
<1> QED
  BY <1>7, <1>12, <1>13, RunOf

-----------------------------------------------------------------------------
(* One value.                                                               *)

\* How many values there are with one more, or one less.
LEMMA CountOfOne ==
  ASSUME NEW S \in SUBSET Low, NEW v \in Low
  PROVE  /\ S \cup {v} \in SUBSET Low /\ S \ {v} \in SUBSET Low
         /\ Cardinality(S \cup {v}) = Cardinality(S) + (IF v \in S THEN 0 ELSE 1)
         /\ Cardinality(S \ {v}) = Cardinality(S) - (IF v \in S THEN 1 ELSE 0)
         /\ Cardinality(S \cup {v}) \in Nat /\ Cardinality(S \ {v}) \in Nat /\ Cardinality(S) \in Nat
         /\ IsFiniteSet(S)
<1>1. IsFiniteSet(S) /\ Cardinality(S) \in Nat /\ S \cup {v} \in SUBSET Low /\ S \ {v} \in SUBSET Low
  BY CountOfSet, ContainerConstants
<1>2. /\ Cardinality(S \cup {v}) = Cardinality(S) + (IF v \in S THEN 0 ELSE 1)
      /\ Cardinality(S \ {v}) = Cardinality(S) - (IF v \in S THEN 1 ELSE 0)
  <2>1. CASE v \in S
    <3>1. S \cup {v} = S
      BY <2>1
    <3>2. Cardinality(S \ {v}) = Cardinality(S) - 1
      BY <1>1, <2>1, FS_RemoveElement
    <3> QED
      BY <1>1, <2>1, <3>1, <3>2
  <2>2. CASE v \notin S
    <3>1. S \ {v} = S
      BY <2>2
    <3>2. Cardinality(S \cup {v}) = Cardinality(S) + 1
      BY <1>1, <2>2, FS_AddElement
    <3> QED
      BY <1>1, <2>2, <3>1, <3>2
  <2> QED
    BY <2>1, <2>2
<1>3. Cardinality(S \cup {v}) \in 0 .. ChunkSize /\ Cardinality(S \ {v}) \in 0 .. ChunkSize
  BY <1>1, CountOfSet
<1> QED
  BY <1>1, <1>2, <1>3, ContainerConstants

\* container_add adds the value.
LEMMA Added ==
  ASSUME NEW c, NEW S, Sound(c, S), NEW v \in Low
  PROVE  Sound(container_add(c, v), S \cup {v})
<1> USE ContainerConstants
<1>1. CASE IsArray(c, S)
  <2>0. S \in SUBSET Low /\ c.type = "array" /\ c.values = S /\ Cardinality(S) <= DEFAULT_MAX_SIZE
    BY <1>1, ArrayHas
  <2>1. container_add(c, v) = IF array_container_try_add(c, v, DEFAULT_MAX_SIZE) THEN Array(S \cup {v})
                              ELSE bitset_container_set(bitset_container_from_array(c), v)
    BY <2>0 DEF container_add
  <2>2. array_container_try_add(c, v, DEFAULT_MAX_SIZE) <=> v \in S \/ Cardinality(S) < DEFAULT_MAX_SIZE
    BY <2>0 DEF array_container_try_add
  <2>3. bitset_container_set(bitset_container_from_array(c), v) = Bitset(S \cup {v}, Cardinality(S) + (IF v \in S THEN 0 ELSE 1))
    BY <2>0 DEF bitset_container_set, bitset_container_from_array, Bitset
  <2>4. CASE v \in S \/ Cardinality(S) < DEFAULT_MAX_SIZE
    <3>1. Cardinality(S \cup {v}) <= DEFAULT_MAX_SIZE /\ S \cup {v} \in SUBSET Low
      <4>1. Cardinality(S \cup {v}) = Cardinality(S) + (IF v \in S THEN 0 ELSE 1) /\ S \cup {v} \in SUBSET Low
            /\ Cardinality(S) \in Nat
        BY <2>0, CountOfOne
      <4> QED
        BY ONLY <2>0, <2>4, <4>1, ContainerConstants
    <3> QED
      BY <2>1, <2>2, <2>4, <3>1, ArrayOf
  <2>5. CASE v \notin S /\ ~ (Cardinality(S) < DEFAULT_MAX_SIZE)
    <3>1. container_add(c, v) = Bitset(S \cup {v}, Cardinality(S \cup {v}))
      BY <2>0, <2>1, <2>2, <2>3, <2>5, CountOfOne
    <3>2. Cardinality(S \cup {v}) > DEFAULT_MAX_SIZE /\ S \cup {v} \in SUBSET Low
      BY <2>0, <2>5, CountOfOne
    <3> QED
      BY <3>1, <3>2, BitsetOf
  <2> QED
    BY <2>4, <2>5
<1>2. CASE IsBitset(c, S) /\ Cardinality(S) > DEFAULT_MAX_SIZE
  <2>0. S \in SUBSET Low /\ c.type = "bitset" /\ c.values = S /\ c.cardinality = Cardinality(S)
    BY <1>2, BitsetHas
  <2>1. container_add(c, v) = Bitset(S \cup {v}, Cardinality(S) + (IF v \in S THEN 0 ELSE 1))
    BY <2>0 DEF container_add, bitset_container_set
  <2>2. Cardinality(S \cup {v}) = Cardinality(S) + (IF v \in S THEN 0 ELSE 1) /\ S \cup {v} \in SUBSET Low
        /\ Cardinality(S \cup {v}) > DEFAULT_MAX_SIZE
    <3>1. Cardinality(S \cup {v}) = Cardinality(S) + (IF v \in S THEN 0 ELSE 1) /\ S \cup {v} \in SUBSET Low
          /\ Cardinality(S) \in Nat
      BY <2>0, CountOfOne
    <3> QED
      BY ONLY <1>2, <3>1, ContainerConstants
  <2> QED
    BY <2>1, <2>2, BitsetOf
<1>3. CASE IsRun(c, S)
  <2>1. container_add(c, v) = run_container_add(c, v)
    BY <1>3, RunHas DEF container_add
  <2> QED
    BY <1>3, <2>1, RunAdded, SoundWhen
<1> QED
  BY <1>1, <1>2, <1>3, SoundIs

\* container_remove removes the value.
LEMMA Removed ==
  ASSUME NEW c, NEW S, Sound(c, S), NEW v \in Low
  PROVE  Sound(container_remove(c, v), S \ {v})
<1> USE ContainerConstants
<1>1. CASE IsArray(c, S)
  <2>0. S \in SUBSET Low /\ c.type = "array" /\ c.values = S /\ Cardinality(S) <= DEFAULT_MAX_SIZE
    BY <1>1, ArrayHas
  <2>1. container_remove(c, v) = Array(S \ {v})
    BY <2>0 DEF container_remove
  <2>2. Cardinality(S \ {v}) <= DEFAULT_MAX_SIZE /\ S \ {v} \in SUBSET Low
    BY <2>0, CountOfOne
  <2> QED
    BY <2>1, <2>2, ArrayOf
<1>2. CASE IsBitset(c, S) /\ Cardinality(S) > DEFAULT_MAX_SIZE
  <2>0. S \in SUBSET Low /\ c.type = "bitset" /\ c.values = S /\ c.cardinality = Cardinality(S)
    BY <1>2, BitsetHas
  <2>1. container_remove(c, v) = IF v \in S THEN ArrayIfSmall(Bitset(S \ {v}, Cardinality(S) - (IF v \in S THEN 1 ELSE 0))) ELSE c
    BY <2>0 DEF container_remove, bitset_container_remove
  <2>2. Cardinality(S \ {v}) = Cardinality(S) - (IF v \in S THEN 1 ELSE 0) /\ S \ {v} \in SUBSET Low
    BY <2>0, CountOfOne
  <2>3. CASE v \in S
    <3>1. container_remove(c, v) = ArrayIfSmall(Bitset(S \ {v}, Cardinality(S \ {v})))
      BY <2>1, <2>2, <2>3
    <3> QED
      BY <3>1, <2>2, SmallBecomesArray
  <2>4. CASE v \notin S
    <3>1. container_remove(c, v) = c /\ S \ {v} = S
      BY <2>1, <2>4
    <3> QED
      BY <3>1, <1>2, SoundWhen
  <2> QED
    BY <2>3, <2>4
<1>3. CASE IsRun(c, S)
  <2>1. container_remove(c, v) = run_container_remove(c, v)
    BY <1>3, RunHas DEF container_remove
  <2> QED
    BY <1>3, <2>1, RunRemoved, SoundWhen
<1> QED
  BY <1>1, <1>2, <1>3, SoundIs

-----------------------------------------------------------------------------
(* Ranges of values.                                                        *)

\* container_add_range adds the range.
LEMMA AddedRange ==
  ASSUME NEW c, NEW S, Sound(c, S), NEW min \in Low, NEW max \in Low, min <= max
  PROVE  Sound(container_add_range(c, min, max), S \cup min .. max)
<1> USE ContainerConstants
<1> DEFINE I == min .. max
           U == S \cup I
<1>0. I \in SUBSET Low /\ Cardinality(I) = max - min + 1 /\ min \in Int /\ max \in Int
  BY CountOfInterval, LowAreNumbers
<1>a. \A x : x \in I <=> x \in Int /\ min <= x /\ x <= max
  BY <1>0
<1>b. S \in SUBSET Low => /\ U \in SUBSET Low /\ Cardinality(U) \in Nat /\ Cardinality(U) <= ChunkSize
                          /\ Cardinality(U) = Cardinality(S) + (max - min + 1) - Cardinality(S \cap I)
                          /\ Cardinality(S \cap I) \in Nat /\ Cardinality(S) \in Nat /\ Cardinality(S) <= Cardinality(U)
                          /\ (Cardinality(U) = ChunkSize => U = Low)
  <2> HIDE DEF I
  <2> SUFFICES ASSUME S \in SUBSET Low PROVE
                          /\ U \in SUBSET Low /\ Cardinality(U) \in Nat /\ Cardinality(U) <= ChunkSize
                          /\ Cardinality(U) = Cardinality(S) + (max - min + 1) - Cardinality(S \cap I)
                          /\ Cardinality(S \cap I) \in Nat /\ Cardinality(S) \in Nat /\ Cardinality(S) <= Cardinality(U)
                          /\ (Cardinality(U) = ChunkSize => U = Low)
    OBVIOUS
  <2>1. Cardinality(U) = Cardinality(S) + Cardinality(I \ S) /\ Cardinality(I) = Cardinality(I \ S) + Cardinality(I \cap S)
    BY <1>0, CountOfTwo
  <2>2. U \in SUBSET Low /\ I \ S \in SUBSET Low /\ S \cap I \in SUBSET Low /\ S \cap I = I \cap S
    BY <1>0
  <2>3. Cardinality(I \ S) \in Nat /\ Cardinality(S \cap I) \in Nat /\ Cardinality(S) \in Nat /\ Cardinality(U) \in Nat
        /\ Cardinality(U) <= ChunkSize /\ (Cardinality(U) = ChunkSize => U = Low)
    BY <2>2, CountOfSet
  <2>4. Cardinality(I \cap S) = Cardinality(S \cap I)
    BY <2>2
  <2> HIDE DEF U
  <2> QED
    BY ONLY <1>0, <2>1, <2>2, <2>3, <2>4
<1> HIDE DEF I
<1>1. CASE IsArray(c, S)
  <2>0. S \in SUBSET Low /\ c.type = "array" /\ c.values = S /\ Cardinality(S) <= DEFAULT_MAX_SIZE
    BY <1>1, ArrayHas
  <2> DEFINE greater == {v \in S : v > max}
             less == {v \in S : v < min}
             card == Cardinality(less) + (max - min + 1) + Cardinality(greater)
  <2>1. less \in SUBSET Low /\ greater \in SUBSET Low /\ less \cup I \cup greater = U
    <3>1. \A x \in S : x \in Int
      BY <2>0, LowAreNumbers
    <3>2. \A x : x \in less \cup I \cup greater <=> x \in S \/ x \in I
      BY <3>1, <1>0, <1>a
    <3> QED
      BY <3>2, <2>0
  <2>2. card = Cardinality(U)
    <3>1. Cardinality(less \cup I) = Cardinality(less) + Cardinality(I \ less)
      BY <2>1, <1>0, CountOfTwo
    <3>2. less \cup I \in SUBSET Low
      BY <2>1, <1>0
    <3>3. Cardinality((less \cup I) \cup greater) = Cardinality(less \cup I) + Cardinality(greater \ (less \cup I))
      BY <2>1, <3>2, CountOfTwo
    <3>4. I \ less = I /\ greater \ (less \cup I) = greater
      <4>1. \A x \in S : x \in Int
        BY <2>0, LowAreNumbers
      <4>2. \A x \in I : x \notin less /\ x \notin greater
        BY <1>a, <1>0
      <4>3. \A x \in greater : x \notin less
        BY <4>1, <1>0
      <4> HIDE DEF less, greater
      <4> QED
        BY <4>2, <4>3
    <3>5. Cardinality(less) \in Int /\ Cardinality(greater) \in Int
      BY <2>1, CountOfSet
    <3> HIDE DEF less, greater
    <3> QED
      BY <3>1, <3>3, <3>4, <3>5, <2>1, <1>0
  <2>3. container_add_range(c, min, max) =
          CASE card = ChunkSize         -> Run({rle16(0, ChunkSize - 1)})
            [] card <= DEFAULT_MAX_SIZE -> Array(less \cup I \cup greater)
            [] card > DEFAULT_MAX_SIZE /\ card # ChunkSize -> Bitset(U, card)
    BY <2>0 DEF container_add_range, array_container_add_range, I
  <2> HIDE DEF less, greater, card
  <2>4. CASE card = ChunkSize
    <3>1. container_add_range(c, min, max) = Run({rle16(0, ChunkSize - 1)})
      BY <2>3, <2>4
    <3> QED
      BY <3>1, <2>2, <2>4, <2>0, <1>b, FullRunOf DEF I
  <2>5. CASE card # ChunkSize /\ card <= DEFAULT_MAX_SIZE
    <3>1. container_add_range(c, min, max) = Array(U)
      <4>1. card \in Nat
        BY <2>2, <2>0, <1>b
      <4>2. ~ (card > DEFAULT_MAX_SIZE)
        BY <4>1, <2>5
      <4>3. container_add_range(c, min, max) = Array(less \cup I \cup greater)
        BY ONLY <2>3, <2>5, <4>2
      <4> QED
        BY <2>1, <4>3
    <3> QED
      BY <3>1, <2>2, <2>5, <2>0, <1>b, ArrayOf DEF I
  <2>6. CASE card # ChunkSize /\ card > DEFAULT_MAX_SIZE
    <3>1. container_add_range(c, min, max) = Bitset(U, card)
      BY <2>2, <2>3, <2>6, <2>0, <1>b
    <3> QED
      BY <3>1, <2>2, <2>6, <2>0, <1>b, BitsetOf DEF I
  <2> QED
    BY <2>2, <2>4, <2>5, <2>6, <2>0, <1>b
<1>2. CASE IsBitset(c, S) /\ Cardinality(S) > DEFAULT_MAX_SIZE
  <2>0. S \in SUBSET Low /\ c.type = "bitset" /\ c.values = S /\ c.cardinality = Cardinality(S)
    BY <1>2, BitsetHas
  <2>1. container_add_range(c, min, max) = IF Cardinality(U) = ChunkSize THEN Run({rle16(0, ChunkSize - 1)}) ELSE Bitset(U, Cardinality(U))
    BY <2>0, <1>b DEF container_add_range, bitset_container_add_range, I
  <2>2. CASE Cardinality(U) = ChunkSize
    BY <2>1, <2>2, <2>0, <1>b, FullRunOf DEF I
  <2>3. CASE Cardinality(U) # ChunkSize
    <3>1. Cardinality(U) > DEFAULT_MAX_SIZE
      BY <1>2, <2>0, <1>b
    <3> QED
      BY <2>1, <2>3, <3>1, <2>0, <1>b, BitsetOf DEF I
  <2> QED
    BY <2>2, <2>3
<1>3. CASE IsRun(c, S)
  <2>0. Apart(c.runs) /\ S = RunValues(c.runs) /\ S \in SUBSET Low /\ run_container_cardinality(c) = Cardinality(S) /\ c.type = "run"
    BY <1>3, RunHas
  <2>1. \/ container_add_range(c, min, max) = run_container_add_range_nruns(c, min, max, RunsBefore(c.runs, min), RunsBehind(c.runs, max))
        \/ container_add_range(c, min, max) = container_from_run_range(c, min, max)
    BY <2>0 DEF container_add_range, run_container_add_range, RunsBefore, RunsBehind
  <2>2. run_container_add_range_nruns(c, min, max, RunsBefore(c.runs, min), RunsBehind(c.runs, max)) = Run(JoinedRuns(c.runs, min, max))
    BY DEF run_container_add_range_nruns, JoinedRuns, JoinedFirst, JoinedLast, RunsTouching
  <2>3. container_from_run_range(c, min, max) = ArrayIfSmall(Bitset(U, Cardinality(U)))
    BY <2>0, <1>b DEF container_from_run_range, I
  <2>4. Apart(JoinedRuns(c.runs, min, max)) /\ RunValues(JoinedRuns(c.runs, min, max)) = U
    BY <2>0, RunsJoined DEF I
  <2>5. Sound(Run(JoinedRuns(c.runs, min, max)), U)
    BY <2>4, RunOf
  <2>6. Sound(ArrayIfSmall(Bitset(U, Cardinality(U))), U)
    BY <2>0, <1>b, SmallBecomesArray
  <2> QED
    BY <2>1, <2>2, <2>3, <2>5, <2>6 DEF I
<1> QED
  BY <1>1, <1>2, <1>3, SoundIs

\* What an operation leaves that returns NULL instead of an empty container.
SoundOrNull(c, S) == (S = {} /\ c = NULL) \/ (S # {} /\ Sound(c, S))
ExactOrNull(c, S) == (S = {} /\ c = NULL) \/ (S # {} /\ Exact(c, S))

\* The first and the last value of runs.
LEMMA EndsOfRuns ==
  ASSUME NEW c, NEW S, IsRun(c, S), S # {}
  PROVE  /\ run_container_minimum(c) \in S /\ run_container_maximum(c) \in S
         /\ \A x \in S : run_container_minimum(c) <= x /\ x <= run_container_maximum(c)
<1> DEFINE R == c.runs
           A == {r[1] : r \in R}
           B == {r[2] : r \in R}
<1>1. /\ S = RunValues(R) /\ S \in SUBSET Low /\ R # {}
      /\ \A x : x \in S <=> x \in Int /\ \E r \in R : r[1] <= x /\ x <= r[2]
      /\ \A r \in R : r[1] \in Low /\ r[2] \in Low /\ r[1] <= r[2]
  BY RunHas, ApartHaveValues
<1>2. \A r \in R : r[1] \in Int /\ r[2] \in Int /\ 0 <= r[1] /\ r[2] <= ChunkSize
  BY <1>1, LowAreNumbers, ContainerConstants
<1>3. Min(A) \in A /\ \A x \in A : Min(A) <= x
  <2>1. A \in SUBSET Int /\ A # {} /\ 0 \in Int /\ \A x \in A : 0 <= x
    BY <1>1, <1>2
  <2> QED
    BY ONLY <2>1, MinOfSome
<1>4. Max(B) \in B /\ \A x \in B : x <= Max(B)
  <2>1. B \in SUBSET Int /\ B # {} /\ ChunkSize \in Int /\ \A x \in B : x <= ChunkSize
    BY <1>1, <1>2, ContainerConstants
  <2> QED
    BY ONLY <2>1, MaxOfSome
<1>5. run_container_minimum(c) = Min(A) /\ run_container_maximum(c) = Max(B)
  BY <1>1 DEF run_container_minimum, run_container_maximum
<1>6. \A r \in R : Min(A) <= r[1] /\ r[2] <= Max(B)
  BY <1>3, <1>4
<1>7. PICK r \in R : Min(A) = r[1]
  BY <1>3
<1>8. PICK s \in R : Max(B) = s[2]
  BY <1>4
<1>9. Min(A) \in S /\ Max(B) \in S
  BY <1>1, <1>2, <1>7, <1>8
<1>10. ASSUME NEW x \in S PROVE Min(A) <= x /\ x <= Max(B)
  <2>1. PICK q \in R : q[1] <= x /\ x <= q[2]
    BY <1>1
  <2>2. x \in Int /\ Min(A) \in Int /\ Max(B) \in Int /\ q[1] \in Int /\ q[2] \in Int
    BY <1>1, <1>2, <1>9, LowAreNumbers
  <2>3. Min(A) <= q[1] /\ q[2] <= Max(B)
    BY <1>6
  <2> QED
    BY ONLY <2>1, <2>2, <2>3
<1> QED
  BY <1>5, <1>9, <1>10

\* container_remove_range removes the range, and leaves NULL for nothing.
LEMMA RemovedRange ==
  ASSUME NEW c, NEW S, Sound(c, S), S # {}, NEW min \in Low, NEW max \in Low, min <= max
  PROVE  SoundOrNull(container_remove_range(c, min, max), S \ (min .. max))
<1> USE ContainerConstants
<1> DEFINE I == min .. max
           T == S \ I
<1>0. I \in SUBSET Low /\ min \in Int /\ max \in Int
  BY CountOfInterval, LowAreNumbers
<1>a. S \in SUBSET Low => /\ T \in SUBSET Low /\ Cardinality(T) = Cardinality(S) - Cardinality(S \cap I)
                          /\ Cardinality(T) \in Nat /\ (Cardinality(T) = 0 <=> T = {})
                          /\ Cardinality(T) <= Cardinality(S)
  <2> HIDE DEF I
  <2> SUFFICES ASSUME S \in SUBSET Low
               PROVE  /\ T \in SUBSET Low /\ Cardinality(T) = Cardinality(S) - Cardinality(S \cap I)
                      /\ Cardinality(T) \in Nat /\ (Cardinality(T) = 0 <=> T = {})
                      /\ Cardinality(T) <= Cardinality(S)
    OBVIOUS
  <2>1. S \cap I = I \cap S /\ T \in SUBSET Low /\ S \cap I \in SUBSET Low
    BY <1>0
  <2>2. Cardinality(T) = Cardinality(S) - Cardinality(I \cap S)
    BY <1>0, CountOfTwo
  <2>3. Cardinality(S \cap I) \in Nat /\ Cardinality(S) \in Nat /\ Cardinality(T) \in Nat /\ (Cardinality(T) = 0 <=> T = {})
    BY <2>1, CountOfSet
  <2>4. Cardinality(I \cap S) = Cardinality(S \cap I)
    BY <2>1
  <2> HIDE DEF T
  <2> QED
    BY ONLY <2>1, <2>2, <2>3, <2>4
<1>1. CASE IsArray(c, S)
  <2>0. S \in SUBSET Low /\ c.type = "array" /\ c.values = S /\ Cardinality(S) <= DEFAULT_MAX_SIZE /\ Cardinality(S) \in Nat
    BY <1>1, ArrayHas
  <2>1. container_remove_range(c, min, max) = IF T = {} THEN NULL ELSE Array(T)
    BY <2>0 DEF container_remove_range, array_container_remove_range
  <2>2. Sound(Array(T), T)
    <3> HIDE DEF T
    <3>1. T \in SUBSET Low /\ Cardinality(T) <= DEFAULT_MAX_SIZE
      BY <2>0, <1>a
    <3> QED
      BY <3>1, ArrayOf
  <2> QED
    BY <2>1, <2>2 DEF SoundOrNull
<1>2. CASE IsBitset(c, S)
  <2>0. S \in SUBSET Low /\ c.type = "bitset" /\ c.values = S /\ c.cardinality = Cardinality(S)
    BY <1>2, BitsetHas
  <2>1. container_remove_range(c, min, max) = IF Cardinality(T) = 0 THEN NULL ELSE ArrayIfSmall(Bitset(T, Cardinality(T)))
    BY <2>0, <1>a DEF container_remove_range, bitset_container_remove_range
  <2>2. Sound(ArrayIfSmall(Bitset(T, Cardinality(T))), T)
    BY <2>0, <1>a, SmallBecomesArray
  <2> HIDE DEF T
  <2> QED
    BY <2>0, <2>1, <2>2, <1>a DEF SoundOrNull, T
<1>3. CASE IsRun(c, S)
  <2>0. Apart(c.runs) /\ S = RunValues(c.runs) /\ S \in SUBSET Low /\ c.type = "run"
    BY <1>3, RunHas
  <2> DEFINE r == Run(LeftRuns(c.runs, min) \cup RightRuns(c.runs, max))
  <2>1. container_remove_range(c, min, max) =
          IF min <= run_container_minimum(c) /\ max >= run_container_maximum(c) THEN NULL ELSE convert_run_to_efficient_container(r)
    BY <2>0 DEF container_remove_range, run_container_remove_range, LeftRuns, RightRuns
  <2>2. IsRun(r, T)
    <3>1. /\ Apart(LeftRuns(c.runs, min) \cup RightRuns(c.runs, max))
          /\ RunValues(LeftRuns(c.runs, min) \cup RightRuns(c.runs, max)) = T
      BY <2>0, CutRuns
    <3> QED
      BY <3>1, RunOf
  <2>3. Sound(convert_run_to_efficient_container(r), T)
    BY <2>2, RunsMadeEfficient
  <2>4. T = {} <=> min <= run_container_minimum(c) /\ max >= run_container_maximum(c)
    <3>1. /\ run_container_minimum(c) \in S /\ run_container_maximum(c) \in S
          /\ \A x \in S : run_container_minimum(c) <= x /\ x <= run_container_maximum(c)
      BY <1>3, EndsOfRuns
    <3>2. \A x \in S : x \in Int /\ (x \in T <=> x < min \/ x > max)
      BY <2>0, <1>0, LowAreNumbers
    <3>3. T \subseteq S
      OBVIOUS
    <3> HIDE DEF T
    <3> QED
      BY <3>1, <3>2, <3>3, <1>0
  <2> HIDE DEF r
  <2>5. CASE T = {}
    BY <2>1, <2>4, <2>5 DEF SoundOrNull
  <2>6. CASE T # {}
    <3>1. container_remove_range(c, min, max) = convert_run_to_efficient_container(r)
      BY <2>1, <2>4, <2>6
    <3> QED
      BY <2>3, <2>6, <3>1 DEF SoundOrNull
  <2> QED
    BY <2>5, <2>6
<1> QED
  BY <1>1, <1>2, <1>3 DEF Sound, Exact

-----------------------------------------------------------------------------
(* A range with a step.                                                     *)

Stepped(first, end, step) == {v \in first .. end - 1 : (v - first) % step = 0}

\* How many values a range with a step has.
LEMMA CountOfSteps ==
  ASSUME NEW first \in Low, NEW end \in Nat, end <= ChunkSize, first < end, NEW step \in Nat \ {0}
  PROVE  /\ Stepped(first, end, step) \in SUBSET Low /\ first \in Stepped(first, end, step)
         /\ Cardinality(Stepped(first, end, step)) = (end - first + step - 1) \div step
<1> DEFINE S == Stepped(first, end, step)
           size == (end - first + step - 1) \div step
           f == [n \in 1 .. size |-> first + (n - 1) * step]
<1>1. first \in Int /\ 0 <= first
  BY LowAreNumbers
<1>2. S \in SUBSET Low /\ first \in S
  <2>1. first \in first .. end - 1 /\ (first - first) % step = 0
    BY <1>1
  <2>2. \A v \in first .. end - 1 : v \in Low
    BY <1>1, ContainerConstants DEF Low
  <2> QED
    BY <2>1, <2>2 DEF Stepped
<1>3. size \in Nat
  BY <1>1
<1>4. \A n \in Nat : n < size <=> n * step < end - first
  BY <1>1
<1>5. \A n \in Nat : (n * step) % step = 0 /\ n * step \in Nat
  OBVIOUS
<1>6. \A n, m \in Nat : n * step = m * step => n = m
  OBVIOUS
<1>7. \A x \in Nat : x % step = 0 => x = (x \div step) * step /\ x \div step \in Nat
  OBVIOUS
<1> HIDE DEF size
<1>8. \A n \in 1 .. size : f[n] \in S
  <2> SUFFICES ASSUME NEW n \in 1 .. size PROVE first + (n - 1) * step \in S
    OBVIOUS
  <2>1. n - 1 \in Nat /\ n - 1 < size
    BY <1>3
  <2>2. (n - 1) * step < end - first /\ ((n - 1) * step) % step = 0 /\ (n - 1) * step \in Nat
    BY <2>1, <1>4, <1>5
  <2>3. (first + (n - 1) * step) - first = (n - 1) * step
    BY <1>1, <2>2
  <2>4. first + (n - 1) * step \in first .. end - 1
    BY <1>1, <2>2
  <2> QED
    BY <2>2, <2>3, <2>4 DEF Stepped
<1>9. ASSUME NEW n \in 1 .. size, NEW m \in 1 .. size, f[n] = f[m] PROVE n = m
  <2>1. n - 1 \in Nat /\ m - 1 \in Nat /\ (n - 1) * step \in Nat /\ (m - 1) * step \in Nat
    BY <1>3, <1>5
  <2>2. first + (n - 1) * step = first + (m - 1) * step
    BY <1>9
  <2>3. (n - 1) * step = (m - 1) * step
    BY <2>1, <2>2, <1>1
  <2>4. n - 1 = m - 1
    BY <2>1, <2>3, <1>6
  <2> QED
    BY <2>4
<1>10. ASSUME NEW v \in S PROVE \E n \in 1 .. size : f[n] = v
  <2>1. v \in first .. end - 1 /\ (v - first) % step = 0
    BY DEF Stepped
  <2>2. v - first \in Nat /\ v - first < end - first /\ v \in Int
    BY <2>1, <1>1
  <2> DEFINE n == (v - first) \div step
  <2>3. v - first = n * step /\ n \in Nat
    BY <2>1, <2>2, <1>7
  <2>4. n < size
    BY <2>2, <2>3, <1>4
  <2> HIDE DEF n
  <2>5. n + 1 \in 1 .. size /\ f[n + 1] = v
    BY <2>2, <2>3, <2>4, <1>1, <1>3
  <2> QED
    BY <2>5
<1>11. f \in Injection(1 .. size, S) /\ f \in Surjection(1 .. size, S)
  <2> HIDE DEF S
  <2>1. f \in [1 .. size -> S]
    BY <1>8
  <2> HIDE DEF f
  <2> QED
    BY <2>1, <1>9, <1>10 DEF Injection, Surjection, IsInjective
<1>12. IsFiniteSet(1 .. size) /\ Cardinality(1 .. size) = size
  BY <1>3, FS_Interval
<1>13. Cardinality(S) = size
  <2>1. IsFiniteSet(S)
    BY <1>2, CountOfSet
  <2> HIDE DEF S, f
  <2> QED
    BY <1>11, <1>12, <2>1, FS_Injection
<1> QED
  BY <1>2, <1>13 DEF size

\* container_range_of_ones has the values of the range.
LEMMA OnesOfRange ==
  ASSUME NEW first \in Low, NEW end \in Nat, end <= ChunkSize, first < end
  PROVE  Sound(container_range_of_ones(first, end), first .. end - 1) /\ first \in first .. end - 1
<1> USE ContainerConstants
<1>1. first \in Int /\ end - 1 \in Low /\ first <= end - 1 /\ first \in first .. end - 1
  BY LowAreNumbers DEF Low
<1>2. CASE end - first + 1 <= 2
  <2>1. container_range_of_ones(first, end) = Array(first .. end - 1)
    BY <1>2 DEF container_range_of_ones
  <2>2. Cardinality(first .. end - 1) = end - 1 - first + 1 /\ first .. end - 1 \in SUBSET Low
    BY <1>1, CountOfInterval
  <2>3. Cardinality(first .. end - 1) <= DEFAULT_MAX_SIZE
    BY <1>1, <1>2, <2>2
  <2> QED
    BY <1>1, <2>1, <2>2, <2>3, ArrayOf
<1>3. CASE ~ (end - first + 1 <= 2)
  <2>1. container_range_of_ones(first, end) = Run({rle16(first, end - 1)})
    BY <1>3 DEF container_range_of_ones
  <2>2. Apart({rle16(first, end - 1)}) /\ RunValues({rle16(first, end - 1)}) = first .. end - 1
    BY <1>1, OneRun
  <2> QED
    BY <1>1, <2>1, <2>2, RunOf
<1> QED
  BY <1>2, <1>3

\* container_from_range has the values of the range with a step.
LEMMA MadeFromRange ==
  ASSUME NEW first \in Low, NEW end \in Nat, end <= ChunkSize, first < end, NEW step \in Nat \ {0}
  PROVE  /\ Sound(container_from_range(first, end, step), Stepped(first, end, step))
         /\ first \in Stepped(first, end, step)
<1> USE ContainerConstants
<1> DEFINE size == (end - first + step - 1) \div step
           S == Stepped(first, end, step)
<1>1. S \in SUBSET Low /\ first \in S /\ Cardinality(S) = size
  BY CountOfSteps
<1>2. container_from_range(first, end, step) =
        CASE step = 1 -> container_range_of_ones(first, end)
          [] step # 1 /\ size <= DEFAULT_MAX_SIZE -> Array(S)
          [] step # 1 /\ size > DEFAULT_MAX_SIZE  -> Bitset(S, size)
  BY DEF container_from_range, Stepped
<1>3. size \in Nat
  BY <1>1, CountOfSet
<1> HIDE DEF size, S
<1>4. CASE step = 1
  <2>1. S = first .. end - 1
    <3>1. \A v \in first .. end - 1 : (v - first) % 1 = 0
      BY LowAreNumbers
    <3> QED
      BY <3>1, <1>4 DEF S, Stepped
  <2>2. container_from_range(first, end, step) = container_range_of_ones(first, end)
    BY <1>2, <1>4
  <2> QED
    BY <1>1, <2>1, <2>2, OnesOfRange DEF S
<1>5. CASE step # 1 /\ size <= DEFAULT_MAX_SIZE
  <2>1. ~ (size > DEFAULT_MAX_SIZE)
    BY <1>3, <1>5
  <2>2. container_from_range(first, end, step) = Array(S)
    BY ONLY <1>2, <1>5, <2>1
  <2> QED
    BY <1>1, <1>5, <2>2, ArrayOf DEF S
<1>6. CASE step # 1 /\ size > DEFAULT_MAX_SIZE
  <2>1. ~ (size <= DEFAULT_MAX_SIZE)
    BY <1>3, <1>6
  <2>2. container_from_range(first, end, step) = Bitset(S, size)
    BY ONLY <1>2, <1>6, <2>1
  <2> QED
    BY <1>1, <1>6, <2>2, BitsetOf DEF S
<1> QED
  BY <1>3, <1>4, <1>5, <1>6

-----------------------------------------------------------------------------
(* Negation.                                                                *)

\* The sorted runs of a container are a chain.
LEMMA SortedRunsAreChain ==
  ASSUME NEW R, Apart(R)
  PROVE  Chain(SortedRuns(R)) /\ ToSet(SortedRuns(R)) = R
<1> DEFINE s == SortedRuns(R)
<1>1. /\ InOrder(s) /\ \A i \in DOMAIN s : s[i] \in R
      /\ \A r \in R : \E i \in DOMAIN s : s[i] = r
      /\ \A i, j \in DOMAIN s : i < j => s[i] # s[j]
  BY ApartAreSeparate, SortedRunsInOrder
<1>2. /\ \A r \in R : r[1] \in Low /\ r[2] \in Low /\ r[1] <= r[2]
      /\ \A r, q \in R : r # q => r[2] + 1 < q[1] \/ q[2] + 1 < r[1]
  BY ApartHaveValues
<1> HIDE DEF s
<1>3. ASSUME NEW i \in DOMAIN s, NEW j \in DOMAIN s, i < j PROVE s[i][2] + 1 < s[j][1]
  <2>1. s[i][1] <= s[j][1] /\ s[i] # s[j] /\ s[i] \in R /\ s[j] \in R
    BY <1>1, <1>3 DEF InOrder
  <2>2. s[i][1] \in Int /\ s[i][2] \in Int /\ s[j][1] \in Int /\ s[j][2] \in Int /\ s[j][1] <= s[j][2]
    BY <2>1, <1>2, LowAreNumbers
  <2> QED
    BY <2>1, <2>2, <1>2
<1>4. Chain(s)
  BY <1>1, <1>3 DEF Chain, InOrder
<1>5. ToSet(s) = R
  BY <1>1 DEF ToSet
<1> QED
  BY <1>4, <1>5 DEF s

\* Runs are negated in a range.
LEMMA RunsNegated ==
  ASSUME NEW c, NEW S, IsRun(c, S), NEW first \in Low, NEW end \in Nat, end <= ChunkSize, first < end
  PROVE  Sound(run_container_negation_range(c, first, end), SymDiff(S, first .. end - 1))
<1> DEFINE R == c.runs
           E == {r \in R : r[1] < first}
           L == {r \in R : r[1] >= first}
           chain == SortedRuns(E)
           tail == SortedRuns(L)
           s == <<rle16(first, end - 1)>> \o tail
           Q == ToSet(ExclusionsFrom(chain, s))
           base == ChainValues(chain)
<1>1. /\ Apart(R) /\ S = RunValues(R) /\ S \in SUBSET Low
      /\ \A x : x \in S <=> x \in Int /\ \E r \in R : r[1] <= x /\ x <= r[2]
      /\ \A r \in R : r = <<r[1], r[2]>> /\ r[1] \in Low /\ r[2] \in Low /\ r[1] <= r[2]
      /\ \A r, q \in R : r # q => r[2] + 1 < q[1] \/ q[2] + 1 < r[1]
  BY RunHas, ApartHaveValues
<1>2. \A r \in R : r[1] \in Int /\ r[2] \in Int
  BY <1>1, LowAreNumbers
<1>3. first \in Int /\ end - 1 \in Low /\ end - 1 \in Int /\ first <= end - 1
  BY LowAreNumbers, ContainerConstants DEF Low
<1>4. run_container_negation_range(c, first, end) = convert_run_to_efficient_container(Run(Q))
  BY <1>3 DEF run_container_negation_range, ExclusionsFrom
<1>5. Apart(E) /\ Apart(L)
  BY <1>1 DEF Apart
<1>6. Chain(chain) /\ ToSet(chain) = E /\ Chain(tail) /\ ToSet(tail) = L
  BY <1>5, SortedRunsAreChain
<1>7. /\ base = RunValues(E)
      /\ \A x : x \in base <=> x \in Int /\ \E r \in E : r[1] <= x /\ x <= r[2]
  BY <1>5, <1>6, ApartHaveValues DEF ChainValues
<1>8. /\ \A i \in DOMAIN tail : tail[i] \in L
      /\ \A r \in L : \E i \in DOMAIN tail : tail[i] = r
      /\ \A i, j \in DOMAIN tail : i < j => tail[i] # tail[j]
      /\ InOrder(tail)
  BY <1>5, ApartAreSeparate, SortedRunsInOrder
<1>9. /\ \A r : r \in E <=> r \in R /\ r[1] < first
      /\ \A r : r \in L <=> r \in R /\ r[1] >= first
  OBVIOUS
<1>10. \A i \in DOMAIN chain : chain[i] \in E
  BY <1>6 DEF ToSet
<1>11. DOMAIN tail = 1 .. Len(tail) /\ Len(tail) \in Nat /\ tail \in Seq(Low \X Low)
       /\ \A i, j \in DOMAIN tail : i < j => tail[i][1] <= tail[j][1]
  BY <1>8, InOrderHaveValues DEF InOrder
<1> HIDE DEF E, L, chain, tail
<1>12. /\ Len(s) = Len(tail) + 1 /\ Len(s) \in Nat /\ DOMAIN s = 1 .. Len(s)
       /\ s[1] = <<first, end - 1>> /\ s # <<>>
       /\ \A i \in 1 .. Len(tail) : s[i + 1] = tail[i]
       /\ s \in Seq(Low \X Low)
  <2>1. <<rle16(first, end - 1)>> \in Seq(Low \X Low) /\ Len(<<rle16(first, end - 1)>>) = 1 /\ <<rle16(first, end - 1)>>[1] = <<first, end - 1>>
    BY <1>3 DEF rle16
  <2> QED
    BY <2>1, <1>11
<1> HIDE DEF s
<1>13. \A i \in DOMAIN s : i = 1 \/ (i - 1 \in DOMAIN tail /\ s[i] = tail[i - 1] /\ i - 1 \in Nat /\ s[i] \in L)
  <2> SUFFICES ASSUME NEW i \in DOMAIN s, i # 1 PROVE i - 1 \in DOMAIN tail /\ s[i] = tail[i - 1] /\ i - 1 \in Nat /\ s[i] \in L
    OBVIOUS
  <2>1. i - 1 \in 1 .. Len(tail) /\ (i - 1) + 1 = i
    BY <1>11, <1>12
  <2> QED
    BY <2>1, <1>8, <1>11, <1>12
<1>14. InOrder(s)
  <2>1. \A i \in DOMAIN s : s[i][1] <= s[i][2]
    BY <1>1, <1>3, <1>9, <1>12, <1>13
  <2>2. ASSUME NEW i \in DOMAIN s, NEW j \in DOMAIN s, i < j PROVE s[i][1] <= s[j][1]
    <3>1. j # 1
      BY <1>12, <2>2
    <3>2. CASE i = 1
      BY <3>1, <3>2, <1>9, <1>12, <1>13
    <3>3. CASE i # 1
      <4>1. i - 1 < j - 1
        BY <1>12, <2>2
      <4> QED
        BY <3>1, <3>3, <4>1, <1>11, <1>13
    <3> QED
      BY <3>2, <3>3
  <2> QED
    BY <2>1, <2>2, <1>12 DEF InOrder
<1>15. BeginBy(chain, s[1][1])
  <2>1. \A r \in E : r[1] <= first
    BY <1>2, <1>3, <1>9
  <2> QED
    BY <1>10, <1>12, <2>1 DEF BeginBy
<1>16. \A x \in Int : \A i, j \in DOMAIN s : i # 1 /\ j # 1 /\ InRun(s, i, x) /\ InRun(s, j, x) => i = j
  <2> SUFFICES ASSUME NEW x \in Int, NEW i \in DOMAIN s, NEW j \in DOMAIN s, i # 1, j # 1, InRun(s, i, x), InRun(s, j, x), i # j
               PROVE FALSE
    OBVIOUS
  <2>1. s[i] \in R /\ s[j] \in R /\ i - 1 \in DOMAIN tail /\ j - 1 \in DOMAIN tail /\ s[i] = tail[i - 1] /\ s[j] = tail[j - 1]
    BY <1>9, <1>13
  <2>2. i - 1 < j - 1 \/ j - 1 < i - 1
    BY <1>12
  <2>3. s[i] # s[j]
    BY <2>1, <2>2, <1>8
  <2> QED
    BY <2>1, <2>3, <1>1, <1>2 DEF InRun
<1>17. \A x \in base : \A i \in DOMAIN s : i # 1 => ~ InRun(s, i, x)
  <2> SUFFICES ASSUME NEW x \in base, NEW i \in DOMAIN s, i # 1, InRun(s, i, x) PROVE FALSE
    OBVIOUS
  <2>1. PICK r \in E : r[1] <= x /\ x <= r[2]
    BY <1>7
  <2>2. s[i] \in L
    BY <1>13
  <2>3. r # s[i] /\ r \in R /\ s[i] \in R
    BY <2>2, <1>2, <1>3, <1>9
  <2> QED
    BY <2>1, <2>3, <1>1, <1>2, <1>7 DEF InRun
<1>18. AtMostTwice(base, s)
  <2>1. \A x \in base : \A i, j \in DOMAIN s : i < j => ~ (InRun(s, i, x) /\ InRun(s, j, x))
    <3> SUFFICES ASSUME NEW x \in base, NEW i \in DOMAIN s, NEW j \in DOMAIN s, i < j PROVE ~ InRun(s, j, x)
      OBVIOUS
    <3>1. j # 1
      BY <1>12
    <3> QED
      BY <3>1, <1>17
  <2>2. \A x \in Int : \A i, j, k \in DOMAIN s : i < j /\ j < k => ~ (InRun(s, i, x) /\ InRun(s, j, x) /\ InRun(s, k, x))
    <3> SUFFICES ASSUME NEW x \in Int, NEW i \in DOMAIN s, NEW j \in DOMAIN s, NEW k \in DOMAIN s, i < j, j < k
                 PROVE ~ (InRun(s, j, x) /\ InRun(s, k, x))
      OBVIOUS
    <3>1. j # 1 /\ k # 1 /\ j # k
      BY <1>12
    <3> QED
      BY <3>1, <1>16
  <2> QED
    BY <2>1, <2>2 DEF AtMostTwice
<1>19. Apart(Q) /\ \A x : x \in RunValues(Q) <=> x \in Int /\ Once(base, s, Len(s), x)
  BY <1>6, <1>14, <1>15, <1>18, ExcludedInOrder
<1>20. ASSUME NEW x \in Int PROVE x \in S <=> x \in base \/ \E i \in DOMAIN s : i # 1 /\ InRun(s, i, x)
  <2>1. ASSUME NEW r \in R, r[1] <= x, x <= r[2] PROVE x \in base \/ \E i \in DOMAIN s : i # 1 /\ InRun(s, i, x)
    <3>1. CASE r \in E
      BY <2>1, <3>1, <1>7
    <3>2. CASE r \in L
      <4>1. PICK i \in DOMAIN tail : tail[i] = r
        BY <3>2, <1>8
      <4>2. i + 1 \in DOMAIN s /\ i + 1 # 1 /\ s[i + 1] = r
        BY <4>1, <1>11, <1>12
      <4> QED
        BY <4>2, <2>1 DEF InRun
    <3> QED
      BY <3>1, <3>2, <1>2, <1>3, <1>9
  <2>2. x \in base => \E r \in R : r[1] <= x /\ x <= r[2]
    BY <1>7, <1>9
  <2>3. ASSUME NEW i \in DOMAIN s, i # 1, InRun(s, i, x) PROVE \E r \in R : r[1] <= x /\ x <= r[2]
    BY <2>3, <1>9, <1>13 DEF InRun
  <2> QED
    BY <2>1, <2>2, <2>3, <1>1
<1>21. ASSUME NEW x \in Int PROVE Once(base, s, Len(s), x) <=> ~ (x \in S <=> x \in first .. end - 1)
  <2>1. 1 \in DOMAIN s /\ (InRun(s, 1, x) <=> x \in first .. end - 1)
    BY <1>3, <1>12 DEF InRun
  <2> DEFINE C(i) == InRun(s, i, x)
  <2>2. Once(base, s, Len(s), x) <=> \/ x \in base /\ \A i \in DOMAIN s : ~ C(i)
                                     \/ x \notin base /\ \E i \in DOMAIN s : C(i) /\ \A j \in DOMAIN s : j # i => ~ C(j)
    BY <1>12 DEF Once
  <2>3. \A i, j \in DOMAIN s : i # 1 /\ j # 1 /\ C(i) /\ C(j) => i = j
    BY <1>16
  <2>4. x \in base => \A i \in DOMAIN s : i # 1 => ~ C(i)
    BY <1>17
  <2>5. x \in S <=> x \in base \/ \E i \in DOMAIN s : i # 1 /\ C(i)
    BY <1>20
  <2>6. C(1) <=> x \in first .. end - 1
    BY <2>1
  <2> HIDE DEF C
  <2>7. CASE x \in base
    BY ONLY <2>7, <2>1, <2>2, <2>4, <2>5, <2>6, Zenon
  <2>8. CASE x \notin base /\ C(1)
    BY ONLY <2>8, <2>1, <2>2, <2>5, <2>6, Zenon
  <2>9. CASE x \notin base /\ ~ C(1)
    BY ONLY <2>9, <2>1, <2>2, <2>3, <2>5, <2>6, Zenon
  <2> QED
    BY <2>7, <2>8, <2>9
<1>22. RunValues(Q) = SymDiff(S, first .. end - 1)
  <2>1. \A x : x \in SymDiff(S, first .. end - 1) <=> x \in Int /\ ~ (x \in S <=> x \in first .. end - 1)
    BY <1>1, <1>3 DEF SymDiff
  <2> QED
    BY <2>1, <1>19, <1>21
<1>23. IsRun(Run(Q), SymDiff(S, first .. end - 1))
  BY <1>19, <1>22, RunOf
<1> QED
  BY <1>4, <1>23, RunsMadeEfficient

\* How many values there are after a negation.
LEMMA CountOfNegated ==
  ASSUME NEW S \in SUBSET Low, NEW I \in SUBSET Low
  PROVE  /\ SymDiff(S, I) \in SUBSET Low
         /\ Cardinality(SymDiff(S, I)) = Cardinality(S) + (Cardinality(I) - Cardinality(S \cap I)) - Cardinality(S \cap I)
         /\ Cardinality(SymDiff(S, I)) \in Nat
<1>1. /\ Cardinality(SymDiff(S, I)) = Cardinality(S) + Cardinality(I \ S) - Cardinality(I \cap S)
      /\ Cardinality(I) = Cardinality(I \ S) + Cardinality(I \cap S)
      /\ SymDiff(S, I) \in SUBSET Low
  BY CountOfTwo
<1>2. I \cap S = S \cap I /\ I \ S \in SUBSET Low /\ S \cap I \in SUBSET Low
  OBVIOUS
<1>3. Cardinality(S) \in Int /\ Cardinality(I \ S) \in Int /\ Cardinality(S \cap I) \in Int /\ Cardinality(SymDiff(S, I)) \in Nat
  BY <1>1, <1>2, CountOfSet
<1>4. Cardinality(I \cap S) = Cardinality(S \cap I)
  BY <1>2
<1> QED
  BY ONLY <1>1, <1>3, <1>4

\* container_not_range negates in the range.
LEMMA NegatedRange ==
  ASSUME NEW c, NEW S, Sound(c, S), NEW first \in Low, NEW end \in Nat, end <= ChunkSize, first < end
  PROVE  Sound(container_not_range(c, first, end), SymDiff(S, first .. end - 1))
<1> USE ContainerConstants
<1> DEFINE I == first .. end - 1
           T == SymDiff(S, I)
<1>0. first \in Int /\ end - 1 \in Low /\ first <= end - 1
  BY LowAreNumbers DEF Low
<1>a. I \in SUBSET Low /\ Cardinality(I) = end - first
  <2>1. Cardinality(I) = end - 1 - first + 1 /\ I \in SUBSET Low
    BY <1>0, CountOfInterval
  <2> QED
    BY <2>1, <1>0
<1> HIDE DEF I
<1>b. S \in SUBSET Low => /\ T \in SUBSET Low
                          /\ Cardinality(T) = Cardinality(S) + (end - first - Cardinality(S \cap I)) - Cardinality(S \cap I)
                          /\ Cardinality(T) \in Nat
  BY <1>a, CountOfNegated
<1>1. CASE IsArray(c, S)
  <2>0. S \in SUBSET Low /\ c.type = "array" /\ c.values = S
    BY <1>1, ArrayHas
  <2> DEFINE card == Cardinality(S) + (end - first - Cardinality(S \cap I)) - Cardinality(S \cap I)
  <2>1. container_not_range(c, first, end) =
          CASE first >= end -> c
            [] first < end /\ card > DEFAULT_MAX_SIZE  -> Bitset(T, card)
            [] first < end /\ card <= DEFAULT_MAX_SIZE -> Array(T)
    BY <2>0 DEF container_not_range, array_container_negation_range, I
  <2>2. card = Cardinality(T) /\ card \in Nat /\ T \in SUBSET Low
    BY <2>0, <1>b
  <2> HIDE DEF card, T
  <2>3. ~ (first >= end)
    BY <1>0
  <2>4. CASE card > DEFAULT_MAX_SIZE
    <3>1. ~ (card <= DEFAULT_MAX_SIZE)
      BY <2>2, <2>4
    <3>2. container_not_range(c, first, end) = Bitset(T, card)
      BY ONLY <2>1, <2>3, <2>4, <3>1, first < end
    <3> QED
      BY <3>2, <2>2, <2>4, BitsetOf DEF T, I
  <2>5. CASE card <= DEFAULT_MAX_SIZE
    <3>1. ~ (card > DEFAULT_MAX_SIZE)
      BY <2>2, <2>5
    <3>2. container_not_range(c, first, end) = Array(T)
      BY ONLY <2>1, <2>3, <2>5, <3>1, first < end
    <3> QED
      BY <3>2, <2>2, <2>5, ArrayOf DEF T, I
  <2> QED
    BY <2>2, <2>4, <2>5
<1>2. CASE IsBitset(c, S)
  <2>0. S \in SUBSET Low /\ c.type = "bitset" /\ c.values = S
    BY <1>2, BitsetHas
  <2>1. container_not_range(c, first, end) = ArrayIfSmall(Bitset(T, Cardinality(T)))
    BY <2>0 DEF container_not_range, bitset_container_negation_range, bitset_container_compute_cardinality, I
  <2> QED
    BY <2>0, <2>1, <1>b, SmallBecomesArray DEF I
<1>3. CASE IsRun(c, S)
  <2>1. container_not_range(c, first, end) = run_container_negation_range(c, first, end)
    BY <1>3, RunHas DEF container_not_range
  <2> QED
    BY <1>3, <2>1, RunsNegated
<1> QED
  BY <1>1, <1>2, <1>3 DEF Sound, Exact

\* container_not has the values that were missing.
LEMMA Negated ==
  ASSUME NEW c, NEW S, Sound(c, S)
  PROVE  Sound(container_not(c), Low \ S)
<1> USE ContainerConstants
<1>1. CASE IsArray(c, S)
  <2>0. S \in SUBSET Low /\ c.type = "array" /\ c.values = S /\ Cardinality(S) <= DEFAULT_MAX_SIZE
    BY <1>1, ArrayHas
  <2>1. container_not(c) = Bitset(Low \ S, ChunkSize - Cardinality(S))
    BY <2>0 DEF container_not, array_container_negation
  <2>2. Low \in SUBSET Low /\ S \cap Low = S
    BY <2>0
  <2>3. Cardinality(Low \ S) = ChunkSize - Cardinality(S) /\ Low \ S \in SUBSET Low
    <3>1. Cardinality(Low \ S) = Cardinality(Low) - Cardinality(S \cap Low)
      BY <2>0, <2>2, CountOfTwo
    <3>2. Cardinality(Low) = ChunkSize
      BY LowIsFinite
    <3>3. Low \ S \in SUBSET Low
      OBVIOUS
    <3> QED
      BY <2>2, <3>1, <3>2, <3>3
  <2>4. ChunkSize - Cardinality(S) > DEFAULT_MAX_SIZE
    BY <2>0, CountOfSet
  <2> QED
    BY <2>1, <2>3, <2>4, BitsetOf
<1>2. CASE c.type # "array"
  <2>1. container_not(c) = container_not_range(c, 0, ChunkSize)
    BY <1>2 DEF container_not
  <2>2. 0 \in Low /\ 0 .. ChunkSize - 1 = Low
    BY DEF Low
  <2>3. S \in SUBSET Low
    BY LazyHasValues, CountedIsRight DEF Sound
  <2>4. SymDiff(S, Low) = Low \ S
    BY <2>3 DEF SymDiff
  <2>5. Sound(container_not_range(c, 0, ChunkSize), SymDiff(S, 0 .. ChunkSize - 1))
    BY <2>2, NegatedRange
  <2> QED
    BY <2>1, <2>2, <2>4, <2>5
<1>3. IsArray(c, S) \/ c.type # "array"
  BY SoundIs, BitsetHas, RunHas
<1> QED
  BY <1>1, <1>2, <1>3

-----------------------------------------------------------------------------
(* A container that is moved up falls into two chunks.                      *)

LowPart(S, offset) == {v + offset : v \in S} \cap Low
HighPart(S, offset) == {v + offset - ChunkSize : v \in S} \cap Low

\* No value is moved twice.
LEMMA CountOfMoved ==
  ASSUME NEW S \in SUBSET Low, NEW offset \in Int
  PROVE  /\ LowPart(S, offset) \in SUBSET Low /\ HighPart(S, offset) \in SUBSET Low
         /\ Cardinality(LowPart(S, offset)) <= Cardinality(S)
         /\ Cardinality(HighPart(S, offset)) <= Cardinality(S)
<1> USE ContainerConstants
<1>1. IsFiniteSet(S)
  BY CountOfSet
<1>2. \A d \in Int : LET T == {v + d : v \in S} \cap Low IN T \in SUBSET Low /\ Cardinality(T) <= Cardinality(S)
  <2> SUFFICES ASSUME NEW d \in Int PROVE LET T == {v + d : v \in S} \cap Low IN T \in SUBSET Low /\ Cardinality(T) <= Cardinality(S)
    OBVIOUS
  <2> DEFINE T == {v + d : v \in S} \cap Low
             f == [x \in T |-> x - d]
  <2>1. \A x \in T : x \in Int /\ f[x] \in S /\ f[x] = x - d
    <3>1. \A v \in S : v \in Int
      BY LowAreNumbers
    <3> QED
      BY <3>1, LowAreNumbers
  <2>2. T \in SUBSET Low
    OBVIOUS
  <2> HIDE DEF T
  <2>3. f \in [T -> S]
    BY <2>1
  <2> HIDE DEF f
  <2>4. \A x, y \in T : f[x] = f[y] => x = y
    BY <2>1
  <2>5. f \in Injection(T, S)
    BY <2>3, <2>4 DEF Injection, IsInjective
  <2>6. Cardinality(T) <= Cardinality(S)
    BY <2>5, <1>1, FS_Injection
  <2> QED
    BY <2>2, <2>6 DEF T
<1>3. HighPart(S, offset) = {v + (offset - ChunkSize) : v \in S} \cap Low
  <2>1. \A v \in S : v + offset - ChunkSize = v + (offset - ChunkSize)
    BY LowAreNumbers
  <2> QED
    BY <2>1 DEF HighPart
<1> QED
  BY <1>2, <1>3 DEF LowPart

\* Runs are moved by an offset, into two chunks.
LEMMA RunsMoved ==
  ASSUME NEW R, Apart(R), NEW offset \in Nat, 0 < offset, offset < ChunkSize
  PROVE  LET top == ChunkSize - offset
             lo == {rle16(r[1] + offset, Min({r[2] + offset, ChunkSize - 1})) : r \in {s \in R : s[1] < top}}
             hi == {rle16(Max({r[1], top}) - top, r[2] - top) : r \in {s \in R : s[2] >= top}}
         IN  /\ Apart(lo) /\ RunValues(lo) = LowPart(RunValues(R), offset)
             /\ Apart(hi) /\ RunValues(hi) = HighPart(RunValues(R), offset)
<1> USE ContainerConstants
<1> DEFINE top == ChunkSize - offset
           lo == {rle16(r[1] + offset, Min({r[2] + offset, ChunkSize - 1})) : r \in {s \in R : s[1] < top}}
           hi == {rle16(Max({r[1], top}) - top, r[2] - top) : r \in {s \in R : s[2] >= top}}
           m(r) == IF r[2] + offset <= ChunkSize - 1 THEN r[2] + offset ELSE ChunkSize - 1
           M(r) == IF r[1] <= top THEN 0 ELSE r[1] - top
           S == RunValues(R)
<1>1. /\ S \in SUBSET Low
      /\ \A x : x \in S <=> x \in Int /\ \E r \in R : r[1] <= x /\ x <= r[2]
      /\ \A r \in R : r = <<r[1], r[2]>> /\ r[1] \in Low /\ r[2] \in Low /\ r[1] <= r[2]
      /\ \A r, q \in R : r # q => r[2] + 1 < q[1] \/ q[2] + 1 < r[1]
  BY ApartHaveValues
<1>2. \A r \in R : r[1] \in Int /\ r[2] \in Int /\ 0 <= r[1] /\ r[2] < ChunkSize
  BY <1>1, LowAreNumbers
<1>3. \A q : q \in lo <=> \E r \in R : r[1] < top /\ q = <<r[1] + offset, m(r)>>
  <2>1. \A r \in R : Min({r[2] + offset, ChunkSize - 1}) = m(r)
    BY <1>2, MinOfTwo
  <2> QED
    BY <2>1 DEF rle16
<1>4. \A q : q \in hi <=> \E r \in R : r[2] >= top /\ q = <<M(r), r[2] - top>>
  <2>1. \A r \in R : Max({r[1], top}) - top = M(r)
    BY <1>2, MaxOfTwo
  <2> QED
    BY <2>1 DEF rle16
<1>5. top \in Int /\ top = ChunkSize - offset
  OBVIOUS
<1>6. \A r \in R : r[1] < top => /\ r[1] + offset \in Low /\ m(r) \in Low /\ r[1] + offset <= m(r)
                                 /\ r[1] + offset \in Int /\ m(r) \in Int /\ m(r) <= r[2] + offset
                                 /\ \A x \in Int : x <= m(r) <=> x <= r[2] + offset /\ x < ChunkSize
  BY <1>1, <1>2 DEF Low
<1>7. \A r \in R : r[2] >= top => /\ M(r) \in Low /\ r[2] - top \in Low /\ M(r) <= r[2] - top
                                  /\ M(r) \in Int /\ r[2] - top \in Int /\ r[1] - top <= M(r)
                                  /\ \A x \in Int : M(r) <= x <=> r[1] - top <= x /\ 0 <= x
  BY <1>1, <1>2 DEF Low
<1> HIDE DEF lo, hi, m, M, S, top
<1>8. Apart(lo)
  <2>1. \A q \in lo : q \in Low \X Low /\ q[1] <= q[2]
    BY <1>3, <1>6
  <2>2. ASSUME NEW q \in lo, NEW p \in lo, q # p PROVE q[2] + 1 < p[1] \/ p[2] + 1 < q[1]
    <3>1. PICK r \in R : r[1] < top /\ q = <<r[1] + offset, m(r)>>
      BY <1>3
    <3>2. PICK s \in R : s[1] < top /\ p = <<s[1] + offset, m(s)>>
      BY <1>3
    <3>3. r[2] + 1 < s[1] \/ s[2] + 1 < r[1]
      BY <3>1, <3>2, <2>2, <1>1
    <3>4. q[1] = r[1] + offset /\ q[2] = m(r) /\ p[1] = s[1] + offset /\ p[2] = m(s)
      BY <3>1, <3>2
    <3>5. m(r) \in Int /\ m(s) \in Int /\ m(r) <= r[2] + offset /\ m(s) <= s[2] + offset
      BY <3>1, <3>2, <1>6
    <3> QED
      BY <3>3, <3>4, <3>5, <1>2
  <2> QED
    BY <2>1, <2>2 DEF Apart
<1>9. Apart(hi)
  <2>1. \A q \in hi : q \in Low \X Low /\ q[1] <= q[2]
    BY <1>4, <1>7
  <2>2. ASSUME NEW q \in hi, NEW p \in hi, q # p PROVE q[2] + 1 < p[1] \/ p[2] + 1 < q[1]
    <3>1. PICK r \in R : r[2] >= top /\ q = <<M(r), r[2] - top>>
      BY <1>4
    <3>2. PICK s \in R : s[2] >= top /\ p = <<M(s), s[2] - top>>
      BY <1>4
    <3>3. r[2] + 1 < s[1] \/ s[2] + 1 < r[1]
      BY <3>1, <3>2, <2>2, <1>1
    <3>4. q[1] = M(r) /\ q[2] = r[2] - top /\ p[1] = M(s) /\ p[2] = s[2] - top
      BY <3>1, <3>2
    <3>5. M(r) \in Int /\ M(s) \in Int /\ r[1] - top <= M(r) /\ s[1] - top <= M(s)
      BY <3>1, <3>2, <1>7
    <3> QED
      BY <3>3, <3>4, <3>5, <1>2, <1>5
  <2> QED
    BY <2>1, <2>2 DEF Apart
<1>10. RunValues(lo) = LowPart(S, offset)
  <2>1. \A x : x \in RunValues(lo) <=> x \in Int /\ \E q \in lo : q[1] <= x /\ x <= q[2]
    BY <1>8, ApartHaveValues
  <2>2. \A x \in Int : (\E q \in lo : q[1] <= x /\ x <= q[2]) <=> \E r \in R : r[1] < top /\ r[1] + offset <= x /\ x <= m(r)
    <3>1. \A r \in R : r[1] < top => <<r[1] + offset, m(r)>> \in lo
      BY <1>3
    <3>2. \A r \in R : <<r[1] + offset, m(r)>>[1] = r[1] + offset /\ <<r[1] + offset, m(r)>>[2] = m(r)
      OBVIOUS
    <3>3. \A q \in lo : \E r \in R : r[1] < top /\ q[1] = r[1] + offset /\ q[2] = m(r)
      BY <1>3
    <3> QED
      BY ONLY <3>1, <3>2, <3>3, Zenon
  <2>3. \A x : x \in LowPart(S, offset) <=> x \in Int /\ x - offset \in S /\ x < ChunkSize
    <3>1. \A x : x \in LowPart(S, offset) <=> \E v \in S : x = v + offset /\ x \in Low
      BY DEF LowPart
    <3>2. \A v \in S : v \in Int /\ 0 <= v
      BY <1>1, LowAreNumbers
    <3>3. \A x \in Int : x - offset \in S /\ x < ChunkSize => x = (x - offset) + offset /\ x \in Low
      BY <3>2 DEF Low
    <3>4. \A v \in S : v + offset \in Int /\ (v + offset) - offset = v
      BY <3>2
    <3> QED
      BY <3>1, <3>3, <3>4, LowAreNumbers
  <2>4. \A x \in Int : x - offset \in S <=> \E r \in R : r[1] <= x - offset /\ x - offset <= r[2]
    BY <1>1
  <2>5. ASSUME NEW x \in Int, NEW r \in R
        PROVE  r[1] < top /\ r[1] + offset <= x /\ x <= m(r) <=> r[1] <= x - offset /\ x - offset <= r[2] /\ x < ChunkSize
    BY <1>2, <1>5, <1>6
  <2> QED
    BY <2>1, <2>2, <2>3, <2>4, <2>5
<1>11. RunValues(hi) = HighPart(S, offset)
  <2>1. \A x : x \in RunValues(hi) <=> x \in Int /\ \E q \in hi : q[1] <= x /\ x <= q[2]
    BY <1>9, ApartHaveValues
  <2>2. \A x \in Int : (\E q \in hi : q[1] <= x /\ x <= q[2]) <=> \E r \in R : r[2] >= top /\ M(r) <= x /\ x <= r[2] - top
    <3>1. \A r \in R : r[2] >= top => <<M(r), r[2] - top>> \in hi
      BY <1>4
    <3>2. \A r \in R : <<M(r), r[2] - top>>[1] = M(r) /\ <<M(r), r[2] - top>>[2] = r[2] - top
      OBVIOUS
    <3>3. \A q \in hi : \E r \in R : r[2] >= top /\ q[1] = M(r) /\ q[2] = r[2] - top
      BY <1>4
    <3> QED
      BY ONLY <3>1, <3>2, <3>3, Zenon
  <2>3. \A x : x \in HighPart(S, offset) <=> x \in Int /\ x + top \in S /\ 0 <= x
    <3>1. \A x : x \in HighPart(S, offset) <=> \E v \in S : x = v + offset - ChunkSize /\ x \in Low
      BY DEF HighPart
    <3>2. \A v \in S : v \in Int /\ v < ChunkSize
      BY <1>1, LowAreNumbers
    <3>3. \A x \in Int : x + top \in S /\ 0 <= x => x = (x + top) + offset - ChunkSize /\ x \in Low
      BY <3>2, <1>5 DEF Low
    <3>4. \A v \in S : v + offset - ChunkSize \in Int /\ (v + offset - ChunkSize) + top = v
      BY <3>2, <1>5
    <3> QED
      BY <3>1, <3>3, <3>4, LowAreNumbers
  <2>4. \A x \in Int : x + top \in S <=> \E r \in R : r[1] <= x + top /\ x + top <= r[2]
    BY <1>1, <1>5
  <2>5. ASSUME NEW x \in Int, NEW r \in R
        PROVE  r[2] >= top /\ M(r) <= x /\ x <= r[2] - top <=> r[1] <= x + top /\ x + top <= r[2] /\ 0 <= x
    BY <1>2, <1>5, <1>7
  <2> QED
    BY <2>1, <2>2, <2>3, <2>4, <2>5
<1> QED
  BY <1>8, <1>9, <1>10, <1>11 DEF lo, hi, top, S

\* container_add_offset moves the values, into two chunks.
LEMMA Moved ==
  ASSUME NEW c, NEW S, Exact(c, S), NEW offset \in Nat, 0 < offset, offset < ChunkSize
  PROVE  /\ ExactOrNull(container_add_offset(c, offset).lo, LowPart(S, offset))
         /\ ExactOrNull(container_add_offset(c, offset).hi, HighPart(S, offset))
<1>1. CASE IsArray(c, S)
  <2>0. S \in SUBSET Low /\ c.type = "array" /\ c.values = S /\ Cardinality(S) <= DEFAULT_MAX_SIZE /\ Cardinality(S) \in Nat
    BY <1>1, ArrayHas
  <2>1. /\ container_add_offset(c, offset).lo = IF LowPart(S, offset) = {} THEN NULL ELSE Array(LowPart(S, offset))
        /\ container_add_offset(c, offset).hi = IF HighPart(S, offset) = {} THEN NULL ELSE Array(HighPart(S, offset))
    BY <2>0 DEF container_add_offset, array_container_offset, LowPart, HighPart
  <2>2. /\ LowPart(S, offset) \in SUBSET Low /\ HighPart(S, offset) \in SUBSET Low
        /\ Cardinality(LowPart(S, offset)) <= DEFAULT_MAX_SIZE /\ Cardinality(HighPart(S, offset)) <= DEFAULT_MAX_SIZE
    <3>1. /\ LowPart(S, offset) \in SUBSET Low /\ HighPart(S, offset) \in SUBSET Low
          /\ Cardinality(LowPart(S, offset)) <= Cardinality(S) /\ Cardinality(HighPart(S, offset)) <= Cardinality(S)
      BY <2>0, CountOfMoved
    <3>2. Cardinality(LowPart(S, offset)) \in Int /\ Cardinality(HighPart(S, offset)) \in Int
      BY <3>1, CountOfSet
    <3> QED
      BY <2>0, <3>1, <3>2, ContainerConstants
  <2>3. Exact(Array(LowPart(S, offset)), LowPart(S, offset)) /\ Exact(Array(HighPart(S, offset)), HighPart(S, offset))
    BY <2>2, ArrayOf
  <2> QED
    BY <2>1, <2>3 DEF ExactOrNull
<1>2. CASE IsBitset(c, S)
  <2>0. S \in SUBSET Low /\ c.type = "bitset" /\ c.values = S
    BY <1>2, BitsetHas
  <2> DEFINE b(T) == Bitset(T, Cardinality(T))
  <2>1. /\ container_add_offset(c, offset).lo = IF LowPart(S, offset) = {} THEN NULL ELSE b(LowPart(S, offset))
        /\ container_add_offset(c, offset).hi = IF HighPart(S, offset) = {} THEN NULL ELSE b(HighPart(S, offset))
    BY <2>0 DEF container_add_offset, bitset_container_offset, bitset_container_compute_cardinality, LowPart, HighPart
  <2>2. LowPart(S, offset) \in SUBSET Low /\ HighPart(S, offset) \in SUBSET Low
    <3>1. offset \in Int
      OBVIOUS
    <3> QED
      BY <2>0, <3>1, CountOfMoved
  <2>3. Exact(b(LowPart(S, offset)), LowPart(S, offset)) /\ Exact(b(HighPart(S, offset)), HighPart(S, offset))
    BY <2>2, BitsetOf
  <2> HIDE DEF b
  <2> QED
    BY <2>1, <2>3 DEF ExactOrNull
<1>3. CASE IsRun(c, S)
  <2>0. S = RunValues(c.runs) /\ Apart(c.runs) /\ c.type = "run"
    BY <1>3, RunHas
  <2> DEFINE top == ChunkSize - offset
             lo == {rle16(r[1] + offset, Min({r[2] + offset, ChunkSize - 1})) : r \in {s \in c.runs : s[1] < top}}
             hi == {rle16(Max({r[1], top}) - top, r[2] - top) : r \in {s \in c.runs : s[2] >= top}}
  <2>1. /\ container_add_offset(c, offset).lo = IF lo = {} THEN NULL ELSE Run(lo)
        /\ container_add_offset(c, offset).hi = IF hi = {} THEN NULL ELSE Run(hi)
    BY <2>0 DEF container_add_offset, run_container_offset
  <2>2. /\ Apart(lo) /\ RunValues(lo) = LowPart(S, offset)
        /\ Apart(hi) /\ RunValues(hi) = HighPart(S, offset)
    BY <2>0, RunsMoved
  <2> HIDE DEF lo, hi
  <2>3. (lo = {} <=> LowPart(S, offset) = {}) /\ (hi = {} <=> HighPart(S, offset) = {})
    BY <2>2, ApartHaveValues
  <2>4. Exact(Run(lo), LowPart(S, offset)) /\ Exact(Run(hi), HighPart(S, offset))
    BY <2>2, RunOf
  <2>5. ExactOrNull(container_add_offset(c, offset).lo, LowPart(S, offset))
    BY <2>1, <2>3, <2>4 DEF ExactOrNull
  <2>6. ExactOrNull(container_add_offset(c, offset).hi, HighPart(S, offset))
    BY <2>1, <2>3, <2>4 DEF ExactOrNull
  <2> QED
    BY <2>5, <2>6
<1> QED
  BY <1>1, <1>2, <1>3 DEF Exact

-----------------------------------------------------------------------------
(* Intersection.                                                            *)

\* A run container tells whether it has a value.
LEMMA RunContains ==
  ASSUME NEW c, NEW S, IsRun(c, S), NEW v \in Low
  PROVE  run_container_contains(c, v) <=> v \in S
<1>1. /\ \A x : x \in S <=> x \in Int /\ \E r \in c.runs : r[1] <= x /\ x <= r[2]
      /\ \A r \in c.runs : r[1] \in Low /\ r[2] \in Low /\ r[1] <= r[2]
      /\ \A r, q \in c.runs : r # q => r[2] + 1 < q[1] \/ q[2] + 1 < r[1]
  BY RunHas, ApartHaveValues
<1>2. v \in Int /\ \A r \in c.runs : r[1] \in Int /\ r[2] \in Int
  BY <1>1, LowAreNumbers
<1>3. ASSUME NEW r \in c.runs, r[1] <= v, v <= r[2], NEW s \in c.runs, s[1] <= v PROVE s[1] <= r[1]
  BY <1>1, <1>2, <1>3
<1>4. ASSUME NEW r \in c.runs PROVE r[1] <= v /\ v - r[1] <= r[2] - r[1] <=> r[1] <= v /\ v <= r[2]
  BY <1>2
<1> QED
  BY <1>1, <1>2, <1>3, <1>4 DEF run_container_contains

\* container_contains tells whether the value is there.
LEMMA ContainsValue ==
  ASSUME NEW c, NEW S, Sound(c, S), NEW v \in Low
  PROVE  container_contains(c, v) <=> v \in S
<1>1. CASE IsArray(c, S)
  BY <1>1, ArrayHas DEF container_contains, array_container_contains
<1>2. CASE IsBitset(c, S)
  BY <1>2, BitsetHas DEF container_contains, bitset_container_contains
<1>3. CASE IsRun(c, S)
  <2>1. container_contains(c, v) <=> run_container_contains(c, v)
    BY <1>3, RunHas DEF container_contains
  <2> QED
    BY <1>3, <2>1, RunContains
<1> QED
  BY <1>1, <1>2, <1>3 DEF Sound, Exact

\* The values two sets of runs share are those of the shared runs.
LEMMA RunsShared ==
  ASSUME NEW R1, Apart(R1), NEW R2, Apart(R2)
  PROVE  Apart(SharedRuns(R1, R2)) /\ RunValues(SharedRuns(R1, R2)) = RunValues(R1) \cap RunValues(R2)
<1> DEFINE Q == SharedRuns(R1, R2)
           first(r, s) == IF r[1] <= s[1] THEN s[1] ELSE r[1]
           last(r, s) == IF r[2] <= s[2] THEN r[2] ELSE s[2]
<1>1. /\ \A x : x \in RunValues(R1) <=> x \in Int /\ \E r \in R1 : r[1] <= x /\ x <= r[2]
      /\ \A r \in R1 : r[1] \in Low /\ r[2] \in Low /\ r[1] <= r[2]
      /\ \A r, q \in R1 : r # q => r[2] + 1 < q[1] \/ q[2] + 1 < r[1]
  BY ApartHaveValues
<1>2. /\ \A x : x \in RunValues(R2) <=> x \in Int /\ \E r \in R2 : r[1] <= x /\ x <= r[2]
      /\ \A r \in R2 : r[1] \in Low /\ r[2] \in Low /\ r[1] <= r[2]
      /\ \A r, q \in R2 : r # q => r[2] + 1 < q[1] \/ q[2] + 1 < r[1]
  BY ApartHaveValues
<1>3. \A r \in R1 \cup R2 : r[1] \in Int /\ r[2] \in Int
  BY <1>1, <1>2, LowAreNumbers
<1>4. \A q : q \in Q <=> \E r \in R1, s \in R2 : r[1] <= s[2] /\ s[1] <= r[2] /\ q = <<first(r, s), last(r, s)>>
  <2>1. \A r \in R1, s \in R2 : Max({r[1], s[1]}) = first(r, s) /\ Min({r[2], s[2]}) = last(r, s)
    BY <1>3, MinOfTwo, MaxOfTwo
  <2>2. \A q : q \in Q <=> \E p \in {t \in R1 \X R2 : t[1][1] <= t[2][2] /\ t[2][1] <= t[1][2]} :
                              q = <<Max({p[1][1], p[2][1]}), Min({p[1][2], p[2][2]})>>
    BY DEF SharedRuns, rle16
  <2> DEFINE P(p) == p[1][1] <= p[2][2] /\ p[2][1] <= p[1][2]
             W(p) == <<Max({p[1][1], p[2][1]}), Min({p[1][2], p[2][2]})>>
  <2>3. \A r \in R1, s \in R2 :
           /\ <<r, s>> \in R1 \X R2
           /\ P(<<r, s>>) <=> r[1] <= s[2] /\ s[1] <= r[2]
           /\ W(<<r, s>>) = <<first(r, s), last(r, s)>>
    <3> HIDE DEF first, last
    <3> QED
      BY <2>1
  <2>4. \A p \in R1 \X R2 : p[1] \in R1 /\ p[2] \in R2 /\ p = <<p[1], p[2]>>
    OBVIOUS
  <2>5. \A q : q \in Q <=> \E p \in R1 \X R2 : P(p) /\ q = W(p)
    BY <2>2
  <2> HIDE DEF Q, first, last, P, W
  <2>6. ASSUME NEW q, q \in Q PROVE \E r \in R1, s \in R2 : r[1] <= s[2] /\ s[1] <= r[2] /\ q = <<first(r, s), last(r, s)>>
    <3>1. PICK p \in R1 \X R2 : P(p) /\ q = W(p)
      BY <2>5, <2>6
    <3>2. p[1] \in R1 /\ p[2] \in R2 /\ P(<<p[1], p[2]>>) /\ q = W(<<p[1], p[2]>>)
      BY <3>1, <2>4
    <3>3. p[1][1] <= p[2][2] /\ p[2][1] <= p[1][2] /\ q = <<first(p[1], p[2]), last(p[1], p[2])>>
      BY <3>2, <2>3
    <3> QED
      BY ONLY <3>2, <3>3, Zenon
  <2>7. ASSUME NEW q, NEW r \in R1, NEW s \in R2, r[1] <= s[2], s[1] <= r[2], q = <<first(r, s), last(r, s)>> PROVE q \in Q
    <3>1. <<r, s>> \in R1 \X R2 /\ P(<<r, s>>) /\ q = W(<<r, s>>)
      <4>1. P(<<r, s>>) <=> r[1] <= s[2] /\ s[1] <= r[2]
        BY <2>3, Zenon
      <4>2. <<r, s>> \in R1 \X R2 /\ W(<<r, s>>) = <<first(r, s), last(r, s)>>
        BY <2>3, Zenon
      <4> QED
        BY ONLY <4>1, <4>2, <2>7, Zenon
    <3> QED
      BY ONLY <3>1, <2>5, Zenon
  <2> QED
    BY <2>6, <2>7
<1>5. \A r \in R1, s \in R2 : r[1] <= s[2] /\ s[1] <= r[2] =>
         /\ first(r, s) \in Low /\ last(r, s) \in Low /\ first(r, s) <= last(r, s)
         /\ first(r, s) \in Int /\ last(r, s) \in Int
         /\ r[1] <= first(r, s) /\ s[1] <= first(r, s) /\ last(r, s) <= r[2] /\ last(r, s) <= s[2]
  BY <1>1, <1>2, <1>3
<1>6. \A r \in R1, s \in R2 : \A x \in Int : first(r, s) <= x /\ x <= last(r, s) <=> r[1] <= x /\ x <= r[2] /\ s[1] <= x /\ x <= s[2]
  BY <1>3
<1> HIDE DEF Q, first, last
<1>7. \A q \in Q : q \in Low \X Low /\ q[1] <= q[2]
  BY <1>4, <1>5
<1>8. ASSUME NEW q \in Q, NEW p \in Q, q # p PROVE q[2] + 1 < p[1] \/ p[2] + 1 < q[1]
  <2>1. PICK r \in R1, s \in R2 : r[1] <= s[2] /\ s[1] <= r[2] /\ q = <<first(r, s), last(r, s)>>
    BY <1>4
  <2>2. PICK t \in R1, u \in R2 : t[1] <= u[2] /\ u[1] <= t[2] /\ p = <<first(t, u), last(t, u)>>
    BY <1>4
  <2>3. r # t \/ s # u
    BY <2>1, <2>2, <1>8
  <2>4. /\ q[1] = first(r, s) /\ q[2] = last(r, s) /\ first(r, s) \in Int /\ last(r, s) \in Int
        /\ r[1] <= first(r, s) /\ s[1] <= first(r, s) /\ last(r, s) <= r[2] /\ last(r, s) <= s[2]
    BY <2>1, <1>5
  <2>5. /\ p[1] = first(t, u) /\ p[2] = last(t, u) /\ first(t, u) \in Int /\ last(t, u) \in Int
        /\ t[1] <= first(t, u) /\ u[1] <= first(t, u) /\ last(t, u) <= t[2] /\ last(t, u) <= u[2]
    BY <2>2, <1>5
  <2>6. CASE r # t
    <3>1. r[2] + 1 < t[1] \/ t[2] + 1 < r[1]
      BY <2>6, <1>1
    <3> QED
      BY <3>1, <2>4, <2>5, <1>3
  <2>7. CASE s # u
    <3>1. s[2] + 1 < u[1] \/ u[2] + 1 < s[1]
      BY <2>7, <1>2
    <3> QED
      BY <3>1, <2>4, <2>5, <1>3
  <2> QED
    BY <2>3, <2>6, <2>7
<1>9. Apart(Q)
  BY <1>7, <1>8 DEF Apart
<1>10. RunValues(Q) = RunValues(R1) \cap RunValues(R2)
  <2>1. \A x : x \in RunValues(Q) <=> x \in Int /\ \E q \in Q : q[1] <= x /\ x <= q[2]
    BY <1>9, ApartHaveValues
  <2>2. ASSUME NEW x \in Int, NEW q \in Q, q[1] <= x, x <= q[2] PROVE x \in RunValues(R1) \cap RunValues(R2)
    <3>1. PICK r \in R1, s \in R2 : r[1] <= s[2] /\ s[1] <= r[2] /\ q = <<first(r, s), last(r, s)>>
      BY <1>4
    <3>2. r[1] <= x /\ x <= r[2] /\ s[1] <= x /\ x <= s[2]
      BY <3>1, <2>2, <1>6
    <3> QED
      BY <3>2, <1>1, <1>2
  <2>3. ASSUME NEW x \in RunValues(R1) \cap RunValues(R2) PROVE x \in Int /\ \E q \in Q : q[1] <= x /\ x <= q[2]
    <3>1. PICK r \in R1 : r[1] <= x /\ x <= r[2]
      BY <1>1
    <3>2. PICK s \in R2 : s[1] <= x /\ x <= s[2]
      BY <1>2
    <3>3. x \in Int
      BY <1>1
    <3>4. r[1] <= s[2] /\ s[1] <= r[2] /\ first(r, s) <= x /\ x <= last(r, s)
      BY <3>1, <3>2, <3>3, <1>3, <1>6
    <3>5. <<first(r, s), last(r, s)>> \in Q
      BY <3>4, <1>4
    <3> QED
      BY <3>3, <3>4, <3>5
  <2> QED
    BY <2>1, <2>2, <2>3
<1> QED
  BY <1>9, <1>10 DEF Q

\* How many values two sets share.
LEMMA CountOfShared ==
  ASSUME NEW S \in SUBSET Low, NEW T \in SUBSET Low
  PROVE  /\ S \cap T \in SUBSET Low /\ S \ T \in SUBSET Low /\ S \cup T \in SUBSET Low
         /\ Cardinality(S \cap T) \in Nat /\ Cardinality(S) \in Nat /\ Cardinality(T) \in Nat
         /\ Cardinality(S \ T) \in Nat /\ Cardinality(S \cup T) \in Nat
         /\ Cardinality(S \cap T) <= Cardinality(S) /\ Cardinality(S \cap T) <= Cardinality(T)
         /\ Cardinality(S \ T) <= Cardinality(S)
         /\ Cardinality(S) <= Cardinality(S \cup T) /\ Cardinality(T) <= Cardinality(S \cup T)
         /\ Cardinality(S \cup T) <= Cardinality(S) + Cardinality(T)
         /\ Cardinality(SymDiff(S, T)) <= Cardinality(S) + Cardinality(T)
<1>1. S \cap T \in SUBSET Low /\ S \ T \in SUBSET Low /\ S \cup T \in SUBSET Low /\ T \ S \in SUBSET Low
  OBVIOUS
<1>2. /\ Cardinality(S \cap T) \in Nat /\ Cardinality(S) \in Nat /\ Cardinality(T) \in Nat /\ Cardinality(S \ T) \in Nat
      /\ Cardinality(S \cup T) \in Nat /\ Cardinality(T \ S) \in Nat
  BY <1>1, CountOfSet
<1>3. S \cap T \subseteq S /\ S \cap T \subseteq T /\ S \ T \subseteq S /\ S \subseteq S \cup T /\ T \subseteq S \cup T /\ T \ S \subseteq T
  OBVIOUS
<1>4. \A X, Y \in SUBSET Low : X \subseteq Y => Cardinality(X) <= Cardinality(Y)
  BY CountOfTwo
<1>5. /\ Cardinality(S \cap T) <= Cardinality(S) /\ Cardinality(S \cap T) <= Cardinality(T) /\ Cardinality(S \ T) <= Cardinality(S)
      /\ Cardinality(S) <= Cardinality(S \cup T) /\ Cardinality(T) <= Cardinality(S \cup T) /\ Cardinality(T \ S) <= Cardinality(T)
  BY <1>1, <1>3, <1>4
<1>6. /\ Cardinality(S \cup T) = Cardinality(S) + Cardinality(T \ S)
      /\ Cardinality(SymDiff(S, T)) = Cardinality(S) + Cardinality(T \ S) - Cardinality(T \cap S)
  BY CountOfTwo
<1>7. Cardinality(T \cap S) \in Nat
  <2>1. T \cap S \in SUBSET Low
    OBVIOUS
  <2> QED
    BY <2>1, CountOfSet
<1> QED
  BY ONLY <1>1, <1>2, <1>5, <1>6, <1>7

\* Two bitsets intersect.
LEMMA IntersectionOfBitsets ==
  ASSUME NEW c1, NEW S, IsBitset(c1, S), NEW c2, NEW T, IsBitset(c2, T)
  PROVE  /\ Sound(bitset_bitset_container_intersection(c1, c2), S \cap T)
         /\ Sound(bitset_bitset_container_intersection_inplace(c1, c2), S \cap T)
<1>1. c1.values = S /\ c2.values = T /\ S \cap T \in SUBSET Low
  BY BitsetHas
<1> DEFINE n == Cardinality(S \cap T)
<1>2. /\ bitset_container_and_justcard(c1, c2) = n
      /\ bitset_container_and_nocard(c1, c2) = Bitset(S \cap T, BITSET_UNKNOWN_CARDINALITY)
  BY <1>1 DEF bitset_container_and_justcard, bitset_container_and_nocard
<1>3. /\ [Bitset(S \cap T, BITSET_UNKNOWN_CARDINALITY) EXCEPT !.cardinality = n] = Bitset(S \cap T, n)
      /\ Bitset(S \cap T, BITSET_UNKNOWN_CARDINALITY).values = S \cap T
  BY DEF Bitset
<1>4. bitset_bitset_container_intersection(c1, c2) = IF n > DEFAULT_MAX_SIZE THEN Bitset(S \cap T, n) ELSE Array(S \cap T)
  BY <1>2, <1>3 DEF bitset_bitset_container_intersection, array_container_from_bitset
<1>5. bitset_bitset_container_intersection_inplace(c1, c2) = IF n > DEFAULT_MAX_SIZE THEN Bitset(S \cap T, n) ELSE Array(S \cap T)
  BY <1>1, <1>2, <1>3 DEF bitset_bitset_container_intersection_inplace
<1>6. n \in Nat
  BY <1>1, CountOfSet
<1>7. CASE n > DEFAULT_MAX_SIZE
  BY <1>1, <1>4, <1>5, <1>7, BitsetOf
<1>8. CASE ~ (n > DEFAULT_MAX_SIZE)
  <2>1. n <= DEFAULT_MAX_SIZE
    BY <1>6, <1>8, ContainerConstants
  <2> QED
    BY <1>1, <1>4, <1>5, <1>8, <2>1, ArrayOf
<1> QED
  BY <1>7, <1>8

\* An array intersects with a bitset, or with another array.
LEMMA IntersectionWithArray ==
  ASSUME NEW a, NEW S, IsArray(a, S), NEW c, NEW T, Sound(c, T)
  PROVE  /\ Sound(array_bitset_container_intersection(a, c), S \cap T)
         /\ c.type = "array" => Sound(array_container_intersection(a, c), S \cap T)
<1>1. a.values = S /\ S \in SUBSET Low /\ Cardinality(S) <= DEFAULT_MAX_SIZE /\ T \in SUBSET Low
  BY ArrayHas, LazyHasValues, CountedIsRight DEF Sound
<1>2. {v \in a.values : container_contains(c, v)} = S \cap T
  <2>1. \A v \in S : container_contains(c, v) <=> v \in T
    <3>1. ASSUME NEW v \in Low PROVE container_contains(c, v) <=> v \in T
      BY ContainsValue, Zenon
    <3> QED
      BY <1>1, <3>1
  <2> QED
    BY <1>1, <2>1
<1>3. Cardinality(S \cap T) <= DEFAULT_MAX_SIZE /\ S \cap T \in SUBSET Low
  <2>1. /\ S \cap T \in SUBSET Low /\ Cardinality(S \cap T) \in Nat /\ Cardinality(S) \in Nat
        /\ Cardinality(S \cap T) <= Cardinality(S)
    BY <1>1, CountOfShared
  <2> QED
    BY <1>1, <2>1, ContainerConstants
<1>4. c.type = "array" => c.values = T
  BY SoundIs, ArrayHas, BitsetHas, RunHas
<1>5. Sound(Array(S \cap T), S \cap T)
  BY <1>3, ArrayOf
<1>6. array_bitset_container_intersection(a, c) = Array(S \cap T)
  BY <1>2 DEF array_bitset_container_intersection
<1>7. c.type = "array" => array_container_intersection(a, c) = Array(S \cap T)
  BY <1>1, <1>4 DEF array_container_intersection
<1> QED
  BY <1>5, <1>6, <1>7

\* Two run containers intersect.
LEMMA IntersectionOfRuns ==
  ASSUME NEW c1, NEW S, IsRun(c1, S), NEW c2, NEW T, IsRun(c2, T)
  PROVE  IsRun(run_container_intersection(c1, c2), S \cap T)
<1>1. /\ c1 = Run(c1.runs) /\ Apart(c1.runs) /\ S = RunValues(c1.runs) /\ S \in SUBSET Low
      /\ c2 = Run(c2.runs) /\ Apart(c2.runs) /\ T = RunValues(c2.runs) /\ T \in SUBSET Low
  BY RunHas
<1>2. /\ run_container_is_full(c1) => S = Low
      /\ run_container_is_full(c2) => T = Low
  BY <1>1, FullRun DEF run_container_is_full
<1>3. CASE run_container_is_full(c1)
  <2>1. run_container_intersection(c1, c2) = c2 /\ S \cap T = T
    BY <1>1, <1>2, <1>3 DEF run_container_intersection
  <2> QED
    BY <2>1
<1>4. CASE ~ run_container_is_full(c1) /\ run_container_is_full(c2)
  <2>1. run_container_intersection(c1, c2) = c1 /\ S \cap T = S
    BY <1>1, <1>2, <1>4 DEF run_container_intersection
  <2> QED
    BY <2>1
<1>5. CASE ~ run_container_is_full(c1) /\ ~ run_container_is_full(c2)
  <2>1. run_container_intersection(c1, c2) = Run(SharedRuns(c1.runs, c2.runs))
    BY <1>5 DEF run_container_intersection
  <2>2. Apart(SharedRuns(c1.runs, c2.runs)) /\ RunValues(SharedRuns(c1.runs, c2.runs)) = S \cap T
    BY <1>1, RunsShared
  <2> QED
    BY <2>1, <2>2, RunOf
<1> QED
  BY <1>3, <1>4, <1>5

\* A run container intersects with a bitset.
LEMMA IntersectionOfRunsAndBitset ==
  ASSUME NEW r, NEW S, IsRun(r, S), NEW b, NEW T, IsBitset(b, T), Sound(b, T)
  PROVE  Sound(run_bitset_container_intersection(r, b), S \cap T)
<1>1. /\ Apart(r.runs) /\ S = RunValues(r.runs) /\ S \in SUBSET Low /\ r.type = "run" /\ r = Run(r.runs)
      /\ run_container_cardinality(r) = Cardinality(S) /\ Cardinality(S) \in Nat
  BY RunHas
<1>2. b.type = "bitset" /\ b.values = T /\ T \in SUBSET Low
  BY BitsetHas
<1>3. CASE run_container_is_full(r)
  <2>1. S = Low
    BY <1>1, <1>3, FullRun
  <2>2. run_bitset_container_intersection(r, b) = b /\ S \cap T = T
    BY <1>2, <1>3, <2>1 DEF run_bitset_container_intersection
  <2> QED
    BY <2>2
<1>4. CASE ~ run_container_is_full(r) /\ Cardinality(S) <= DEFAULT_MAX_SIZE
  <2>0. ~ (Cardinality(S) > DEFAULT_MAX_SIZE)
    BY <1>1, <1>4, ContainerConstants
  <2>1. run_bitset_container_intersection(r, b) = array_bitset_container_intersection(Array(S), b)
    <3>1. Array(S).values = S
      BY DEF Array
    <3> QED
      BY <1>1, <1>4, <2>0, <3>1 DEF run_bitset_container_intersection, array_bitset_container_intersection
  <2>2. IsArray(Array(S), S)
    BY <1>1, <1>4, ArrayOf
  <2>3. Sound(array_bitset_container_intersection(Array(S), b), S \cap T)
    BY <2>2, IntersectionWithArray
  <2> QED
    BY <2>1, <2>3
<1>5. CASE ~ run_container_is_full(r) /\ ~ (Cardinality(S) <= DEFAULT_MAX_SIZE)
  <2>0. Cardinality(S) > DEFAULT_MAX_SIZE
    BY <1>1, <1>5, ContainerConstants
  <2>1. run_bitset_container_intersection(r, b) = ArrayIfSmall(Bitset(b.values \cap RunValues(r.runs), Cardinality(b.values \cap RunValues(r.runs))))
    BY <1>1, <1>5, <2>0 DEF run_bitset_container_intersection, bitset_container_compute_cardinality
  <2>2. b.values \cap RunValues(r.runs) = S \cap T /\ S \cap T \in SUBSET Low
    BY <1>1, <1>2
  <2> QED
    BY <2>1, <2>2, SmallBecomesArray
<1> QED
  BY <1>3, <1>4, <1>5

\* An array intersects with a run container.
LEMMA IntersectionOfArrayAndRuns ==
  ASSUME NEW a, NEW S, IsArray(a, S), NEW r, NEW T, IsRun(r, T)
  PROVE  Sound(array_run_container_intersection(a, r), S \cap T)
<1>0. Sound(r, T) /\ Sound(a, S) /\ S \in SUBSET Low
  BY SoundWhen, ArrayHas
<1>1. CASE run_container_is_full(r)
  <2>1. T = Low
    BY <1>1, RunHas, FullRun
  <2>2. array_run_container_intersection(a, r) = a /\ S \cap T = S
    BY <1>0, <1>1, <2>1 DEF array_run_container_intersection
  <2> QED
    BY <1>0, <2>2
<1>2. CASE ~ run_container_is_full(r)
  <2>1. array_run_container_intersection(a, r) = array_bitset_container_intersection(a, r)
    BY <1>2 DEF array_run_container_intersection, array_bitset_container_intersection
  <2> QED
    BY <1>0, <2>1, IntersectionWithArray
<1> QED
  BY <1>1, <1>2

\* container_and and container_iand intersect two containers of any kinds.
THEOREM ContainersIntersect ==
  ASSUME NEW c1, NEW S, Sound(c1, S), NEW c2, NEW T, Sound(c2, T)
  PROVE  Sound(container_and(c1, c2), S \cap T) /\ Sound(container_iand(c1, c2), S \cap T)
<1> USE DEF Both, Among, TheOne, TheOther
<1>0. S \cap T = T \cap S
  OBVIOUS
<1>1. CASE IsArray(c1, S) /\ IsArray(c2, T)
  <2>0. c1.type = "array" /\ c2.type = "array"
    BY <1>1, ArrayHas
  <2>1. /\ container_and(c1, c2) = array_container_intersection(c1, c2)
        /\ container_iand(c1, c2) = array_container_intersection(c1, c2)
    BY <2>0 DEF container_and, container_iand, array_container_intersection, array_container_intersection_inplace
  <2>2. Sound(array_container_intersection(c1, c2), S \cap T)
    BY <1>1, <2>0, IntersectionWithArray, Zenon
  <2> QED
    BY <2>1, <2>2
<1>2. CASE IsBitset(c1, S) /\ IsBitset(c2, T)
  <2>0. c1.type = "bitset" /\ c2.type = "bitset"
    BY <1>2, BitsetHas
  <2>1. /\ container_and(c1, c2) = bitset_bitset_container_intersection(c1, c2)
        /\ container_iand(c1, c2) = bitset_bitset_container_intersection_inplace(c1, c2)
    BY <2>0 DEF container_and, container_iand
  <2> QED
    BY <1>2, <2>1, IntersectionOfBitsets
<1>3. CASE IsRun(c1, S) /\ IsRun(c2, T)
  <2>0. c1.type = "run" /\ c2.type = "run"
    BY <1>3, RunHas
  <2>1. /\ container_and(c1, c2) = convert_run_to_efficient_container(run_container_intersection(c1, c2))
        /\ container_iand(c1, c2) = container_and(c1, c2)
    BY <2>0 DEF container_and, container_iand
  <2>2. IsRun(run_container_intersection(c1, c2), S \cap T)
    BY <1>3, IntersectionOfRuns
  <2> QED
    BY <2>1, <2>2, RunsMadeEfficient
<1>4. c1.type # c2.type => container_iand(c1, c2) = container_and(c1, c2)
  BY DEF container_iand
<1>5. CASE IsArray(c1, S) /\ IsBitset(c2, T)
  <2>0. c1.type = "array" /\ c2.type = "bitset"
    BY <1>5, ArrayHas, BitsetHas
  <2>1. container_and(c1, c2) = array_bitset_container_intersection(c1, c2)
    BY <2>0 DEF container_and
  <2> QED
    BY <1>4, <1>5, <2>0, <2>1, IntersectionWithArray
<1>6. CASE IsBitset(c1, S) /\ IsArray(c2, T)
  <2>0. c1.type = "bitset" /\ c2.type = "array"
    BY <1>6, ArrayHas, BitsetHas
  <2>1. container_and(c1, c2) = array_bitset_container_intersection(c2, c1)
    BY <2>0 DEF container_and
  <2> QED
    BY <1>0, <1>4, <1>6, <2>0, <2>1, IntersectionWithArray
<1>7. CASE IsRun(c1, S) /\ IsBitset(c2, T)
  <2>0. c1.type = "run" /\ c2.type = "bitset"
    BY <1>7, RunHas, BitsetHas
  <2>1. container_and(c1, c2) = run_bitset_container_intersection(c1, c2)
    BY <2>0 DEF container_and
  <2> QED
    BY <1>4, <1>7, <2>0, <2>1, IntersectionOfRunsAndBitset
<1>8. CASE IsBitset(c1, S) /\ IsRun(c2, T)
  <2>0. c1.type = "bitset" /\ c2.type = "run"
    BY <1>8, RunHas, BitsetHas
  <2>1. container_and(c1, c2) = run_bitset_container_intersection(c2, c1)
    BY <2>0 DEF container_and
  <2> QED
    BY <1>0, <1>4, <1>8, <2>0, <2>1, IntersectionOfRunsAndBitset
<1>9. CASE IsArray(c1, S) /\ IsRun(c2, T)
  <2>0. c1.type = "array" /\ c2.type = "run"
    BY <1>9, RunHas, ArrayHas
  <2>1. container_and(c1, c2) = array_run_container_intersection(c1, c2)
    BY <2>0 DEF container_and
  <2> QED
    BY <1>4, <1>9, <2>0, <2>1, IntersectionOfArrayAndRuns
<1>10. CASE IsRun(c1, S) /\ IsArray(c2, T)
  <2>0. c1.type = "run" /\ c2.type = "array"
    BY <1>10, RunHas, ArrayHas
  <2>1. container_and(c1, c2) = array_run_container_intersection(c2, c1)
    BY <2>0 DEF container_and
  <2> QED
    BY <1>0, <1>4, <1>10, <2>0, <2>1, IntersectionOfArrayAndRuns
<1> QED
  BY <1>1, <1>2, <1>3, <1>5, <1>6, <1>7, <1>8, <1>9, <1>10 DEF Sound, Exact

-----------------------------------------------------------------------------
(* Union.                                                                   *)

IsBits(c, S) == IsBitset(c, S) \/ IsLazy(c, S)

\* What a bitset is whose cardinality may be unknown.
LEMMA BitsHave ==
  ASSUME NEW c, NEW S, IsBits(c, S)
  PROVE  c.type = "bitset" /\ c.values = S /\ S \in SUBSET Low /\ Lazy(c, S)
<1>1. CASE IsBitset(c, S)
  BY <1>1, BitsetHas DEF Lazy, Exact
<1>2. CASE IsLazy(c, S)
  BY <1>2, LazyHas DEF Lazy
<1> QED
  BY <1>1, <1>2 DEF IsBits

\* What is assumed of the thresholds, one by one.
LEMMA Thresholds == ARRAY_LAZY_LOWERBOUND \in Nat /\ XorThreshold \in Nat /\ AndNotThreshold \in Nat /\ ARRAY_LAZY_LOWERBOUND <= DEFAULT_MAX_SIZE
  BY ThresholdAssumption DEF ThresholdAssumption

\* Sets made of two sets of values of a chunk.
LEMMA LowPairs ==
  ASSUME NEW S \in SUBSET Low, NEW T \in SUBSET Low
  PROVE  S \cup T \in SUBSET Low /\ S \cap T \in SUBSET Low /\ S \ T \in SUBSET Low /\ SymDiff(S, T) \in SUBSET Low
  BY DEF SymDiff

\* How many values such sets have.
LEMMA CountsOfTwo ==
  ASSUME NEW S \in SUBSET Low, NEW T \in SUBSET Low
  PROVE  /\ Cardinality(S) \in Nat /\ Cardinality(T) \in Nat /\ Cardinality(S \cup T) \in Nat
         /\ Cardinality(SymDiff(S, T)) \in Nat /\ Cardinality(S \ T) \in Nat
         /\ Cardinality(S) <= Cardinality(S \cup T) /\ Cardinality(T) <= Cardinality(S \cup T)
         /\ Cardinality(S \cup T) <= Cardinality(S) + Cardinality(T)
         /\ Cardinality(SymDiff(S, T)) <= Cardinality(S) + Cardinality(T)
         /\ Cardinality(S \ T) <= Cardinality(S)
         /\ Cardinality(S) + Cardinality(T \ S) = Cardinality(S \cup T)
         /\ Cardinality(S) - Cardinality(T \cap S) = Cardinality(S \ T)
         /\ Cardinality(S) + Cardinality(T \ S) - Cardinality(T \cap S) = Cardinality(SymDiff(S, T))
<1>1. /\ S \cup T \in SUBSET Low /\ S \cap T \in SUBSET Low /\ S \ T \in SUBSET Low /\ SymDiff(S, T) \in SUBSET Low
      /\ T \ S \in SUBSET Low /\ T \cap S \in SUBSET Low
  BY DEF SymDiff
<1>2. /\ Cardinality(S) \in Nat /\ Cardinality(T) \in Nat /\ Cardinality(S \cup T) \in Nat
      /\ Cardinality(SymDiff(S, T)) \in Nat /\ Cardinality(S \ T) \in Nat
      /\ Cardinality(T \ S) \in Nat /\ Cardinality(T \cap S) \in Nat
  BY <1>1, CountOfSet
<1>3. /\ Cardinality(S \cup T) = Cardinality(S) + Cardinality(T \ S)
      /\ Cardinality(S \ T) = Cardinality(S) - Cardinality(T \cap S)
      /\ Cardinality(SymDiff(S, T)) = Cardinality(S) + Cardinality(T \ S) - Cardinality(T \cap S)
      /\ Cardinality(T) = Cardinality(T \ S) + Cardinality(T \cap S)
  BY CountOfTwo
<1> HIDE DEF Cardinality
<1> QED
  BY <1>2, <1>3

\* Two arrays are united, or lazily.
LEMMA ArraysUnited ==
  ASSUME NEW a1, NEW S, IsArray(a1, S), NEW a2, NEW T, IsArray(a2, T)
  PROVE  /\ Sound(array_array_container_union(a1, a2), S \cup T)
         /\ Lazy(array_array_container_lazy_union(a1, a2), S \cup T)
<1>1. a1.values = S /\ a2.values = T /\ S \in SUBSET Low /\ T \in SUBSET Low /\ S \cup T \in SUBSET Low
  BY ArrayHas
<1>2. /\ Cardinality(S) + Cardinality(T \ S) = Cardinality(S \cup T)
      /\ Cardinality(S \cup T) <= Cardinality(S) + Cardinality(T)
      /\ Cardinality(S) \in Nat /\ Cardinality(T) \in Nat /\ Cardinality(S \cup T) \in Nat
  BY <1>1, CountsOfTwo
<1> DEFINE b == ArrayIfSmall(Bitset(S \cup T, Cardinality(S \cup T)))
           l == Bitset(S \cup T, BITSET_UNKNOWN_CARDINALITY)
<1>3. array_array_container_union(a1, a2) =
         IF Cardinality(S) + Cardinality(T) <= DEFAULT_MAX_SIZE THEN Array(S \cup T) ELSE b
  <2>1. bitset_set_list(Bitset({}, 0), a1.values).values = S
    BY <1>1 DEF bitset_set_list, Bitset
  <2>2. bitset_set_list_withcard(Bitset(S, Cardinality(S)), T) = Bitset(S \cup T, Cardinality(S \cup T))
    BY <1>2 DEF bitset_set_list_withcard, Bitset
  <2> QED
    BY <1>1, <2>1, <2>2 DEF array_array_container_union, array_container_union
<1>4. array_array_container_lazy_union(a1, a2) =
         IF Cardinality(S) + Cardinality(T) <= ARRAY_LAZY_LOWERBOUND THEN Array(S \cup T) ELSE l
  BY <1>1 DEF array_array_container_lazy_union, bitset_set_list, Bitset, array_container_union
<1>5. ASSUME Cardinality(S) + Cardinality(T) <= DEFAULT_MAX_SIZE PROVE Sound(Array(S \cup T), S \cup T) /\ Lazy(Array(S \cup T), S \cup T)
  BY <1>1, <1>2, <1>5, ContainerConstants, ArrayOf
<1>6. Sound(b, S \cup T) /\ Lazy(l, S \cup T)
  BY <1>1, SmallBecomesArray, LazyOf
<1> HIDE DEF b, l
<1>7. Cardinality(S) + Cardinality(T) <= ARRAY_LAZY_LOWERBOUND => Cardinality(S) + Cardinality(T) <= DEFAULT_MAX_SIZE
  BY <1>2, Thresholds, ContainerConstants
<1> QED
  BY <1>3, <1>4, <1>5, <1>6, <1>7

\* An array and a bitset are united, or lazily.
LEMMA ArrayAndBitsUnited ==
  ASSUME NEW a, NEW S, IsArray(a, S), NEW b, NEW T, IsBits(b, T)
  PROVE  /\ IsBitset(b, T) => IsBitset(array_bitset_container_union(a, b), S \cup T)
         /\ Lazy(array_bitset_container_lazy_union(a, b), S \cup T)
<1>1. a.values = S /\ b.values = T /\ S \in SUBSET Low /\ T \in SUBSET Low /\ S \cup T \in SUBSET Low
  BY ArrayHas, BitsHave
<1>0. T \cup S = S \cup T
  OBVIOUS
<1>2. Cardinality(T) + Cardinality(S \ T) = Cardinality(S \cup T)
  <2>1. Cardinality(T) + Cardinality(S \ T) = Cardinality(T \cup S)
    BY <1>1, CountsOfTwo
  <2> QED
    BY <1>0, <2>1
<1>3. ASSUME IsBitset(b, T) PROVE IsBitset(array_bitset_container_union(a, b), S \cup T)
  <2>1. b.cardinality = Cardinality(T)
    BY <1>3, BitsetHas
  <2>2. array_bitset_container_union(a, b) = Bitset(S \cup T, Cardinality(S \cup T))
    BY <1>0, <1>1, <1>2, <2>1 DEF array_bitset_container_union, bitset_set_list_withcard
  <2> QED
    BY <1>1, <2>2, BitsetOf
<1>4. array_bitset_container_lazy_union(a, b) = Bitset(S \cup T, BITSET_UNKNOWN_CARDINALITY)
  BY <1>0, <1>1 DEF array_bitset_container_lazy_union, bitset_set_list
<1> QED
  BY <1>1, <1>3, <1>4, LazyOf

\* A run container and a bitset are united, or lazily.
LEMMA RunsAndBitsUnited ==
  ASSUME NEW r, NEW S, IsRun(r, S), NEW b, NEW T, IsBits(b, T)
  PROVE  /\ IsBitset(run_bitset_container_union(r, b), S \cup T) \/ IsRun(run_bitset_container_union(r, b), S \cup T)
         /\ Lazy(run_bitset_container_lazy_union(r, b), S \cup T)
<1>1. /\ b.values = T /\ S \in SUBSET Low /\ T \in SUBSET Low /\ S \cup T \in SUBSET Low /\ T \cup S = S \cup T
      /\ r = Run(r.runs) /\ S = RunValues(r.runs)
  BY RunHas, BitsHave
<1>2. CASE run_container_is_full(r)
  <2>1. S = Low
    BY <1>1, <1>2, FullRun
  <2>2. S \cup T = S /\ run_bitset_container_union(r, b) = r /\ run_bitset_container_lazy_union(r, b) = r
    BY <1>1, <1>2, <2>1 DEF run_bitset_container_union, run_bitset_container_lazy_union
  <2> QED
    BY <2>2 DEF Lazy, Exact
<1>3. CASE ~ run_container_is_full(r)
  <2>1. /\ run_bitset_container_union(r, b) = Bitset(S \cup T, Cardinality(S \cup T))
        /\ run_bitset_container_lazy_union(r, b) = Bitset(S \cup T, BITSET_UNKNOWN_CARDINALITY)
    BY <1>1, <1>3 DEF run_bitset_container_union, run_bitset_container_lazy_union, bitset_set_list, bitset_container_compute_cardinality
  <2> QED
    BY <1>1, <2>1, BitsetOf, LazyOf
<1> QED
  BY <1>2, <1>3

\* An array and a run container are united.
LEMMA ArrayAndRunsUnited ==
  ASSUME NEW a, NEW S, IsArray(a, S), NEW r, NEW T, IsRun(r, T), S # {} \/ T # {}
  PROVE  IsRun(array_run_container_union(a, r), S \cup T)
<1>1. /\ a.values = S /\ S \in SUBSET Low /\ T \in SUBSET Low /\ T \cup S = S \cup T
      /\ r = Run(r.runs) /\ T = RunValues(r.runs) /\ Apart(r.runs)
  BY RunHas, ArrayHas
<1>2. CASE run_container_is_full(r)
  <2>1. T = Low
    BY <1>1, <1>2, FullRun
  <2>2. S \cup T = T /\ array_run_container_union(a, r) = r
    BY <1>1, <1>2, <2>1 DEF array_run_container_union
  <2> QED
    BY <2>2
<1>3. CASE ~ run_container_is_full(r)
  <2> DEFINE V == ValueRuns(S)
  <2>1. array_run_container_union(a, r) = AppendedRuns(MergedRuns(r.runs, V))
    BY <1>1, <1>3 DEF array_run_container_union
  <2>2. Separate(V) /\ RunValues(V) = S /\ Separate(r.runs) /\ (V = {} <=> S = {}) /\ (r.runs = {} <=> T = {})
    BY <1>1, RunsOfValues, ApartAreSeparate, SeparateHaveValues
  <2> HIDE DEF V
  <2>3. PICK R : AppendedRuns(MergedRuns(r.runs, V)) = Run(R) /\ Apart(R) /\ RunValues(R) = RunValues(r.runs) \cup RunValues(V)
    BY <2>2, UnionOfRuns
  <2>4. RunValues(R) = S \cup T
    BY <1>1, <2>2, <2>3
  <2>5. IsRun(Run(R), RunValues(R))
    BY <2>3, RunOf
  <2> QED
    BY <2>1, <2>3, <2>4, <2>5
<1> QED
  BY <1>2, <1>3

\* Two run containers are united.
LEMMA RunsUnited ==
  ASSUME NEW r1, NEW S, IsRun(r1, S), NEW r2, NEW T, IsRun(r2, T), S # {} \/ T # {}
  PROVE  IsRun(run_container_union(r1, r2), S \cup T)
<1>1. /\ r1 = Run(r1.runs) /\ S = RunValues(r1.runs) /\ Apart(r1.runs) /\ S \in SUBSET Low
      /\ r2 = Run(r2.runs) /\ T = RunValues(r2.runs) /\ Apart(r2.runs) /\ T \in SUBSET Low
  BY RunHas
<1>2. CASE run_container_is_full(r1)
  <2>1. S = Low
    BY <1>1, <1>2, FullRun
  <2>2. S \cup T = S /\ run_container_union(r1, r2) = r1
    BY <1>1, <1>2, <2>1 DEF run_container_union
  <2> QED
    BY <2>2
<1>3. CASE ~ run_container_is_full(r1) /\ run_container_is_full(r2)
  <2>1. T = Low
    BY <1>1, <1>3, FullRun
  <2>2. S \cup T = T /\ run_container_union(r1, r2) = r2
    BY <1>1, <1>3, <2>1 DEF run_container_union
  <2> QED
    BY <2>2
<1>4. CASE ~ run_container_is_full(r1) /\ ~ run_container_is_full(r2)
  <2>1. run_container_union(r1, r2) = AppendedRuns(MergedRuns(r1.runs, r2.runs))
    BY <1>4 DEF run_container_union
  <2>2. Separate(r1.runs) /\ Separate(r2.runs) /\ (r1.runs # {} \/ r2.runs # {})
    BY <1>1, ApartAreSeparate, SeparateHaveValues
  <2>3. PICK R : AppendedRuns(MergedRuns(r1.runs, r2.runs)) = Run(R) /\ Apart(R) /\ RunValues(R) = RunValues(r1.runs) \cup RunValues(r2.runs)
    BY <2>2, UnionOfRuns
  <2>5. IsRun(Run(R), RunValues(R))
    BY <2>3, RunOf
  <2> QED
    BY <1>1, <2>1, <2>3, <2>5
<1> QED
  BY <1>2, <1>3, <1>4

\* A bitset with all values is made a run.
LEMMA FilledBecomesRun ==
  ASSUME NEW U \in SUBSET Low
  PROVE  LET c == FullIfFull(Bitset(U, Cardinality(U))) IN IsBitset(c, U) \/ IsRun(c, U)
<1>1. Bitset(U, Cardinality(U)).cardinality = Cardinality(U)
  BY DEF Bitset
<1>2. CASE Cardinality(U) = ChunkSize
  <2>1. U = Low
    BY <1>2, CountOfSet
  <2> QED
    BY <1>1, <1>2, <2>1, FullRunOf DEF FullIfFull, Full
<1>3. CASE Cardinality(U) # ChunkSize
  BY <1>1, <1>3, BitsetOf DEF FullIfFull
<1> QED
  BY <1>2, <1>3

\* Two bitsets are united, or lazily.
LEMMA BitsetsUnited ==
  ASSUME NEW b1, NEW S, IsBits(b1, S), NEW b2, NEW T, IsBits(b2, T)
  PROVE  /\ IsBitset(bitset_container_or(b1, b2), S \cup T)
         /\ LET c == FullIfFull(bitset_container_or(b1, b2)) IN IsBitset(c, S \cup T) \/ IsRun(c, S \cup T)
         /\ Lazy(bitset_container_or_nocard(b1, b2), S \cup T)
<1>1. b1.values = S /\ b2.values = T /\ S \cup T \in SUBSET Low
  BY BitsHave
<1>2. /\ bitset_container_or(b1, b2) = Bitset(S \cup T, Cardinality(S \cup T))
      /\ bitset_container_or_nocard(b1, b2) = Bitset(S \cup T, BITSET_UNKNOWN_CARDINALITY)
  BY <1>1 DEF bitset_container_or, bitset_container_compute_cardinality, bitset_container_or_nocard
<1> QED
  BY <1>1, <1>2, BitsetOf, LazyOf, FilledBecomesRun

\* The kinds of containers that stand lazily for a set.
LEMMA KindsOfLazy ==
  ASSUME NEW c, NEW S, Lazy(c, S)
  PROVE  IsArray(c, S) \/ IsBits(c, S) \/ IsRun(c, S)
  BY DEF Lazy, Exact, IsBits

\* What becomes of two containers: counted, and sound when both are.
Kept(c1, S, c2, T, c, U) == Exact(c, U) /\ (Sound(c1, S) /\ Sound(c2, T) => Sound(c, U))

\* A sound container is what a union may leave.
LEMMA KeptWhenSound ==
  ASSUME NEW c1, NEW S, NEW c2, NEW T, NEW c, NEW U, Sound(c, U) \/ IsRun(c, U)
  PROVE  Kept(c1, S, c2, T, c, U)
  BY SoundWhen DEF Kept, Sound

\* A bitset that grew is what a union may leave.
LEMMA KeptWhenGrown ==
  ASSUME NEW c1, NEW S, NEW c2, NEW T, IsBitset(c1, S) \/ IsBitset(c2, T), T \in SUBSET Low, S \in SUBSET Low,
         NEW c, IsBitset(c, S \cup T) \/ IsRun(c, S \cup T)
  PROVE  Kept(c1, S, c2, T, c, S \cup T)
<1>1. CASE IsRun(c, S \cup T)
  BY <1>1, KeptWhenSound
<1>2. CASE IsBitset(c, S \cup T)
  <2>1. /\ Cardinality(S) \in Nat /\ Cardinality(T) \in Nat /\ Cardinality(S \cup T) \in Nat
        /\ Cardinality(S) <= Cardinality(S \cup T) /\ Cardinality(T) <= Cardinality(S \cup T)
    BY CountsOfTwo
  <2>2. ASSUME Sound(c1, S), Sound(c2, T) PROVE Sound(c, S \cup T)
    <3>1. Cardinality(S) > DEFAULT_MAX_SIZE \/ Cardinality(T) > DEFAULT_MAX_SIZE
      BY <2>2, BitsetHas DEF Sound
    <3>2. Cardinality(S \cup T) > DEFAULT_MAX_SIZE
      BY <2>1, <3>1, ContainerConstants
    <3> QED
      BY <1>2, <3>2, SoundWhen
  <2> QED
    BY <1>2, <2>2 DEF Kept, Exact
<1> QED
  BY <1>1, <1>2

\* container_or and container_ior unite two containers of any kinds.
THEOREM ContainersUnite ==
  ASSUME NEW c1, NEW S, Exact(c1, S), NEW c2, NEW T, Exact(c2, T), S # {} \/ T # {}
  PROVE  /\ Kept(c1, S, c2, T, container_or(c1, c2), S \cup T)
         /\ Kept(c1, S, c2, T, container_ior(c1, c2), S \cup T)
<1> USE DEF Both, Among, TheOne, TheOther, Pair
<1>0. S \cup T = T \cup S /\ S \in SUBSET Low /\ T \in SUBSET Low
  BY CountedIsRight, LazyHasValues
<1>1. CASE IsArray(c1, S) /\ IsArray(c2, T)
  <2>0. c1.type = "array" /\ c2.type = "array"
    BY <1>1, ArrayHas
  <2>1. /\ container_or(c1, c2) = array_array_container_union(c1, c2)
        /\ container_ior(c1, c2) = array_array_container_union(c1, c2)
    BY <2>0 DEF container_or, container_ior, array_array_container_inplace_union
  <2> QED
    BY <1>1, <2>1, ArraysUnited, KeptWhenSound
<1>2. CASE IsArray(c1, S) /\ IsBitset(c2, T)
  <2>0. c1.type = "array" /\ c2.type = "bitset"
    BY <1>2, ArrayHas, BitsetHas
  <2>1. /\ container_or(c1, c2) = array_bitset_container_union(c1, c2)
        /\ container_ior(c1, c2) = array_bitset_container_union(c1, c2)
    BY <2>0 DEF container_or, container_ior, array_run_container_inplace_union
  <2> QED
    BY <1>0, <1>2, <2>1, ArrayAndBitsUnited, KeptWhenGrown DEF IsBits
<1>3. CASE IsArray(c1, S) /\ IsRun(c2, T)
  <2>0. c1.type = "array" /\ c2.type = "run"
    BY <1>3, ArrayHas, RunHas
  <2>1. /\ container_or(c1, c2) = convert_run_to_efficient_container(array_run_container_union(c1, c2))
        /\ container_ior(c1, c2) = convert_run_to_efficient_container(array_run_container_union(c1, c2))
    BY <2>0 DEF container_or, container_ior, array_run_container_inplace_union
  <2> QED
    BY <1>0, <1>3, <2>1, ArrayAndRunsUnited, RunsMadeEfficient, KeptWhenSound
<1>4. CASE IsBitset(c1, S) /\ IsArray(c2, T)
  <2>0. c1.type = "bitset" /\ c2.type = "array"
    BY <1>4, BitsetHas, ArrayHas
  <2>1. /\ container_or(c1, c2) = array_bitset_container_union(c2, c1)
        /\ container_ior(c1, c2) = array_bitset_container_union(c2, c1)
    BY <2>0 DEF container_or, container_ior, array_run_container_inplace_union
  <2> QED
    BY <1>0, <1>4, <2>1, ArrayAndBitsUnited, KeptWhenGrown DEF IsBits
<1>5. CASE IsBitset(c1, S) /\ IsBitset(c2, T)
  <2>0. c1.type = "bitset" /\ c2.type = "bitset"
    BY <1>5, BitsetHas
  <2>1. /\ container_or(c1, c2) = bitset_container_or(c1, c2)
        /\ container_ior(c1, c2) = FullIfFull(bitset_container_or(c1, c2))
    BY <2>0 DEF container_or, container_ior
  <2> QED
    BY <1>0, <1>5, <2>1, BitsetsUnited, KeptWhenGrown DEF IsBits
<1>6. CASE IsBitset(c1, S) /\ IsRun(c2, T)
  <2>0. c1.type = "bitset" /\ c2.type = "run"
    BY <1>6, BitsetHas, RunHas
  <2>1. /\ container_or(c1, c2) = run_bitset_container_union(c2, c1)
        /\ container_ior(c1, c2) = run_bitset_container_union(c2, c1)
    BY <2>0 DEF container_or, container_ior, array_run_container_inplace_union
  <2> QED
    BY <1>0, <1>6, <2>1, RunsAndBitsUnited, KeptWhenGrown DEF IsBits
<1>7. CASE IsRun(c1, S) /\ IsArray(c2, T)
  <2>0. c1.type = "run" /\ c2.type = "array"
    BY <1>7, RunHas, ArrayHas
  <2>1. /\ container_or(c1, c2) = convert_run_to_efficient_container(array_run_container_union(c2, c1))
        /\ container_ior(c1, c2) = convert_run_to_efficient_container(array_run_container_union(c2, c1))
    BY <2>0 DEF container_or, container_ior, array_run_container_inplace_union
  <2> QED
    BY <1>0, <1>7, <2>1, ArrayAndRunsUnited, RunsMadeEfficient, KeptWhenSound
<1>8. CASE IsRun(c1, S) /\ IsBitset(c2, T)
  <2>0. c1.type = "run" /\ c2.type = "bitset"
    BY <1>8, RunHas, BitsetHas
  <2>1. /\ container_or(c1, c2) = run_bitset_container_union(c1, c2)
        /\ container_ior(c1, c2) = run_bitset_container_union(c1, c2)
    BY <2>0 DEF container_or, container_ior, array_run_container_inplace_union
  <2> QED
    BY <1>0, <1>8, <2>1, RunsAndBitsUnited, KeptWhenGrown DEF IsBits
<1>9. CASE IsRun(c1, S) /\ IsRun(c2, T)
  <2>0. c1.type = "run" /\ c2.type = "run"
    BY <1>9, RunHas
  <2>1. /\ container_or(c1, c2) = convert_run_to_efficient_container(run_container_union(c1, c2))
        /\ container_ior(c1, c2) = convert_run_to_efficient_container(run_container_union(c1, c2))
    BY <2>0 DEF container_or, container_ior, run_container_union_inplace
  <2> QED
    BY <1>9, <2>1, RunsUnited, RunsMadeEfficient, KeptWhenSound
<1> QED
  BY <1>1, <1>2, <1>3, <1>4, <1>5, <1>6, <1>7, <1>8, <1>9 DEF Exact

\* container_lazy_or and container_lazy_ior unite lazily.
THEOREM ContainersUniteLazily ==
  ASSUME NEW c1, NEW S, Lazy(c1, S), NEW c2, NEW T, Lazy(c2, T), S # {} \/ T # {}
  PROVE  Lazy(container_lazy_or(c1, c2), S \cup T) /\ Lazy(container_lazy_ior(c1, c2), S \cup T)
<1> USE DEF Both, Among, TheOne, TheOther, Pair
<1>0. S \cup T = T \cup S /\ S \in SUBSET Low /\ T \in SUBSET Low
  BY LazyHasValues
<1>100. \A c : Sound(c, S \cup T) \/ IsRun(c, S \cup T) \/ IsBitset(c, S \cup T) => Lazy(c, S \cup T)
  BY DEF Sound, Lazy, Exact
<1>1. CASE IsArray(c1, S) /\ IsArray(c2, T)
  <2>0. c1.type = "array" /\ c2.type = "array"
    BY <1>1, ArrayHas
  <2>1. /\ container_lazy_or(c1, c2) = array_array_container_lazy_union(c1, c2)
        /\ container_lazy_ior(c1, c2) = array_array_container_lazy_union(c1, c2)
    BY <2>0 DEF container_lazy_or, container_lazy_ior, array_array_container_lazy_inplace_union, run_container_union_inplace, array_run_container_inplace_union
  <2> QED
    BY <1>1, <1>100, <2>1, ArraysUnited
<1>2. CASE IsArray(c1, S) /\ IsBits(c2, T)
  <2>0. c1.type = "array" /\ c2.type = "bitset"
    BY <1>2, ArrayHas, BitsHave
  <2>1. /\ container_lazy_or(c1, c2) = array_bitset_container_lazy_union(c1, c2)
        /\ container_lazy_ior(c1, c2) = array_bitset_container_lazy_union(c1, c2)
    BY <2>0 DEF container_lazy_or, container_lazy_ior, array_array_container_lazy_inplace_union, run_container_union_inplace, array_run_container_inplace_union
  <2> QED
    BY <1>2, <1>100, <2>1, ArrayAndBitsUnited
<1>3. CASE IsArray(c1, S) /\ IsRun(c2, T)
  <2>0. c1.type = "array" /\ c2.type = "run"
    BY <1>3, ArrayHas, RunHas
  <2>1. /\ container_lazy_or(c1, c2) = array_run_container_union(c1, c2)
        /\ container_lazy_ior(c1, c2) = array_run_container_union(c1, c2)
    BY <2>0 DEF container_lazy_or, container_lazy_ior, array_array_container_lazy_inplace_union, run_container_union_inplace, array_run_container_inplace_union
  <2> QED
    BY <1>3, <1>100, <2>1, ArrayAndRunsUnited
<1>4. CASE IsBits(c1, S) /\ IsArray(c2, T)
  <2>0. c1.type = "bitset" /\ c2.type = "array"
    BY <1>4, BitsHave, ArrayHas
  <2>1. /\ container_lazy_or(c1, c2) = array_bitset_container_lazy_union(c2, c1)
        /\ container_lazy_ior(c1, c2) = array_bitset_container_lazy_union(c2, c1)
    BY <2>0 DEF container_lazy_or, container_lazy_ior, array_array_container_lazy_inplace_union, run_container_union_inplace, array_run_container_inplace_union
  <2> QED
    BY <1>0, <1>4, <1>100, <2>1, ArrayAndBitsUnited
<1>5. CASE IsBits(c1, S) /\ IsBits(c2, T)
  <2>0. c1.type = "bitset" /\ c2.type = "bitset"
    BY <1>5, BitsHave
  <2>1. /\ container_lazy_or(c1, c2) = bitset_container_or_nocard(c1, c2)
        /\ container_lazy_ior(c1, c2) = FullIfFull(bitset_container_or(c1, c2))
    BY <2>0 DEF container_lazy_or, container_lazy_ior
  <2> QED
    BY <1>5, <1>100, <2>1, BitsetsUnited
<1>6. CASE IsBits(c1, S) /\ IsRun(c2, T)
  <2>0. c1.type = "bitset" /\ c2.type = "run"
    BY <1>6, BitsHave, RunHas
  <2>1. /\ container_lazy_or(c1, c2) = run_bitset_container_lazy_union(c2, c1)
        /\ container_lazy_ior(c1, c2) = run_bitset_container_lazy_union(c2, c1)
    BY <2>0 DEF container_lazy_or, container_lazy_ior, array_array_container_lazy_inplace_union, run_container_union_inplace, array_run_container_inplace_union
  <2> QED
    BY <1>0, <1>6, <1>100, <2>1, RunsAndBitsUnited
<1>7. CASE IsRun(c1, S) /\ IsArray(c2, T)
  <2>0. c1.type = "run" /\ c2.type = "array"
    BY <1>7, RunHas, ArrayHas
  <2>1. /\ container_lazy_or(c1, c2) = array_run_container_union(c2, c1)
        /\ container_lazy_ior(c1, c2) = array_run_container_union(c2, c1)
    BY <2>0 DEF container_lazy_or, container_lazy_ior, array_array_container_lazy_inplace_union, run_container_union_inplace, array_run_container_inplace_union
  <2> QED
    BY <1>0, <1>7, <1>100, <2>1, ArrayAndRunsUnited
<1>8. CASE IsRun(c1, S) /\ IsBits(c2, T)
  <2>0. c1.type = "run" /\ c2.type = "bitset"
    BY <1>8, RunHas, BitsHave
  <2>1. /\ container_lazy_or(c1, c2) = run_bitset_container_lazy_union(c1, c2)
        /\ container_lazy_ior(c1, c2) = run_bitset_container_lazy_union(c1, c2)
    BY <2>0 DEF container_lazy_or, container_lazy_ior, array_array_container_lazy_inplace_union, run_container_union_inplace, array_run_container_inplace_union
  <2> QED
    BY <1>8, <1>100, <2>1, RunsAndBitsUnited
<1>9. CASE IsRun(c1, S) /\ IsRun(c2, T)
  <2>0. c1.type = "run" /\ c2.type = "run"
    BY <1>9, RunHas
  <2>1. /\ container_lazy_or(c1, c2) = convert_run_to_efficient_container(run_container_union(c1, c2))
        /\ container_lazy_ior(c1, c2) = convert_run_to_efficient_container(run_container_union(c1, c2))
    BY <2>0 DEF container_lazy_or, container_lazy_ior, array_array_container_lazy_inplace_union, run_container_union_inplace, array_run_container_inplace_union
  <2> QED
    BY <1>9, <1>100, <2>1, RunsUnited, RunsMadeEfficient
<1> QED
  BY <1>1, <1>2, <1>3, <1>4, <1>5, <1>6, <1>7, <1>8, <1>9, KindsOfLazy

-----------------------------------------------------------------------------
(* Symmetric difference.                                                    *)

\* The symmetric difference is the same both ways.
LEMMA SymDiffCommutes == \A S, T : SymDiff(S, T) = SymDiff(T, S)
  BY DEF SymDiff

\* The values of an array are flipped in a bitset.
LEMMA BitsFlipped ==
  ASSUME NEW b, NEW S, IsBits(b, S), NEW T \in SUBSET Low
  PROVE  /\ IsBitset(b, S) => bitset_flip_list_withcard(b, T) = Bitset(SymDiff(S, T), Cardinality(SymDiff(S, T)))
         /\ bitset_flip_list(b, T) = Bitset(SymDiff(S, T), BITSET_UNKNOWN_CARDINALITY)
         /\ Lazy(bitset_flip_list(b, T), SymDiff(S, T))
<1>1. b.values = S /\ S \in SUBSET Low /\ SymDiff(S, T) \in SUBSET Low
  BY BitsHave, LowPairs
<1>2. Cardinality(S) + Cardinality(T \ S) - Cardinality(T \cap S) = Cardinality(SymDiff(S, T))
  BY <1>1, CountsOfTwo
<1>3. IsBitset(b, S) => b.cardinality = Cardinality(S)
  BY BitsetHas
<1>4. bitset_flip_list(b, T) = Bitset(SymDiff(S, T), BITSET_UNKNOWN_CARDINALITY)
  BY <1>1 DEF bitset_flip_list
<1>5. IsBitset(b, S) => bitset_flip_list_withcard(b, T) = Bitset(SymDiff(S, T), Cardinality(SymDiff(S, T)))
  BY <1>1, <1>2, <1>3 DEF bitset_flip_list_withcard
<1> QED
  BY <1>1, <1>4, <1>5, LazyOf

\* The symmetric difference of two arrays.
LEMMA ArraysDiffer ==
  ASSUME NEW a1, NEW S, IsArray(a1, S), NEW a2, NEW T, IsArray(a2, T)
  PROVE  /\ Sound(array_array_container_xor(a1, a2), SymDiff(S, T))
         /\ Lazy(array_array_container_lazy_xor(a1, a2), SymDiff(S, T))
<1> DEFINE D == SymDiff(S, T)
           b == ArrayIfSmall(Bitset(D, Cardinality(D)))
           l == Bitset(D, BITSET_UNKNOWN_CARDINALITY)
<1>1. a1.values = S /\ a2.values = T /\ S \in SUBSET Low /\ T \in SUBSET Low /\ D \in SUBSET Low
  BY ArrayHas, LowPairs
<1>2. /\ Cardinality(D) <= Cardinality(S) + Cardinality(T)
      /\ Cardinality(S) \in Nat /\ Cardinality(T) \in Nat /\ Cardinality(D) \in Nat
  BY <1>1, CountsOfTwo
<1>3. IsBitset(bitset_container_from_array(a1), S)
  BY <1>1, BitsetOf DEF bitset_container_from_array
<1>4. /\ array_array_container_xor(a1, a2) =
            IF Cardinality(S) + Cardinality(T) <= DEFAULT_MAX_SIZE THEN Array(D) ELSE b
      /\ array_array_container_lazy_xor(a1, a2) =
            IF Cardinality(S) + Cardinality(T) <= ARRAY_LAZY_LOWERBOUND THEN Array(D) ELSE l
  <2>1. /\ bitset_flip_list_withcard(bitset_container_from_array(a1), T) = Bitset(D, Cardinality(D))
        /\ bitset_flip_list(bitset_container_from_array(a1), T) = l
    BY <1>1, <1>3, BitsFlipped DEF IsBits
  <2> QED
    BY <1>1, <2>1 DEF array_array_container_xor, array_array_container_lazy_xor, array_container_xor
<1>5. ASSUME Cardinality(S) + Cardinality(T) <= DEFAULT_MAX_SIZE PROVE Sound(Array(D), D) /\ Lazy(Array(D), D)
  BY <1>1, <1>2, <1>5, ContainerConstants, ArrayOf
<1>6. Sound(b, D) /\ Lazy(l, D)
  BY <1>1, SmallBecomesArray, LazyOf
<1> HIDE DEF b, l, D
<1>7. Cardinality(S) + Cardinality(T) <= ARRAY_LAZY_LOWERBOUND => Cardinality(S) + Cardinality(T) <= DEFAULT_MAX_SIZE
  BY <1>2, Thresholds, ContainerConstants
<1> QED
  BY <1>4, <1>5, <1>6, <1>7 DEF D

\* The symmetric difference of an array and a bitset.
LEMMA ArrayAndBitsDiffer ==
  ASSUME NEW a, NEW S, IsArray(a, S), NEW b, NEW T, IsBits(b, T)
  PROVE  /\ IsBitset(b, T) => Sound(array_bitset_container_xor(a, b), SymDiff(S, T))
         /\ Lazy(array_bitset_container_lazy_xor(a, b), SymDiff(S, T))
<1>1. a.values = S /\ S \in SUBSET Low /\ T \in SUBSET Low /\ SymDiff(T, S) \in SUBSET Low /\ SymDiff(T, S) = SymDiff(S, T)
  BY ArrayHas, BitsHave, LowPairs, SymDiffCommutes
<1>2. /\ IsBitset(b, T) => bitset_flip_list_withcard(b, S) = Bitset(SymDiff(T, S), Cardinality(SymDiff(T, S)))
      /\ Lazy(bitset_flip_list(b, S), SymDiff(T, S))
  BY <1>1, BitsFlipped
<1>3. Sound(ArrayIfSmall(Bitset(SymDiff(T, S), Cardinality(SymDiff(T, S)))), SymDiff(T, S))
  BY <1>1, SmallBecomesArray
<1> QED
  BY <1>1, <1>2, <1>3 DEF array_bitset_container_xor, array_bitset_container_lazy_xor

\* The symmetric difference of a run container and a bitset.
LEMMA RunsAndBitsDiffer ==
  ASSUME NEW r, NEW S, IsRun(r, S), NEW b, NEW T, IsBits(b, T)
  PROVE  /\ Sound(run_bitset_container_xor(r, b), SymDiff(S, T))
         /\ Lazy(run_bitset_container_lazy_xor(r, b), SymDiff(S, T))
<1>1. b.values = T /\ S \in SUBSET Low /\ T \in SUBSET Low /\ SymDiff(T, S) \in SUBSET Low /\ SymDiff(T, S) = SymDiff(S, T) /\ S = RunValues(r.runs)
  BY RunHas, BitsHave, LowPairs, SymDiffCommutes
<1>2. Lazy(bitset_flip_list(b, S), SymDiff(T, S))
  BY <1>1, BitsFlipped
<1>3. Sound(ArrayIfSmall(Bitset(SymDiff(T, S), Cardinality(SymDiff(T, S)))), SymDiff(T, S))
  BY <1>1, SmallBecomesArray
<1> QED
  BY <1>1, <1>2, <1>3 DEF run_bitset_container_xor, run_bitset_container_lazy_xor, bitset_container_compute_cardinality

\* The symmetric difference of two bitsets.
LEMMA BitsetsDiffer ==
  ASSUME NEW b1, NEW S, IsBits(b1, S), NEW b2, NEW T, IsBits(b2, T)
  PROVE  /\ Sound(bitset_bitset_container_xor(b1, b2), SymDiff(S, T))
         /\ Lazy(bitset_container_xor_nocard(b1, b2), SymDiff(S, T))
<1>1. b1.values = S /\ b2.values = T /\ SymDiff(S, T) \in SUBSET Low
  BY BitsHave, LowPairs
<1>2. /\ bitset_bitset_container_xor(b1, b2) = ArrayIfSmall(Bitset(SymDiff(S, T), Cardinality(SymDiff(S, T))))
      /\ bitset_container_xor_nocard(b1, b2) = Bitset(SymDiff(S, T), BITSET_UNKNOWN_CARDINALITY)
  BY <1>1 DEF bitset_bitset_container_xor, bitset_container_xor, bitset_container_compute_cardinality, bitset_container_xor_nocard
<1> QED
  BY <1>1, <1>2, SmallBecomesArray, LazyOf

\* The symmetric difference of two run containers.
LEMMA RunsDiffer ==
  ASSUME NEW r1, NEW S, IsRun(r1, S), NEW r2, NEW T, IsRun(r2, T)
  PROVE  IsRun(run_container_xor(r1, r2), SymDiff(S, T)) /\ Sound(run_run_container_xor(r1, r2), SymDiff(S, T))
<1>1. /\ S = RunValues(r1.runs) /\ Separate(r1.runs) /\ T = RunValues(r2.runs) /\ Separate(r2.runs)
  BY RunHas, ApartAreSeparate
<1>2. PICK R : ExclusiveRuns(MergedRuns(r1.runs, r2.runs)) = Run(R) /\ Apart(R) /\ RunValues(R) = SymDiff(S, T)
  BY <1>1, DifferenceOfRuns
<1>3. IsRun(run_container_xor(r1, r2), SymDiff(S, T))
  BY <1>2, RunOf DEF run_container_xor
<1> QED
  BY <1>3, RunsMadeEfficient DEF run_run_container_xor

\* The symmetric difference of an array and a run container.
LEMMA ArrayAndRunsDiffer ==
  ASSUME NEW a, NEW S, IsArray(a, S), NEW r, NEW T, IsRun(r, T)
  PROVE  /\ IsRun(array_run_container_lazy_xor(a, r), SymDiff(S, T))
         /\ Sound(array_run_container_xor(a, r), SymDiff(S, T))
<1>1. /\ a.values = S /\ S \in SUBSET Low /\ T \in SUBSET Low /\ SymDiff(T, S) = SymDiff(S, T)
      /\ T = RunValues(r.runs) /\ Apart(r.runs) /\ r = Run(r.runs) /\ run_container_cardinality(r) = Cardinality(T)
      /\ Cardinality(S) \in Nat /\ Cardinality(T) \in Nat
  BY RunHas, ArrayHas, SymDiffCommutes
<1>2. Separate(ValueRuns(S)) /\ RunValues(ValueRuns(S)) = S /\ Separate(r.runs)
  BY <1>1, RunsOfValues, ApartAreSeparate
<1>3. PICK R : ExclusiveRuns(MergedRuns(r.runs, ValueRuns(S))) = Run(R) /\ Apart(R) /\ RunValues(R) = SymDiff(T, S)
  BY <1>1, <1>2, DifferenceOfRuns
<1>4. IsRun(array_run_container_lazy_xor(a, r), SymDiff(S, T))
  BY <1>1, <1>3, RunOf DEF array_run_container_lazy_xor
<1>5. CASE Cardinality(S) < XorThreshold
  <2>1. ~ (Cardinality(S) >= XorThreshold)
    BY <1>1, <1>5, Thresholds
  <2>2. array_run_container_xor(a, r) = convert_run_to_efficient_container(array_run_container_lazy_xor(a, r))
    BY <1>1, <1>5, <2>1 DEF array_run_container_xor
  <2> QED
    BY <1>4, <2>2, RunsMadeEfficient
<1>6. CASE ~ (Cardinality(S) < XorThreshold) /\ Cardinality(T) <= DEFAULT_MAX_SIZE
  <2>1. Cardinality(S) >= XorThreshold /\ ~ (Cardinality(T) > DEFAULT_MAX_SIZE)
    BY <1>1, <1>6, Thresholds, ContainerConstants
  <2>2. array_run_container_xor(a, r) = array_array_container_xor(array_container_from_run(r), a)
    BY <1>1, <1>6, <2>1 DEF array_run_container_xor
  <2>3. IsArray(array_container_from_run(r), T)
    BY <1>1, <1>6, ArrayOf DEF array_container_from_run
  <2>4. Sound(array_array_container_xor(array_container_from_run(r), a), SymDiff(T, S))
    BY <2>3, ArraysDiffer
  <2> QED
    BY <1>1, <1>4, <2>2, <2>4
<1>7. CASE ~ (Cardinality(S) < XorThreshold) /\ ~ (Cardinality(T) <= DEFAULT_MAX_SIZE)
  <2>1. Cardinality(S) >= XorThreshold /\ Cardinality(T) > DEFAULT_MAX_SIZE
    BY <1>1, <1>7, Thresholds, ContainerConstants
  <2>2. array_run_container_xor(a, r) = array_bitset_container_xor(a, bitset_container_from_run(r))
    BY <1>1, <1>7, <2>1 DEF array_run_container_xor
  <2>3. IsBitset(bitset_container_from_run(r), T)
    BY <1>1, BitsetOf DEF bitset_container_from_run
  <2> QED
    BY <1>4, <2>2, <2>3, ArrayAndBitsDiffer DEF IsBits
<1> QED
  BY <1>5, <1>6, <1>7

\* container_xor and container_ixor have the symmetric difference, of any kinds.
THEOREM ContainersDiffer ==
  ASSUME NEW c1, NEW S, Exact(c1, S), NEW c2, NEW T, Exact(c2, T)
  PROVE  Sound(container_xor(c1, c2), SymDiff(S, T)) /\ Sound(container_ixor(c1, c2), SymDiff(S, T))
<1> USE DEF Both, Among, TheOne, TheOther
<1>0. SymDiff(S, T) = SymDiff(T, S) /\ container_ixor(c1, c2) = container_xor(c1, c2)
  BY SymDiffCommutes DEF container_ixor
<1>1. CASE IsArray(c1, S) /\ IsArray(c2, T)
  <2>0. c1.type = "array" /\ c2.type = "array"
    BY <1>1, ArrayHas
  <2>1. container_xor(c1, c2) = array_array_container_xor(c1, c2)
    BY <2>0 DEF container_xor
  <2> QED
    BY <1>1, <2>1, <1>0, ArraysDiffer DEF IsBits
<1>2. CASE IsArray(c1, S) /\ IsBitset(c2, T)
  <2>0. c1.type = "array" /\ c2.type = "bitset"
    BY <1>2, ArrayHas, BitsetHas
  <2>1. container_xor(c1, c2) = array_bitset_container_xor(c1, c2)
    BY <2>0 DEF container_xor
  <2> QED
    BY <1>2, <2>1, <1>0, ArrayAndBitsDiffer DEF IsBits
<1>3. CASE IsArray(c1, S) /\ IsRun(c2, T)
  <2>0. c1.type = "array" /\ c2.type = "run"
    BY <1>3, ArrayHas, RunHas
  <2>1. container_xor(c1, c2) = array_run_container_xor(c1, c2)
    BY <2>0 DEF container_xor
  <2> QED
    BY <1>3, <2>1, <1>0, ArrayAndRunsDiffer DEF IsBits
<1>4. CASE IsBitset(c1, S) /\ IsArray(c2, T)
  <2>0. c1.type = "bitset" /\ c2.type = "array"
    BY <1>4, BitsetHas, ArrayHas
  <2>1. container_xor(c1, c2) = array_bitset_container_xor(c2, c1)
    BY <2>0 DEF container_xor
  <2> QED
    BY <1>4, <2>1, <1>0, ArrayAndBitsDiffer DEF IsBits
<1>5. CASE IsBitset(c1, S) /\ IsBitset(c2, T)
  <2>0. c1.type = "bitset" /\ c2.type = "bitset"
    BY <1>5, BitsetHas
  <2>1. container_xor(c1, c2) = bitset_bitset_container_xor(c1, c2)
    BY <2>0 DEF container_xor
  <2> QED
    BY <1>5, <2>1, <1>0, BitsetsDiffer DEF IsBits
<1>6. CASE IsBitset(c1, S) /\ IsRun(c2, T)
  <2>0. c1.type = "bitset" /\ c2.type = "run"
    BY <1>6, BitsetHas, RunHas
  <2>1. container_xor(c1, c2) = run_bitset_container_xor(c2, c1)
    BY <2>0 DEF container_xor
  <2> QED
    BY <1>6, <2>1, <1>0, RunsAndBitsDiffer DEF IsBits
<1>7. CASE IsRun(c1, S) /\ IsArray(c2, T)
  <2>0. c1.type = "run" /\ c2.type = "array"
    BY <1>7, RunHas, ArrayHas
  <2>1. container_xor(c1, c2) = array_run_container_xor(c2, c1)
    BY <2>0 DEF container_xor
  <2> QED
    BY <1>7, <2>1, <1>0, ArrayAndRunsDiffer DEF IsBits
<1>8. CASE IsRun(c1, S) /\ IsBitset(c2, T)
  <2>0. c1.type = "run" /\ c2.type = "bitset"
    BY <1>8, RunHas, BitsetHas
  <2>1. container_xor(c1, c2) = run_bitset_container_xor(c1, c2)
    BY <2>0 DEF container_xor
  <2> QED
    BY <1>8, <2>1, <1>0, RunsAndBitsDiffer DEF IsBits
<1>9. CASE IsRun(c1, S) /\ IsRun(c2, T)
  <2>0. c1.type = "run" /\ c2.type = "run"
    BY <1>9, RunHas
  <2>1. container_xor(c1, c2) = run_run_container_xor(c1, c2)
    BY <2>0 DEF container_xor
  <2> QED
    BY <1>9, <2>1, <1>0, RunsDiffer DEF IsBits
<1> QED
  BY <1>1, <1>2, <1>3, <1>4, <1>5, <1>6, <1>7, <1>8, <1>9 DEF Exact

\* container_lazy_xor has it lazily.
THEOREM ContainersDifferLazily ==
  ASSUME NEW c1, NEW S, Lazy(c1, S), NEW c2, NEW T, Lazy(c2, T)
  PROVE  Lazy(container_lazy_xor(c1, c2), SymDiff(S, T))
<1> USE DEF Both, Among, TheOne, TheOther
<1>0. SymDiff(S, T) = SymDiff(T, S)
  BY SymDiffCommutes
<1>100. \A c : Sound(c, SymDiff(S, T)) \/ IsRun(c, SymDiff(S, T)) => Lazy(c, SymDiff(S, T))
  BY DEF Sound, Lazy, Exact
<1>1. CASE IsArray(c1, S) /\ IsArray(c2, T)
  <2>0. c1.type = "array" /\ c2.type = "array"
    BY <1>1, ArrayHas
  <2>1. container_lazy_xor(c1, c2) = array_array_container_lazy_xor(c1, c2)
    BY <2>0 DEF container_lazy_xor
  <2> QED
    BY <1>1, <2>1, <1>100, ArraysDiffer
<1>2. CASE IsArray(c1, S) /\ IsBits(c2, T)
  <2>0. c1.type = "array" /\ c2.type = "bitset"
    BY <1>2, ArrayHas, BitsHave
  <2>1. container_lazy_xor(c1, c2) = array_bitset_container_lazy_xor(c1, c2)
    BY <2>0 DEF container_lazy_xor
  <2> QED
    BY <1>2, <2>1, <1>100, ArrayAndBitsDiffer
<1>3. CASE IsArray(c1, S) /\ IsRun(c2, T)
  <2>0. c1.type = "array" /\ c2.type = "run"
    BY <1>3, ArrayHas, RunHas
  <2>1. container_lazy_xor(c1, c2) = array_run_container_lazy_xor(c1, c2)
    BY <2>0 DEF container_lazy_xor
  <2> QED
    BY <1>3, <2>1, <1>100, ArrayAndRunsDiffer
<1>4. CASE IsBits(c1, S) /\ IsArray(c2, T)
  <2>0. c1.type = "bitset" /\ c2.type = "array"
    BY <1>4, BitsHave, ArrayHas
  <2>1. container_lazy_xor(c1, c2) = array_bitset_container_lazy_xor(c2, c1)
    BY <2>0 DEF container_lazy_xor
  <2> QED
    BY <1>4, <2>1, <1>100, <1>0, ArrayAndBitsDiffer
<1>5. CASE IsBits(c1, S) /\ IsBits(c2, T)
  <2>0. c1.type = "bitset" /\ c2.type = "bitset"
    BY <1>5, BitsHave
  <2>1. container_lazy_xor(c1, c2) = bitset_container_xor_nocard(c1, c2)
    BY <2>0 DEF container_lazy_xor
  <2> QED
    BY <1>5, <2>1, <1>100, BitsetsDiffer
<1>6. CASE IsBits(c1, S) /\ IsRun(c2, T)
  <2>0. c1.type = "bitset" /\ c2.type = "run"
    BY <1>6, BitsHave, RunHas
  <2>1. container_lazy_xor(c1, c2) = run_bitset_container_lazy_xor(c2, c1)
    BY <2>0 DEF container_lazy_xor
  <2> QED
    BY <1>6, <2>1, <1>100, <1>0, RunsAndBitsDiffer
<1>7. CASE IsRun(c1, S) /\ IsArray(c2, T)
  <2>0. c1.type = "run" /\ c2.type = "array"
    BY <1>7, RunHas, ArrayHas
  <2>1. container_lazy_xor(c1, c2) = array_run_container_lazy_xor(c2, c1)
    BY <2>0 DEF container_lazy_xor
  <2> QED
    BY <1>7, <2>1, <1>100, <1>0, ArrayAndRunsDiffer
<1>8. CASE IsRun(c1, S) /\ IsBits(c2, T)
  <2>0. c1.type = "run" /\ c2.type = "bitset"
    BY <1>8, RunHas, BitsHave
  <2>1. container_lazy_xor(c1, c2) = run_bitset_container_lazy_xor(c1, c2)
    BY <2>0 DEF container_lazy_xor
  <2> QED
    BY <1>8, <2>1, <1>100, RunsAndBitsDiffer
<1>9. CASE IsRun(c1, S) /\ IsRun(c2, T)
  <2>0. c1.type = "run" /\ c2.type = "run"
    BY <1>9, RunHas
  <2>1. container_lazy_xor(c1, c2) = run_run_container_xor(c1, c2)
    BY <2>0 DEF container_lazy_xor
  <2> QED
    BY <1>9, <2>1, <1>100, RunsDiffer
<1> QED
  BY <1>1, <1>2, <1>3, <1>4, <1>5, <1>6, <1>7, <1>8, <1>9, KindsOfLazy

\* In place only the first operand may be uncounted.
THEOREM ContainersDifferLazilyInPlace ==
  ASSUME NEW c1, NEW S, Lazy(c1, S), NEW c2, NEW T, Exact(c2, T)
  PROVE  Lazy(container_lazy_ixor(c1, c2), SymDiff(S, T))
<1>0. \A c : Sound(c, SymDiff(S, T)) => Lazy(c, SymDiff(S, T))
  BY DEF Sound, Lazy, Exact
<1>1. CASE IsBits(c1, S) /\ IsBitset(c2, T)
  <2>1. c1.type = "bitset" /\ c2.type = "bitset"
    BY <1>1, BitsHave, BitsetHas
  <2>2. container_lazy_ixor(c1, c2) = bitset_container_xor_nocard(c1, c2)
    BY <2>1 DEF container_lazy_ixor, Both
  <2> QED
    BY <1>1, <2>2, BitsetsDiffer DEF IsBits
<1>2. CASE IsLazy(c1, S) /\ ~ IsBitset(c2, T)
  <2>1. c1.type = "bitset" /\ c1.cardinality = BITSET_UNKNOWN_CARDINALITY /\ c1.values = S /\ S \in SUBSET Low
    BY <1>2, LazyHas DEF BITSET_UNKNOWN_CARDINALITY
  <2>2. c2.type # "bitset"
    BY <1>2, ArrayHas, RunHas DEF Exact
  <2>3. container_lazy_ixor(c1, c2) = container_ixor(Bitset(S, Cardinality(S)), c2)
    BY <2>1, <2>2 DEF container_lazy_ixor, Both, bitset_container_compute_cardinality
  <2>4. Exact(Bitset(S, Cardinality(S)), S)
    BY <2>1, BitsetOf
  <2> QED
    BY <1>0, <2>3, <2>4, ContainersDiffer
<1>3. CASE Exact(c1, S) /\ ~ (IsBits(c1, S) /\ IsBitset(c2, T))
  <2>1. ~ (c1.type = "bitset" /\ c2.type = "bitset")
    <3>1. c1.type = "bitset" => IsBits(c1, S)
      BY <1>3, ArrayHas, RunHas DEF Exact, IsBits
    <3>2. c2.type = "bitset" => IsBitset(c2, T)
      BY ArrayHas, RunHas DEF Exact
    <3> QED
      BY <1>3, <3>1, <3>2
  <2>2. c1.type = "bitset" => c1.cardinality # BITSET_UNKNOWN_CARDINALITY
    <3>1. c1.type = "bitset" => IsBitset(c1, S)
      BY <1>3, ArrayHas, RunHas DEF Exact
    <3>2. IsBitset(c1, S) => c1.cardinality \in Nat
      BY BitsetHas
    <3> QED
      BY <3>1, <3>2 DEF BITSET_UNKNOWN_CARDINALITY
  <2>3. container_lazy_ixor(c1, c2) = container_ixor(c1, c2)
    BY <2>1, <2>2 DEF container_lazy_ixor, Both
  <2> QED
    BY <1>0, <1>3, <2>3, ContainersDiffer
<1>4. IsBitset(c2, T) => IsBits(c1, S) \/ (Exact(c1, S) /\ ~ IsBits(c1, S))
  BY DEF Lazy, Exact, IsBits
<1> QED
  BY <1>1, <1>2, <1>3, <1>4 DEF Lazy, IsBits, Exact

-----------------------------------------------------------------------------
(* Difference.                                                              *)

\* The values of an array are cleared in a bitset.
LEMMA BitsCleared ==
  ASSUME NEW b, NEW S, IsBitset(b, S), NEW T \in SUBSET Low, NEW a, a.values = T
  PROVE  Sound(bitset_array_container_andnot(b, a), S \ T)
<1>1. b.values = S /\ S \in SUBSET Low /\ S \ T \in SUBSET Low /\ b.cardinality = Cardinality(S)
  BY BitsetHas, LowPairs
<1>2. Cardinality(S) - Cardinality(T \cap S) = Cardinality(S \ T)
  BY <1>1, CountsOfTwo
<1>3. bitset_clear_list(b, T) = Bitset(S \ T, Cardinality(S \ T))
  BY <1>1, <1>2 DEF bitset_clear_list
<1> QED
  BY <1>1, <1>3, SmallBecomesArray DEF bitset_array_container_andnot

\* The values of a bitset are cleared in a bitset.
LEMMA BitsWithoutValues ==
  ASSUME NEW b1, NEW S, IsBitset(b1, S), NEW b2, NEW T, b2.values = T, T \in SUBSET Low
  PROVE  Sound(bitset_bitset_container_andnot(b1, b2), S \ T)
<1>1. b1.values = S /\ S \ T \in SUBSET Low
  BY BitsetHas, LowPairs
<1> QED
  BY <1>1, SmallBecomesArray DEF bitset_bitset_container_andnot, bitset_container_andnot, bitset_container_compute_cardinality

\* The values of a run container are cleared in a bitset.
LEMMA BitsWithoutRuns ==
  ASSUME NEW b, NEW S, IsBitset(b, S), NEW r, NEW T, IsRun(r, T)
  PROVE  Sound(bitset_run_container_andnot(b, r), S \ T)
<1>1. b.values = S /\ S \ T \in SUBSET Low /\ RunValues(r.runs) = T
  BY BitsetHas, RunHas, LowPairs
<1> QED
  BY <1>1, SmallBecomesArray DEF bitset_run_container_andnot, bitset_container_compute_cardinality

\* An array loses the values of another container.
LEMMA ArrayWithout ==
  ASSUME NEW a, NEW S, IsArray(a, S), NEW c, NEW T, Sound(c, T)
  PROVE  /\ Sound(Array(S \ T), S \ T)
         /\ {v \in a.values : ~container_contains(c, v)} = S \ T
<1>1. a.values = S /\ S \in SUBSET Low /\ Cardinality(S) <= DEFAULT_MAX_SIZE /\ T \in SUBSET Low /\ S \ T \in SUBSET Low
  BY ArrayHas, LazyHasValues, CountedIsRight, LowPairs DEF Sound
<1>2. Cardinality(S \ T) <= Cardinality(S) /\ Cardinality(S) \in Nat /\ Cardinality(S \ T) \in Nat
  BY <1>1, CountsOfTwo
<1>3. Cardinality(S \ T) <= DEFAULT_MAX_SIZE
  BY <1>1, <1>2, ContainerConstants
<1>4. \A v \in S : container_contains(c, v) <=> v \in T
  <2>1. ASSUME NEW v \in Low PROVE container_contains(c, v) <=> v \in T
    BY ContainsValue, Zenon
  <2> QED
    BY <1>1, <2>1
<1> QED
  BY <1>1, <1>3, <1>4, ArrayOf

\* A run container loses the values of a bitset.
LEMMA RunsWithoutBits ==
  ASSUME NEW r, NEW S, IsRun(r, S), NEW b, NEW T, IsBitset(b, T)
  PROVE  Sound(run_bitset_container_andnot(r, b), S \ T)
<1>1. /\ b.values = T /\ S \ T \in SUBSET Low /\ RunValues(r.runs) = S /\ run_container_cardinality(r) = Cardinality(S)
      /\ Cardinality(S \ T) <= Cardinality(S) /\ Cardinality(S) \in Nat /\ Cardinality(S \ T) \in Nat
  <2>1. S \in SUBSET Low /\ T \in SUBSET Low
    BY RunHas, BitsetHas
  <2> QED
    BY <2>1, BitsetHas, RunHas, LowPairs, CountsOfTwo
<1>2. CASE Cardinality(S) <= DEFAULT_MAX_SIZE
  <2>1. run_bitset_container_andnot(r, b) = Array(S \ T)
    BY <1>1, <1>2 DEF run_bitset_container_andnot
  <2>2. Cardinality(S \ T) <= DEFAULT_MAX_SIZE
    BY <1>1, <1>2, ContainerConstants
  <2> QED
    BY <1>1, <2>1, <2>2, ArrayOf
<1>3. CASE ~ (Cardinality(S) <= DEFAULT_MAX_SIZE)
  <2>1. run_bitset_container_andnot(r, b) = ArrayIfSmall(Bitset(S \ T, Cardinality(S \ T)))
    BY <1>1, <1>3 DEF run_bitset_container_andnot, bitset_container_compute_cardinality
  <2> QED
    BY <1>1, <2>1, SmallBecomesArray
<1> QED
  BY <1>2, <1>3

\* A run container loses the values of another.
LEMMA RunsWithoutRuns ==
  ASSUME NEW r1, NEW S, RunValues(r1.runs) = S, S \in SUBSET Low, NEW r2, NEW T, RunValues(r2.runs) = T
  PROVE  Sound(run_run_container_andnot(r1, r2), S \ T)
<1>1. IsRun(run_container_andnot(r1, r2), S \ T)
  <2>1. S \ T \in SUBSET Low /\ run_container_andnot(r1, r2) = Run(RunsOf(S \ T))
    BY DEF run_container_andnot
  <2> QED
    BY <2>1, RunsOfSet, RunOf
<1> QED
  BY <1>1, RunsMadeEfficient DEF run_run_container_andnot

\* A run container loses the values of an array.
LEMMA RunsWithoutArray ==
  ASSUME NEW r, NEW S, IsRun(r, S), NEW a, NEW T, IsArray(a, T)
  PROVE  Sound(run_array_container_andnot(r, a), S \ T)
<1> DEFINE n == Cardinality(S)
<1>1. /\ a.values = T /\ T \in SUBSET Low /\ S \in SUBSET Low /\ RunValues(r.runs) = S /\ run_container_cardinality(r) = n
      /\ Cardinality(S \ T) <= n /\ n \in Nat /\ Cardinality(S \ T) \in Nat /\ S \ T \in SUBSET Low
  <2>1. S \in SUBSET Low /\ T \in SUBSET Low
    BY RunHas, ArrayHas
  <2> QED
    BY <2>1, ArrayHas, RunHas, LowPairs, CountsOfTwo
<1>0. AndNotThreshold \in Nat /\ DEFAULT_MAX_SIZE \in Nat
  BY Thresholds, ContainerConstants
<1> HIDE DEF n
<1>2. CASE n <= AndNotThreshold /\ T = {}
  <2>0. ~ (n > AndNotThreshold)
    BY <1>0, <1>1, <1>2
  <2>1. run_array_container_andnot(r, a) = r /\ S \ T = S
    BY <1>1, <1>2, <2>0 DEF run_array_container_andnot
  <2> QED
    BY <2>1, SoundWhen
<1>3. CASE n <= AndNotThreshold /\ T # {}
  <2>0. ~ (n > AndNotThreshold)
    BY <1>0, <1>1, <1>3
  <2>1. run_array_container_andnot(r, a) = run_run_container_andnot(r, Run(ValueRuns(T)))
    BY <1>1, <1>3, <2>0 DEF run_array_container_andnot, run_run_container_andnot
  <2>2. RunValues(Run(ValueRuns(T)).runs) = T
    BY <1>1, RunsOfValues DEF Run
  <2> QED
    BY <1>1, <2>1, <2>2, RunsWithoutRuns
<1>4. CASE ~ (n <= AndNotThreshold) /\ n <= DEFAULT_MAX_SIZE
  <2>0. n > AndNotThreshold /\ ~ (n > DEFAULT_MAX_SIZE) /\ Cardinality(S \ T) <= DEFAULT_MAX_SIZE
    BY <1>0, <1>1, <1>4
  <2>1. run_array_container_andnot(r, a) = Array(S \ T)
    BY <1>1, <1>4, <2>0 DEF run_array_container_andnot, run_array_array_subtract
  <2> QED
    BY <1>1, <2>0, <2>1, ArrayOf
<1>5. CASE ~ (n <= AndNotThreshold) /\ ~ (n <= DEFAULT_MAX_SIZE)
  <2>0. n > AndNotThreshold /\ n > DEFAULT_MAX_SIZE
    BY <1>0, <1>1, <1>5
  <2>1. run_array_container_andnot(r, a) = bitset_array_container_andnot(bitset_container_from_run(r), a)
    BY <1>1, <1>5, <2>0 DEF run_array_container_andnot
  <2>2. IsBitset(bitset_container_from_run(r), S)
    BY <1>1, BitsetOf DEF bitset_container_from_run, n
  <2> QED
    BY <1>1, <2>1, <2>2, BitsCleared
<1> QED
  BY <1>2, <1>3, <1>4, <1>5

\* container_iandnot leaves the difference, of any kinds.
LEMMA ContainersSubtractInPlace ==
  ASSUME NEW c1, NEW S, Sound(c1, S), NEW c2, NEW T, Sound(c2, T)
  PROVE  Sound(container_iandnot(c1, c2), S \ T)
<1>0. S \in SUBSET Low /\ T \in SUBSET Low
  BY LazyHasValues, CountedIsRight DEF Sound
<1>1. CASE IsArray(c1, S) /\ IsArray(c2, T)
  <2>0. c1.type = "array" /\ c2.type = "array"
    BY <1>1, ArrayHas
  <2>1. container_iandnot(c1, c2) = array_container_andnot(c1, c2)
    BY <2>0 DEF container_iandnot, Pair
  <2>2. array_container_andnot(c1, c2) = Array(S \ T)
    BY <1>1, ArrayWithout, ArrayHas DEF array_container_andnot
  <2> QED
    BY <1>1, <2>1, <2>2, ArrayWithout
<1>2. CASE IsArray(c1, S) /\ IsBitset(c2, T)
  <2>0. c1.type = "array" /\ c2.type = "bitset"
    BY <1>2, ArrayHas, BitsetHas
  <2>1. container_iandnot(c1, c2) = array_bitset_container_andnot(c1, c2)
    BY <2>0 DEF container_iandnot, Pair
  <2>2. array_bitset_container_andnot(c1, c2) = Array(S \ T)
    BY <1>2, ArrayWithout, ArrayHas DEF array_bitset_container_andnot
  <2> QED
    BY <1>2, <2>1, <2>2, ArrayWithout
<1>3. CASE IsArray(c1, S) /\ IsRun(c2, T)
  <2>0. c1.type = "array" /\ c2.type = "run"
    BY <1>3, ArrayHas, RunHas
  <2>1. container_iandnot(c1, c2) = array_run_container_andnot(c1, c2)
    BY <2>0 DEF container_iandnot, Pair
  <2>2. array_run_container_andnot(c1, c2) = Array(S \ T)
    BY <1>3, ArrayWithout, ArrayHas DEF array_run_container_andnot
  <2> QED
    BY <1>3, <2>1, <2>2, ArrayWithout
<1>4. CASE IsBitset(c1, S) /\ IsArray(c2, T)
  <2>0. c1.type = "bitset" /\ c2.type = "array"
    BY <1>4, BitsetHas, ArrayHas
  <2>1. container_iandnot(c1, c2) = bitset_array_container_andnot(c1, c2)
    BY <2>0 DEF container_iandnot, Pair
  <2> QED
    BY <1>0, <1>4, <2>1, ArrayHas, BitsCleared
<1>5. CASE IsBitset(c1, S) /\ IsBitset(c2, T)
  <2>0. c1.type = "bitset" /\ c2.type = "bitset"
    BY <1>5, BitsetHas
  <2>1. container_iandnot(c1, c2) = bitset_bitset_container_andnot(c1, c2)
    BY <2>0 DEF container_iandnot, Pair
  <2> QED
    BY <1>0, <1>5, <2>1, BitsetHas, BitsWithoutValues
<1>6. CASE IsBitset(c1, S) /\ IsRun(c2, T)
  <2>0. c1.type = "bitset" /\ c2.type = "run"
    BY <1>6, BitsetHas, RunHas
  <2>1. container_iandnot(c1, c2) = bitset_run_container_andnot(c1, c2)
    BY <2>0 DEF container_iandnot, Pair
  <2> QED
    BY <1>0, <1>6, <2>1, BitsWithoutRuns
<1>7. CASE IsRun(c1, S) /\ IsArray(c2, T)
  <2>0. c1.type = "run" /\ c2.type = "array"
    BY <1>7, RunHas, ArrayHas
  <2>1. container_iandnot(c1, c2) = run_array_container_andnot(c1, c2)
    BY <2>0 DEF container_iandnot, Pair
  <2> QED
    BY <1>0, <1>7, <2>1, RunsWithoutArray
<1>8. CASE IsRun(c1, S) /\ IsBitset(c2, T)
  <2>0. c1.type = "run" /\ c2.type = "bitset"
    BY <1>8, RunHas, BitsetHas
  <2>1. container_iandnot(c1, c2) = run_bitset_container_andnot(c1, c2)
    BY <2>0 DEF container_iandnot, Pair
  <2> QED
    BY <1>0, <1>8, <2>1, RunsWithoutBits
<1>9. CASE IsRun(c1, S) /\ IsRun(c2, T)
  <2>0. c1.type = "run" /\ c2.type = "run"
    BY <1>9, RunHas
  <2>1. container_iandnot(c1, c2) = run_run_container_andnot(c1, c2)
    BY <2>0 DEF container_iandnot, Pair
  <2> QED
    BY <1>0, <1>9, <2>1, RunHas, RunsWithoutRuns
<1> QED
  BY <1>1, <1>2, <1>3, <1>4, <1>5, <1>6, <1>7, <1>8, <1>9 DEF Sound, Exact

\* container_andnot and container_iandnot leave the difference, of any kinds.
THEOREM ContainersSubtract ==
  ASSUME NEW c1, NEW S, Sound(c1, S), NEW c2, NEW T, Sound(c2, T)
  PROVE  Sound(container_andnot(c1, c2), S \ T) /\ Sound(container_iandnot(c1, c2), S \ T)
<1>1. CASE c2.type = "run" /\ run_container_is_full(c2)
  <2>1. S \ T = {}
    <3>1. IsRun(c2, T)
      BY <1>1, ArrayHas, BitsetHas DEF Sound, Exact
    <3>2. T = Low
      <4>1. c2 = Run(c2.runs) /\ T = RunValues(c2.runs)
        BY <3>1, RunHas
      <4>2. c2.runs = {rle16(0, ChunkSize - 1)}
        BY <1>1, <4>1, FullRun
      <4> QED
        BY <4>1, <4>2, FullRun
    <3>3. S \in SUBSET Low
      BY LazyHasValues, CountedIsRight DEF Sound
    <3> QED
      BY <3>2, <3>3
  <2>2. container_andnot(c1, c2) = Array({})
    BY <1>1 DEF container_andnot
  <2>3. {} \in SUBSET Low /\ Cardinality({}) <= DEFAULT_MAX_SIZE
    BY FS_EmptySet, ContainerConstants
  <2> QED
    BY <2>1, <2>2, <2>3, ArrayOf, ContainersSubtractInPlace
<1>2. CASE ~ (c2.type = "run" /\ run_container_is_full(c2))
  BY <1>2, ContainersSubtractInPlace DEF container_andnot
<1> QED
  BY <1>1, <1>2

-----------------------------------------------------------------------------
(* Positions of the values of a chunk. *)

\* The values of S before v, and those up to v.
Before(S, v) == {w \in S : w < v}
UpTo(S, v) == {w \in S : w <= v}

\* The values before a value, and those up to it, can be counted.
LEMMA BeforeHas ==
  ASSUME NEW S \in SUBSET Low, NEW v
  PROVE  /\ Before(S, v) \in SUBSET Low /\ IsFiniteSet(Before(S, v)) /\ Cardinality(Before(S, v)) \in Nat
         /\ UpTo(S, v) \in SUBSET Low /\ IsFiniteSet(UpTo(S, v)) /\ Cardinality(UpTo(S, v)) \in Nat
<1>1. Before(S, v) \in SUBSET Low /\ UpTo(S, v) \in SUBSET Low
  BY DEF Before, UpTo
<1> QED
  BY <1>1, CountOfSet, FS_CardinalityType

\* The values up to a value are those before it and the value itself.
LEMMA UpToIsBefore ==
  ASSUME NEW S \in SUBSET Low, NEW v \in Low
  PROVE  Cardinality(UpTo(S, v)) = Cardinality(Before(S, v)) + IF v \in S THEN 1 ELSE 0
<1>0. \A w \in Low : w \in Int
  BY LowAreNumbers
<1>1. CASE v \in S
  <2>1. UpTo(S, v) = Before(S, v) \cup {v}
    BY <1>0, <1>1 DEF UpTo, Before
  <2>2. v \notin Before(S, v)
    BY <1>0 DEF Before
  <2> QED
    BY <1>1, <2>1, <2>2, BeforeHas, FS_AddElement
<1>2. CASE v \notin S
  <2>1. UpTo(S, v) = Before(S, v)
    BY <1>0, <1>2 DEF UpTo, Before
  <2> QED
    BY <1>2, <2>1, BeforeHas
<1> QED
  BY <1>1, <1>2

\* A value that comes later has more values before it; and there is one value at each position.
LEMMA PositionsGrow ==
  ASSUME NEW S \in SUBSET Low
  PROVE  /\ \A v \in S : Cardinality(Before(S, v)) < Cardinality(S)
         /\ \A v, w \in S : v < w => Cardinality(Before(S, v)) < Cardinality(Before(S, w))
         /\ \A v, w \in S : Cardinality(Before(S, v)) = Cardinality(Before(S, w)) => v = w
         /\ \A i \in 0 .. Cardinality(S) - 1 : \E v \in S : Cardinality(Before(S, v)) = i
<1> DEFINE k == [v \in S |-> v]
<1>0. \A v \in S : v \in Int
  BY LowAreNumbers
<1>1. TellsApart(k, S)
  BY <1>0 DEF TellsApart
<1>2. IsFiniteSet(S) /\ Cardinality(S) \in Nat
  BY CountOfSet, FS_CardinalityType
<1>3. \A v \in S : KeyBelow(S, k, v) = Before(S, v)
  BY DEF KeyBelow, Before
<1>4. \A v, w \in S : v < w <=> k[v] < k[w]
  OBVIOUS
<1> HIDE DEF k
<1>5. \A v \in S : Cardinality(Before(S, v)) \in 0 .. Cardinality(S) - 1
  BY <1>1, <1>2, <1>3, RankGrows
<1>6. \A v, w \in S : v < w => Cardinality(Before(S, v)) < Cardinality(Before(S, w))
  <2>1. \A v, w \in S : k[v] < k[w] => Cardinality(KeyBelow(S, k, v)) < Cardinality(KeyBelow(S, k, w))
    BY <1>1, <1>2, RankGrows
  <2> QED
    BY <2>1, <1>3, <1>4
<1>7. \A v, w \in S : Cardinality(Before(S, v)) = Cardinality(Before(S, w)) => v = w
  <2> SUFFICES ASSUME NEW v \in S, NEW w \in S, v # w PROVE Cardinality(Before(S, v)) # Cardinality(Before(S, w))
    OBVIOUS
  <2>1. v < w \/ w < v
    BY <1>0
  <2>2. Cardinality(Before(S, v)) \in Int /\ Cardinality(Before(S, w)) \in Int
    BY <1>5
  <2> QED
    BY <2>1, <2>2, <1>6
<1>8. ASSUME NEW i \in 0 .. Cardinality(S) - 1 PROVE \E v \in S : Cardinality(Before(S, v)) = i
  <2>1. i + 1 \in 1 .. Cardinality(S) /\ i = (i + 1) - 1
    BY <1>2
  <2>2. \E v \in S : Cardinality(KeyBelow(S, k, v)) = (i + 1) - 1
    BY <1>1, <1>2, <2>1, RanksAreTaken
  <2> QED
    BY <1>3, <2>1, <2>2
<1> QED
  BY <1>2, <1>5, <1>6, <1>7, <1>8

\* Consecutive values have consecutive positions.
LEMMA PositionsOfConsecutive ==
  ASSUME NEW S \in SUBSET Low, NEW a \in Low, NEW b \in Low, a <= b, a .. b - 1 \subseteq S
  PROVE  Cardinality(Before(S, b)) = Cardinality(Before(S, a)) + b - a
<1>0. a \in Int /\ b \in Int /\ \A w \in S : w \in Int
  BY LowAreNumbers
<1>1. Before(S, b) = Before(S, a) \cup a .. b - 1
  <2>1. \A w \in S : w < b <=> w < a \/ (a <= w /\ w <= b - 1)
    BY <1>0
  <2>2. \A w : w \in a .. b - 1 <=> w \in S /\ a <= w /\ w <= b - 1
    <3>1. \A w \in a .. b - 1 : w \in S /\ a <= w /\ w <= b - 1
      BY <1>0
    <3>2. \A w \in S : a <= w /\ w <= b - 1 => w \in a .. b - 1
      BY <1>0
    <3> QED
      BY <3>1, <3>2, Zenon
  <2> QED
    BY <2>1, <2>2, Zenon DEF Before
<1>2. Before(S, a) \cap a .. b - 1 = {}
  BY <1>0 DEF Before
<1> DEFINE A == Before(S, a)
           I == a .. b - 1
<1>3. IsFiniteSet(I) /\ Cardinality(I) = b - a
  <2>1. a \in Int /\ b - 1 \in Int
    BY <1>0
  <2>2. IsFiniteSet(I) /\ Cardinality(I) = IF a > b - 1 THEN 0 ELSE (b - 1) - a + 1
    BY <2>1, FS_Interval
  <2> QED
    BY <1>0, <2>2
<1>4. IsFiniteSet(A) /\ Cardinality(A) \in Nat
  BY BeforeHas
<1>5. Before(S, b) = A \cup I /\ A \cap I = {}
  BY <1>1, <1>2
<1> HIDE DEF A, I
<1>6. Cardinality(Before(S, b)) = Cardinality(A) + Cardinality(I) - Cardinality(A \cap I)
  BY <1>3, <1>4, <1>5, FS_Union
<1>7. Cardinality(A \cap I) = 0
  BY <1>5, FS_EmptySet
<1> QED
  BY <1>0, <1>3, <1>4, <1>6, <1>7 DEF A

\* Consecutive positions: two values that are as far apart as their positions have all values between.
LEMMA ConsecutivePositions ==
  ASSUME NEW S \in SUBSET Low, NEW a \in S, NEW b \in S, a <= b,
         Cardinality(Before(S, b)) = Cardinality(Before(S, a)) + b - a
  PROVE  a .. b \subseteq S
<1>0. a \in Int /\ b \in Int /\ a \in Low /\ b \in Low /\ \A w \in S : w \in Int
  BY LowAreNumbers
<1> DEFINE A == Before(S, a)
           I == a .. b - 1
           J == S \cap I
<1>1. Before(S, b) = A \cup J /\ A \cap J = {}
  <2>1. \A w \in S : (w < b <=> w < a \/ w \in I) /\ ~(w < a /\ w \in I)
    BY <1>0
  <2> HIDE DEF I
  <2> QED
    BY <2>1, Zenon DEF Before
<1>2. IsFiniteSet(I) /\ Cardinality(I) = b - a
  <2>1. a \in Int /\ b - 1 \in Int
    BY <1>0
  <2>2. IsFiniteSet(I) /\ Cardinality(I) = IF a > b - 1 THEN 0 ELSE (b - 1) - a + 1
    BY <2>1, FS_Interval
  <2> QED
    BY <1>0, <2>2
<1>3. IsFiniteSet(A) /\ Cardinality(A) \in Nat
  BY BeforeHas
<1>4. J \in SUBSET I
  OBVIOUS
<1> HIDE DEF A, J
<1>5. IsFiniteSet(J) /\ Cardinality(J) \in Nat /\ (Cardinality(J) = Cardinality(I) => J = I)
  BY <1>2, <1>4, FS_Subset, FS_CardinalityType
<1>6. Cardinality(Before(S, b)) = Cardinality(A) + Cardinality(J) - Cardinality(A \cap J)
  BY <1>1, <1>3, <1>5, FS_Union
<1>7. Cardinality(A \cap J) = 0
  BY <1>1, FS_EmptySet
<1>8. Cardinality(J) = Cardinality(I)
  BY <1>0, <1>2, <1>3, <1>5, <1>6, <1>7 DEF A
<1>9. I \subseteq S
  BY <1>5, <1>8 DEF J
<1> QED
  BY <1>0, <1>9

-----------------------------------------------------------------------------
(* Runs: what adding up lengths says of positions. *)

\* The lengths of the runs add up to the number of their values.
LEMMA LengthsAddUp ==
  ASSUME NEW R, Apart(R)
  PROVE  SumFunction([r \in R |-> r[2] - r[1] + 1]) = Cardinality(RunValues(R))
<1>1. Run(R).runs = R
  BY DEF Run
<1> QED
  BY <1>1, RunLengthsAddUp DEF run_container_cardinality

\* The lengths of the runs before a run add up to the number of values before it.
LEMMA LengthsBefore ==
  ASSUME NEW R, Apart(R), NEW r \in R
  PROVE  SumFunction([t \in {u \in R : u[1] < r[1]} |-> t[2] - t[1] + 1]) = Cardinality(Before(RunValues(R), r[1]))
<1> DEFINE E == {u \in R : u[1] < r[1]}
<1>1. \A u \in R : u[1] \in Int /\ u[2] \in Int /\ u[1] <= u[2]
  BY ApartHaveValues, LowAreNumbers
<1>2. Apart(E)
  BY DEF Apart
<1>3. \A v : v \in Before(RunValues(R), r[1]) <=> v \in Int /\ v < r[1] /\ \E u \in R : u[1] <= v /\ v <= u[2]
  BY ApartHaveValues DEF Before
<1>4. \A v : v \in RunValues(E) <=> v \in Int /\ \E u \in E : u[1] <= v /\ v <= u[2]
  BY <1>2, ApartHaveValues
<1>5. \A u \in E : u[2] < r[1]
  BY <1>1, ApartHaveValues
<1>6. \A v : v \in RunValues(E) <=> v \in Before(RunValues(R), r[1])
  <2>1. \A v \in Int : \A u \in E : u[1] <= v /\ v <= u[2] => v < r[1] /\ u \in R
    BY <1>1, <1>5
  <2>2. \A v \in Int : \A u \in R : v < r[1] /\ u[1] <= v /\ v <= u[2] => u \in E
    BY <1>1
  <2> HIDE DEF E
  <2> QED
    BY <2>1, <2>2, <1>3, <1>4
<1>7. RunValues(E) = Before(RunValues(R), r[1])
  BY <1>6
<1> HIDE DEF E
<1>8. SumFunction([t \in E |-> t[2] - t[1] + 1]) = Cardinality(RunValues(E))
  BY <1>2, LengthsAddUp
<1> QED
  BY <1>7, <1>8 DEF E

\* The positions within a run.
LEMMA PositionInRun ==
  ASSUME NEW R, Apart(R), NEW r \in R, NEW v \in r[1] .. r[2]
  PROVE  /\ v \in RunValues(R)
         /\ Cardinality(Before(RunValues(R), v)) = Cardinality(Before(RunValues(R), r[1])) + v - r[1]
<1>1. r[1] \in Low /\ r[2] \in Low /\ r[1] \in Int /\ r[2] \in Int /\ v \in Low /\ r[1] <= v
  BY ApartHaveValues, LowAreNumbers DEF Low
<1>2. r[1] .. r[2] \subseteq RunValues(R)
  BY DEF RunValues
<1>3. r[1] .. v - 1 \subseteq RunValues(R)
  BY <1>1, <1>2
<1>4. RunValues(R) \in SUBSET Low
  BY ApartHaveValues
<1> QED
  BY <1>1, <1>2, <1>3, <1>4, PositionsOfConsecutive

\* run_container_rank counts the values up to a value, within a run or between two.
LEMMA RankInRuns ==
  ASSUME NEW R, Apart(R), NEW x \in Low
  PROVE  run_container_rank(Run(R), x) = Cardinality(UpTo(RunValues(R), x))
<1> DEFINE f == [r \in R |-> IF x > r[2] THEN r[2] - r[1] + 1 ELSE IF x < r[1] THEN 0 ELSE x - r[1] + 1]
           P == [r \in R |-> UpTo(r[1] .. r[2], x)]
<1>0. x \in Int
  BY LowAreNumbers
<1>1. \A r \in R : r[1] \in Int /\ r[2] \in Int /\ r[1] <= r[2]
  BY ApartHaveValues, LowAreNumbers
<1>2. ASSUME NEW r \in R PROVE IsFiniteSet(P[r]) /\ Cardinality(P[r]) = f[r]
  <2>1. CASE x > r[2]
    <3>1. P[r] = r[1] .. r[2]
      BY <1>0, <1>1, <2>1 DEF UpTo
    <3> QED
      BY <1>0, <1>1, <2>1, <3>1, FS_Interval
  <2>2. CASE x < r[1]
    <3>1. P[r] = {}
      BY <1>0, <1>1, <2>2 DEF UpTo
    <3>2. f[r] = 0
      BY <1>0, <1>1, <2>2
    <3> QED
      BY <3>1, <3>2, FS_EmptySet
  <2>3. CASE ~(x > r[2]) /\ ~(x < r[1])
    <3>1. P[r] = r[1] .. x
      BY <1>0, <1>1, <2>3 DEF UpTo
    <3> QED
      BY <1>0, <1>1, <2>3, <3>1, FS_Interval
  <2> QED
    BY <2>1, <2>2, <2>3
<1>3. \A r, s \in R : r # s => P[r] \cap P[s] = {}
  BY <1>1, ApartHaveValues DEF UpTo
<1>4. DOMAIN f = R /\ IsFiniteSet(R)
  BY ApartIsFinite
<1>5. \A v : v \in UpTo(RunValues(R), x) <=> \E r \in R : v \in P[r]
  BY DEF RunValues, UpTo
<1>6. run_container_rank(Run(R), x) = SumFunction(f)
  BY DEF run_container_rank, Run
<1> HIDE DEF f, P
<1>7. SizesOf(f, P)
  BY <1>2, <1>3, <1>4 DEF SizesOf
<1> QED
  BY <1>4, <1>5, <1>6, <1>7, SumIsCount

\* The three ways a container with its right cardinality can be stored.
LEMMA CountedKinds ==
  ASSUME NEW c, NEW S, Exact(c, S)
  PROVE  /\ S \in SUBSET Low
         /\ \/ c.type = "array" /\ c.values = S
            \/ c.type = "bitset" /\ c.values = S /\ c.cardinality = Cardinality(S)
            \/ c.type = "run" /\ c = Run(c.runs) /\ Apart(c.runs) /\ S = RunValues(c.runs)
  BY ArrayHas, BitsetHas, RunHas DEF Exact

\* container_rank counts the values up to a value, whatever the type of the container.
LEMMA ContainerRank ==
  ASSUME NEW c, NEW S, Exact(c, S), NEW x \in Low
  PROVE  container_rank(c, x) = Cardinality(UpTo(S, x))
<1>0. S \in SUBSET Low
  BY CountedKinds
<1>1. CASE c.type = "array" /\ c.values = S
  <2>1. Cardinality(Before(S, x)) \in Nat
    BY <1>0, BeforeHas
  <2>2. container_rank(c, x) = Cardinality(Before(S, x)) + IF x \in S THEN 1 ELSE 0
    BY <1>1, <2>1 DEF container_rank, array_container_rank, Before
  <2> QED
    BY <1>0, <2>2, UpToIsBefore
<1>2. CASE c.type = "bitset" /\ c.values = S
  BY <1>2 DEF container_rank, bitset_container_rank, UpTo
<1>3. CASE c.type = "run" /\ c = Run(c.runs) /\ Apart(c.runs) /\ S = RunValues(c.runs)
  <2>1. container_rank(c, x) = run_container_rank(Run(c.runs), x)
    BY <1>3 DEF container_rank
  <2> QED
    BY <1>3, <2>1, RankInRuns
<1> QED
  BY <1>1, <1>2, <1>3, CountedKinds

\* container_get_index is the position of a value, and -1 for one that is not there.
LEMMA ContainerIndex ==
  ASSUME NEW c, NEW S, Sound(c, S), NEW x \in Low
  PROVE  container_get_index(c, x) = IF x \in S THEN Cardinality(Before(S, x)) ELSE -1
<1>0. Exact(c, S)
  BY DEF Sound
<1>1. container_contains(c, x) <=> x \in S
  BY ContainsValue
<1>2. S \in SUBSET Low
  BY <1>0, CountedKinds
<1>3. Cardinality(Before(S, x)) \in Nat
  BY <1>2, BeforeHas
<1>4. x \in S => container_rank(c, x) = Cardinality(Before(S, x)) + 1
  BY <1>0, <1>2, ContainerRank, UpToIsBefore
<1> QED
  BY <1>1, <1>3, <1>4 DEF container_get_index

\* container_select finds the value at a position, counted from those before the container.
LEMMA ContainerSelect ==
  ASSUME NEW c, NEW S, Exact(c, S), NEW start \in Nat, NEW rank \in Nat,
         start <= rank, rank < start + Cardinality(S)
  PROVE  /\ container_select(c, start, rank) \in S
         /\ start + Cardinality(Before(S, container_select(c, start, rank))) = rank
<1>0. S \in SUBSET Low /\ Cardinality(S) \in Nat
  BY CountedKinds, CountOfSet, FS_CardinalityType
<1>1. rank - start \in 0 .. Cardinality(S) - 1
  BY <1>0
<1>2. PICK v \in S : Cardinality(Before(S, v)) = rank - start
  BY <1>0, <1>1, PositionsGrow
<1>3. CASE c.type = "array" /\ c.values = S
  <2> DEFINE x == CHOOSE w \in S : Cardinality(Before(S, w)) = rank - start
  <2>1. x \in S /\ Cardinality(Before(S, x)) = rank - start
    BY <1>2
  <2>2. container_select(c, start, rank) = x
    BY <1>3 DEF container_select, array_container_select, Before
  <2> QED
    BY <2>1, <2>2
<1>4. CASE c.type = "bitset" /\ c.values = S
  <2> DEFINE x == CHOOSE w \in S : start + Cardinality(Before(S, w)) = rank
  <2>0. start + Cardinality(Before(S, v)) = rank
    BY <1>2
  <2>1. x \in S /\ start + Cardinality(Before(S, x)) = rank
    BY <2>0
  <2>2. container_select(c, start, rank) = x
    BY <1>4 DEF container_select, bitset_container_select, Before
  <2> QED
    BY <2>1, <2>2
<1>5. CASE c.type = "run" /\ c = Run(c.runs) /\ Apart(c.runs) /\ S = RunValues(c.runs)
  <2> DEFINE R == c.runs
             sum(r) == SumFunction([t \in {u \in R : u[1] < r[1]} |-> t[2] - t[1] + 1])
             before(r) == start + sum(r)
             entered == CHOOSE r \in R : before(r) <= rank /\ rank <= before(r) + r[2] - r[1]
             x == entered[1] + rank - before(entered)
  <2>1. \A r \in R : sum(r) = Cardinality(Before(S, r[1]))
    BY <1>5, LengthsBefore
  <2>2. \A r \in R : r[1] \in Int /\ r[2] \in Int /\ r[1] <= r[2]
    BY <1>5, ApartHaveValues, LowAreNumbers
  <2>3. container_select(c, start, rank) = x
    BY <1>5 DEF container_select, run_container_select
  <2>4. PICK r \in R : v \in r[1] .. r[2]
    BY <1>5, <1>2 DEF RunValues
  <2>5. \A s \in R : \A w \in s[1] .. s[2] : w \in S /\ Cardinality(Before(S, w)) = Cardinality(Before(S, s[1])) + w - s[1]
    BY <1>5, PositionInRun
  <2>6. \A s \in R : sum(s) \in Nat
    BY <2>1, <1>0, BeforeHas
  <2> HIDE DEF sum, R
  <2>7. before(r) <= rank /\ rank <= before(r) + r[2] - r[1]
    BY <1>2, <2>1, <2>2, <2>4, <2>5, <2>6
  <2>8. entered \in R /\ before(entered) <= rank /\ rank <= before(entered) + entered[2] - entered[1]
    BY <2>4, <2>7
  <2> HIDE DEF entered
  <2>9. x \in entered[1] .. entered[2] /\ x - entered[1] = rank - before(entered)
    BY <2>2, <2>6, <2>8
  <2>10. x \in S /\ Cardinality(Before(S, x)) = sum(entered) + x - entered[1]
    BY <2>1, <2>5, <2>8, <2>9
  <2>11. start + Cardinality(Before(S, x)) = rank
    BY <2>2, <2>6, <2>8, <2>9, <2>10
  <2> QED
    BY <2>3, <2>10, <2>11
<1> QED
  BY <1>3, <1>4, <1>5, CountedKinds

-----------------------------------------------------------------------------
(* Ranges within a chunk. *)

\* A sum of one number is that number.
LEMMA SumOfOne ==
  ASSUME NEW f, NEW x, DOMAIN f = {x}, f[x] \in Nat
  PROVE  SumFunction(f) = f[x]
<1> DEFINE P == [y \in {x} |-> 1 .. f[x]]
<1>1. IsFiniteSet(1 .. f[x]) /\ Cardinality(1 .. f[x]) = f[x]
  BY FS_Interval
<1>2. IsFiniteSet({x})
  BY FS_Singleton
<1>3. P[x] = 1 .. f[x]
  OBVIOUS
<1> HIDE DEF P
<1>4. SizesOf(f, P)
  BY <1>1, <1>2, <1>3 DEF SizesOf
<1>5. \A v : v \in P[x] <=> \E y \in DOMAIN f : v \in P[y]
  OBVIOUS
<1> QED
  BY <1>1, <1>3, <1>4, <1>5, SumIsCount

\* An interval of integers has as many as its ends tell.
LEMMA CountOfNumbers ==
  ASSUME NEW a \in Int, NEW b \in Int, NEW n \in Nat, n = b - a + 1
  PROVE  IsFiniteSet(a .. b) /\ Cardinality(a .. b) = n
<1>1. IsFiniteSet(a .. b) /\ Cardinality(a .. b) = IF a > b THEN 0 ELSE b - a + 1
  BY FS_Interval
<1> DEFINE C == Cardinality(a .. b)
<1>2. C = IF a > b THEN 0 ELSE b - a + 1
  BY <1>1
<1> HIDE DEF C
<1>3. C = n
  BY <1>2
<1> QED
  BY <1>1, <1>3 DEF C

\* An array that has both ends of a range, as far apart as they should be, has all of it.
LEMMA ArrayContainsRange ==
  ASSUME NEW c, c.values \in SUBSET Low, NEW first \in Low, NEW end \in 0 .. ChunkSize, first < end
  PROVE  array_container_contains_range(c, first, end) <=> first .. end - 1 \subseteq c.values
<1> DEFINE S == c.values
           last == end - 1
<1>0. first \in Int /\ end \in Int /\ last \in Int /\ last \in Low /\ first <= last /\ (\A v \in S : v \in Int) /\ first \in Low
  BY LowAreNumbers, ContainerConstants DEF Low
<1>1. array_container_contains_range(c, first, end) <=>
        /\ end - first <= Cardinality(S) /\ first \in S
        /\ \E v \in S : v = last /\ Cardinality(Before(S, v)) = Cardinality(Before(S, first)) + end - first - 1
  <2>1. ~(end - first <= 0)
    BY <1>0
  <2> QED
    BY <2>1 DEF array_container_contains_range, Before
<1>2. S \in SUBSET Low /\ IsFiniteSet(S) /\ Cardinality(S) \in Nat /\ Cardinality(Before(S, first)) \in Nat
  BY BeforeHas, CountOfSet, FS_CardinalityType
<1>3. end - first - 1 = last - first /\ end = last + 1
  BY <1>0
<1> HIDE DEF S, last
<1>4. ASSUME first .. last \subseteq S PROVE array_container_contains_range(c, first, end)
  <2>1. first \in S /\ last \in S /\ first .. last - 1 \subseteq S
    BY <1>0, <1>4
  <2>2. Cardinality(Before(S, last)) = Cardinality(Before(S, first)) + last - first
    BY <1>0, <1>2, <2>1, PositionsOfConsecutive
  <2>3. Cardinality(first .. last) <= Cardinality(S)
    BY <1>2, <1>4, FS_Subset
  <2>4. Cardinality(first .. last) = last - first + 1
    BY <1>0, FS_Interval
  <2>5. end - first <= Cardinality(S)
    BY <1>0, <1>3, <2>3, <2>4
  <2>6. Cardinality(Before(S, last)) = Cardinality(Before(S, first)) + end - first - 1
    BY <1>0, <1>2, <1>3, <2>2
  <2> QED
    BY <1>1, <2>1, <2>5, <2>6
<1>5. ASSUME array_container_contains_range(c, first, end) PROVE first .. last \subseteq S
  <2>1. first \in S /\ last \in S /\ Cardinality(Before(S, last)) = Cardinality(Before(S, first)) + end - first - 1
    BY <1>1, <1>5
  <2>2. Cardinality(Before(S, last)) = Cardinality(Before(S, first)) + last - first
    BY <1>0, <1>2, <1>3, <2>1
  <2> QED
    BY <1>0, <1>2, <2>1, <2>2, ConsecutivePositions
<1> QED
  BY <1>4, <1>5 DEF S, last

\* Runs have a range when their common values are as many as the range is long.
LEMMA RunsContainRange ==
  ASSUME NEW R, Apart(R), NEW first \in Low, NEW end \in 0 .. ChunkSize, first < end
  PROVE  run_container_contains_range(Run(R), first, end) <=> first .. end - 1 \subseteq RunValues(R)
<1> DEFINE S == RunValues(R)
           holders == {r \in R : first \in r[1] .. r[2]}
           counted == {r \in R : r[1] < end /\ \E h \in holders : h[1] <= r[1]}
           count(r) == IF r[2] >= end THEN end - r[1] ELSE Min({r[2] - first, r[2] - r[1]})
           f == [r \in counted |-> count(r)]
<1>0. first \in Int /\ end \in Int /\ first >= 0
  BY LowAreNumbers, ContainerConstants DEF Low
<1>1. /\ \A r \in R : r[1] \in Int /\ r[2] \in Int /\ r[1] <= r[2]
      /\ \A r, s \in R : r # s => r[2] + 1 < s[1] \/ s[2] + 1 < r[1]
      /\ \A v : v \in S <=> v \in Int /\ \E r \in R : r[1] <= v /\ v <= r[2]
  BY ApartHaveValues, LowAreNumbers
<1>2. run_container_contains_range(Run(R), first, end) <=> holders # {} /\ SumFunction(f) >= end - first - 1
  BY DEF run_container_contains_range, Run
<1>3. CASE holders = {}
  <2>1. first \notin S
    BY <1>0, <1>1, <1>3
  <2>2. first \in first .. end - 1
    BY <1>0
  <2> QED
    BY <1>2, <1>3, <2>1, <2>2
<1>4. CASE holders # {}
  <2>1. PICK h \in R : h[1] <= first /\ first <= h[2]
    BY <1>0, <1>4
  <2>2. h \in holders
    BY <1>0, <1>1, <2>1
  <2>3. holders = {h}
    BY <1>0, <1>1, <2>1, <2>2
  <2>4. counted = {r \in R : r[1] < end /\ h[1] <= r[1]}
    BY <2>3
  <2>5. h \in counted
    BY <1>0, <1>1, <2>1, <2>4
  <2>6. \A r \in counted : r # h => h[2] + 1 < r[1]
    BY <1>1, <2>4
  <2>7. \A r \in counted : r \in R /\ r[1] < end
    OBVIOUS
  <2>8. \A r \in counted : f[r] = count(r)
    OBVIOUS
  <2> DEFINE small(a, b) == IF a <= b THEN a ELSE b
  <2>9. \A r \in counted : f[r] = IF r[2] >= end THEN end - r[1] ELSE IF r = h THEN h[2] - first ELSE r[2] - r[1]
    <3> TAKE r \in counted
    <3>1. r \in R /\ r[1] \in Int /\ r[2] \in Int /\ r[1] <= r[2]
      BY <1>1
    <3>2. r # h => h[2] + 1 < r[1]
      BY <2>6
    <3>3. h[1] \in Int /\ h[2] \in Int
      BY <1>1
    <3>4. Min({r[2] - first, r[2] - r[1]}) = small(r[2] - first, r[2] - r[1])
      <4> DEFINE a == r[2] - first
                 b == r[2] - r[1]
      <4>1. a \in Int /\ b \in Int
        BY <1>0, <3>1
      <4> HIDE DEF a, b
      <4>2. Min({a, b}) = small(a, b)
        BY <4>1 DEF Min
      <4> QED
        BY <4>2 DEF a, b
    <3> QED
      BY <1>0, <2>1, <2>8, <3>1, <3>2, <3>3, <3>4
  <2>10. DOMAIN f = counted
    OBVIOUS
  <2>11. counted \in SUBSET R /\ IsFiniteSet(R)
    BY ApartIsFinite
  <2>12. IsFiniteSet(counted)
    BY <2>11, FS_Subset
  <2> HIDE DEF f, counted, holders, S
  <2>13. CASE h[2] >= end - 1
    <3>1. first .. end - 1 \subseteq S
      BY <1>0, <1>1, <2>1, <2>13
    <3>2. counted = {h}
      BY <1>0, <1>1, <2>5, <2>6, <2>7, <2>13
    <3>3. f[h] >= end - first - 1 /\ f[h] \in Nat
      BY <1>0, <1>1, <2>1, <2>5, <2>9, <2>13
    <3>4. SumFunction(f) = f[h]
      BY <2>10, <3>2, <3>3, SumOfOne
    <3> QED
      BY <1>2, <1>4, <3>1, <3>3, <3>4 DEF S
  <2>14. CASE h[2] < end - 1
    <3> DEFINE P == [r \in counted |-> IF r[2] >= end THEN r[1] .. end - 1
                                       ELSE IF r = h THEN first + 1 .. h[2] ELSE r[1] + 1 .. r[2]]
               U == (first + 1 .. h[2]) \cup (h[2] + 2 .. end - 1)
               V == UNION {P[r] : r \in counted}
    <3>0. h[1] \in Int /\ h[2] \in Int
      BY <1>1
    <3>1. ASSUME NEW r \in counted PROVE IsFiniteSet(P[r]) /\ Cardinality(P[r]) = f[r]
      <4>1. r[1] \in Int /\ r[2] \in Int /\ r[1] <= r[2] /\ r[1] < end
        BY <1>1, <2>7
      <4>2. CASE r[2] >= end
        <5> DEFINE a == r[1]
                   b == end - 1
        <5>1. P[r] = a .. b
          BY <4>2
        <5>2. a \in Int /\ b \in Int /\ f[r] \in Nat /\ f[r] = b - a + 1
          BY <1>0, <2>9, <4>1, <4>2
        <5> HIDE DEF a, b, P
        <5> QED
          BY <5>1, <5>2, CountOfNumbers
      <4>3. CASE ~(r[2] >= end) /\ r = h
        <5> DEFINE a == first + 1
                   b == h[2]
        <5>1. P[r] = a .. b
          BY <4>3
        <5>2. a \in Int /\ b \in Int /\ f[r] \in Nat /\ f[r] = b - a + 1
          BY <1>0, <2>1, <2>9, <3>0, <4>1, <4>3
        <5> HIDE DEF a, b, P
        <5> QED
          BY <5>1, <5>2, CountOfNumbers
      <4>4. CASE ~(r[2] >= end) /\ r # h
        <5> DEFINE a == r[1] + 1
                   b == r[2]
        <5>1. P[r] = a .. b
          BY <4>4
        <5>2. a \in Int /\ b \in Int /\ f[r] \in Nat /\ f[r] = b - a + 1
          BY <1>0, <2>9, <4>1, <4>4
        <5> HIDE DEF a, b, P
        <5> QED
          BY <5>1, <5>2, CountOfNumbers
      <4> QED
        BY <4>2, <4>3, <4>4
    <3>2. \A r \in counted : P[r] \subseteq r[1] .. r[2] /\ P[r] \subseteq U
      <4> TAKE r \in counted
      <4>1. r[1] \in Int /\ r[2] \in Int /\ r[1] <= r[2] /\ r[1] < end
        BY <1>1, <2>7
      <4>2. r # h => h[2] + 1 < r[1]
        BY <2>6
      <4> QED
        BY <1>0, <2>1, <2>14, <3>0, <4>1, <4>2
    <3>3. \A r, s \in counted : r # s => P[r] \cap P[s] = {}
      <4>1. \A r, s \in counted : r # s => (r[1] .. r[2]) \cap (s[1] .. s[2]) = {}
        BY <1>1, <2>7
      <4> HIDE DEF P, U
      <4> QED
        BY <3>2, <4>1
    <3>4. SizesOf(f, P)
      <4> HIDE DEF P, U
      <4> QED
        BY <2>10, <2>12, <3>1, <3>3 DEF SizesOf
    <3>5. IsFiniteSet(V) /\ SumFunction(f) = Cardinality(V)
      <4> HIDE DEF P, U
      <4>1. \A v : v \in V <=> \E r \in DOMAIN f : v \in P[r]
        BY <2>10
      <4> HIDE DEF V
      <4> QED
        BY <3>4, <4>1, SumIsCount
    <3>6. V \in SUBSET U
      <4> HIDE DEF P, U
      <4> QED
        BY <3>2
    <3>7. IsFiniteSet(U) /\ Cardinality(U) = end - first - 2
      <4> DEFINE A == first + 1 .. h[2]
                 B == h[2] + 2 .. end - 1
      <4>1. IsFiniteSet(A) /\ Cardinality(A) = h[2] - first
        <5> DEFINE a == first + 1
                   b == h[2]
                   n == h[2] - first
        <5>1. a \in Int /\ b \in Int /\ n \in Nat /\ n = b - a + 1
          BY <1>0, <2>1, <3>0
        <5> HIDE DEF a, b, n
        <5>2. IsFiniteSet(a .. b) /\ Cardinality(a .. b) = n
          BY <5>1, CountOfNumbers
        <5> QED
          BY <5>2 DEF a, b, n
      <4>2. IsFiniteSet(B) /\ Cardinality(B) = end - h[2] - 2
        <5> DEFINE a == h[2] + 2
                   b == end - 1
                   n == end - h[2] - 2
        <5>1. a \in Int /\ b \in Int /\ n \in Nat /\ n = b - a + 1
          BY <1>0, <2>14, <3>0
        <5> HIDE DEF a, b, n
        <5>2. IsFiniteSet(a .. b) /\ Cardinality(a .. b) = n
          BY <5>1, CountOfNumbers
        <5> QED
          BY <5>2 DEF a, b, n
      <4>3. A \cap B = {} /\ U = A \cup B
        BY <1>0, <3>0
      <4> HIDE DEF A, B, U
      <4>4. IsFiniteSet(U) /\ Cardinality(U) = Cardinality(A) + Cardinality(B) - Cardinality(A \cap B)
        BY <4>1, <4>2, <4>3, FS_Union
      <4>5. Cardinality(A \cap B) = 0
        BY <4>3, FS_EmptySet
      <4> QED
        BY <1>0, <3>0, <4>1, <4>2, <4>4, <4>5
    <3> HIDE DEF U, V
    <3>8. Cardinality(V) <= Cardinality(U) /\ Cardinality(V) \in Nat
      BY <3>5, <3>6, <3>7, FS_Subset, FS_CardinalityType
    <3>9. ~(SumFunction(f) >= end - first - 1)
      BY <1>0, <3>5, <3>7, <3>8
    <3>10. h[2] + 1 \notin S /\ h[2] + 1 \in first .. end - 1
      BY <1>0, <1>1, <2>1, <2>14, <3>0
    <3> QED
      BY <1>2, <3>9, <3>10 DEF S
  <2> QED
    BY <1>0, <1>1, <2>13, <2>14
<1> QED
  BY <1>3, <1>4

\* container_contains_range says whether all values of a range are there, whatever the type
\* of the container.
LEMMA ContainerContainsRange ==
  ASSUME NEW c, NEW S, Exact(c, S), NEW first \in Low, NEW end \in 0 .. ChunkSize, first < end
  PROVE  container_contains_range(c, first, end) <=> first .. end - 1 \subseteq S
<1>0. S \in SUBSET Low
  BY CountedKinds
<1>1. CASE c.type = "array" /\ c.values = S
  BY <1>0, <1>1, ArrayContainsRange DEF container_contains_range
<1>2. CASE c.type = "bitset" /\ c.values = S
  BY <1>2 DEF container_contains_range, bitset_container_get_range
<1>3. CASE c.type = "run" /\ c = Run(c.runs) /\ Apart(c.runs) /\ S = RunValues(c.runs)
  <2>1. container_contains_range(c, first, end) <=> run_container_contains_range(Run(c.runs), first, end)
    BY <1>3 DEF container_contains_range
  <2> QED
    BY <1>3, <2>1, RunsContainRange
<1> QED
  BY <1>1, <1>2, <1>3, CountedKinds

-----------------------------------------------------------------------------
(* Equal containers. *)

\* A subset that is as large as the set is the set.
LEMMA SubsetsByCount ==
  ASSUME NEW S \in SUBSET Low, NEW T \in SUBSET Low
  PROVE  /\ Cardinality(S) \in Nat /\ Cardinality(T) \in Nat
         /\ S \subseteq T => Cardinality(S) <= Cardinality(T)
         /\ S \subseteq T /\ Cardinality(S) = Cardinality(T) => S = T
<1>1. IsFiniteSet(S) /\ IsFiniteSet(T)
  BY CountOfSet
<1> QED
  BY <1>1, FS_Subset, FS_CardinalityType

\* Runs with the same values that stand apart are the same runs, one by one.
LEMMA RunOfSameValues ==
  ASSUME NEW R1, Apart(R1), NEW R2, Apart(R2), RunValues(R1) = RunValues(R2), NEW r \in R1
  PROVE  r \in R2
<1> DEFINE S == RunValues(R1)
<1>1. /\ \A s \in R1 : s[1] \in Int /\ s[2] \in Int /\ s[1] <= s[2] /\ s = <<s[1], s[2]>>
      /\ \A s, t \in R1 : s # t => s[2] + 1 < t[1] \/ t[2] + 1 < s[1]
      /\ \A v : v \in S <=> v \in Int /\ \E s \in R1 : s[1] <= v /\ v <= s[2]
  BY ApartHaveValues, LowAreNumbers
<1>2. /\ \A s \in R2 : s[1] \in Int /\ s[2] \in Int /\ s[1] <= s[2] /\ s = <<s[1], s[2]>>
      /\ \A s, t \in R2 : s # t => s[2] + 1 < t[1] \/ t[2] + 1 < s[1]
      /\ \A v : v \in S <=> v \in Int /\ \E s \in R2 : s[1] <= v /\ v <= s[2]
  BY ApartHaveValues, LowAreNumbers
<1> HIDE DEF S
<1>3. r[1] \in S
  BY <1>1
<1>4. PICK s \in R2 : s[1] <= r[1] /\ r[1] <= s[2]
  BY <1>2, <1>3
<1>5. r[1] - 1 \notin S /\ r[2] + 1 \notin S
  BY <1>1
<1>6. s[1] - 1 \notin S /\ s[2] + 1 \notin S
  BY <1>2
<1>7. s[1] = r[1]
  <2>1. r[1] - 1 \in Int /\ (s[1] < r[1] => s[1] <= r[1] - 1 /\ r[1] - 1 <= s[2])
    BY <1>1, <1>2, <1>4
  <2> QED
    BY <1>1, <1>2, <1>4, <1>5, <2>1
<1>8. s[2] = r[2]
  <2>1. s[2] < r[2] => s[2] + 1 \in Int /\ r[1] <= s[2] + 1 /\ s[2] + 1 <= r[2]
    BY <1>1, <1>2, <1>4
  <2>2. r[2] < s[2] => r[2] + 1 \in Int /\ s[1] <= r[2] + 1 /\ r[2] + 1 <= s[2]
    BY <1>1, <1>2, <1>4
  <2> QED
    BY <1>1, <1>2, <1>5, <1>6, <2>1, <2>2
<1> QED
  BY <1>1, <1>2, <1>7, <1>8

\* There is one way only to store values in runs that stand apart.
LEMMA RunsAreUnique ==
  ASSUME NEW R1, Apart(R1), NEW R2, Apart(R2)
  PROVE  R1 = R2 <=> RunValues(R1) = RunValues(R2)
  BY RunOfSameValues

\* run_container_equals_array compares the values.
LEMMA RunsEqualArray ==
  ASSUME NEW r, NEW S, IsRun(r, S), NEW a, NEW T, IsArray(a, T)
  PROVE  run_container_equals_array(r, a) <=> S = T
<1> DEFINE R == r.runs
           at(pos, v) == v \in T /\ Cardinality(Before(T, v)) = pos
           position(s) == SumFunction([t \in {u \in R : u[1] < s[1]} |-> t[2] - t[1] + 1])
<1>1. /\ Apart(R) /\ S = RunValues(R) /\ S \in SUBSET Low /\ run_container_cardinality(r) = Cardinality(S)
      /\ a.values = T /\ T \in SUBSET Low
  BY RunHas, ArrayHas
<1>2. run_container_equals_array(r, a) <=>
        /\ Cardinality(S) = Cardinality(T)
        /\ \A s \in R : at(position(s), s[1]) /\ at(position(s) + s[2] - s[1], s[2])
  BY <1>1 DEF run_container_equals_array, Before
<1>3. \A s \in R : position(s) = Cardinality(Before(S, s[1]))
  BY <1>1, LengthsBefore
<1>4. \A s \in R : s[1] \in Int /\ s[2] \in Int /\ s[1] <= s[2] /\ s[1] \in s[1] .. s[2] /\ s[2] \in s[1] .. s[2]
  BY <1>1, ApartHaveValues, LowAreNumbers
<1>5. \A v : v \in S <=> \E s \in R : v \in s[1] .. s[2]
  BY <1>1 DEF RunValues
<1> HIDE DEF R, position
<1>6. ASSUME S = T PROVE run_container_equals_array(r, a)
  <2>1. \A s \in R : \A v \in s[1] .. s[2] : v \in S /\ Cardinality(Before(S, v)) = Cardinality(Before(S, s[1])) + v - s[1]
    BY <1>1, PositionInRun
  <2>2. \A s \in R : at(position(s), s[1]) /\ at(position(s) + s[2] - s[1], s[2])
    BY <1>3, <1>4, <1>6, <2>1
  <2> QED
    BY <1>2, <1>6, <2>2
<1>7. ASSUME run_container_equals_array(r, a) PROVE S = T
  <2>1. ASSUME NEW s \in R PROVE s[1] .. s[2] \subseteq T
    <3>1. /\ s[1] \in T /\ s[2] \in T /\ s[1] <= s[2]
          /\ Cardinality(Before(T, s[2])) = Cardinality(Before(T, s[1])) + s[2] - s[1]
      BY <1>2, <1>4, <1>7
    <3> QED
      BY <1>1, <3>1, ConsecutivePositions
  <2>2. S \subseteq T /\ Cardinality(S) = Cardinality(T)
    BY <1>2, <1>5, <1>7, <2>1
  <2> QED
    BY <1>1, <2>2, SubsetsByCount
<1> QED
  BY <1>6, <1>7

\* run_container_equals_bitset compares the values.
LEMMA RunsEqualBitset ==
  ASSUME NEW r, NEW S, IsRun(r, S), NEW b, NEW T, IsBitset(b, T)
  PROVE  run_container_equals_bitset(r, b) <=> S = T
<1> DEFINE R == r.runs
<1>1. /\ Apart(R) /\ S = RunValues(R) /\ S \in SUBSET Low /\ run_container_cardinality(r) = Cardinality(S)
      /\ b.type = "bitset" /\ b.values = T /\ T \in SUBSET Low /\ b.cardinality = Cardinality(T) /\ Cardinality(T) \in Nat
  BY RunHas, BitsetHas
<1>2. run_container_equals_bitset(r, b) <=>
        Cardinality(S) = Cardinality(T) /\ \A s \in R : s[1] .. (s[2] + 1) - 1 \subseteq T
  BY <1>1 DEF run_container_equals_bitset, container_contains_range, bitset_container_get_range
<1>3. \A s \in R : s[1] .. (s[2] + 1) - 1 = s[1] .. s[2]
  BY <1>1, ApartHaveValues, LowAreNumbers
<1>4. \A v : v \in S <=> \E s \in R : v \in s[1] .. s[2]
  BY <1>1 DEF RunValues
<1>5. S \subseteq T <=> \A s \in R : s[1] .. s[2] \subseteq T
  BY <1>4
<1> HIDE DEF R
<1>6. run_container_equals_bitset(r, b) <=> Cardinality(S) = Cardinality(T) /\ S \subseteq T
  BY <1>2, <1>3, <1>5
<1> QED
  BY <1>1, <1>6, SubsetsByCount

\* container_equals compares the values of two containers of any types.
LEMMA ContainersEqual ==
  ASSUME NEW c1, NEW S, Sound(c1, S), NEW c2, NEW T, Sound(c2, T)
  PROVE  container_equals(c1, c2) <=> S = T
<1> USE DEF Both, Among, TheOne, TheOther
<1>1. CASE IsArray(c1, S) /\ IsArray(c2, T)
  <2>1. c1.type = "array" /\ c2.type = "array" /\ c1.values = S /\ c2.values = T
    BY <1>1, ArrayHas
  <2> QED
    BY <2>1 DEF container_equals, array_container_equals
<1>2. CASE IsBitset(c1, S) /\ IsBitset(c2, T)
  <2>1. /\ c1.type = "bitset" /\ c1.values = S /\ c1.cardinality = Cardinality(S)
        /\ c2.type = "bitset" /\ c2.values = T /\ c2.cardinality = Cardinality(T)
    BY <1>2, BitsetHas
  <2>2. container_equals(c1, c2) <=> bitset_container_equals(c1, c2)
    BY <2>1 DEF container_equals
  <2> QED
    BY <2>1, <2>2 DEF bitset_container_equals
<1>3. CASE IsRun(c1, S) /\ IsRun(c2, T)
  <2>1. c1.type = "run" /\ c2.type = "run" /\ Apart(c1.runs) /\ Apart(c2.runs) /\ S = RunValues(c1.runs) /\ T = RunValues(c2.runs)
    BY <1>3, RunHas
  <2>2. container_equals(c1, c2) <=> c1.runs = c2.runs
    BY <2>1 DEF container_equals, run_container_equals
  <2> QED
    BY <2>1, <2>2, RunsAreUnique
<1>4. ASSUME NEW a, NEW A, IsArray(a, A), NEW b, NEW B, IsBitset(b, B) PROVE array_container_equal_bitset(a, b) <=> A = B
  BY <1>4, ArrayHas, BitsetHas DEF array_container_equal_bitset
<1>5. CASE IsArray(c1, S) /\ IsBitset(c2, T)
  <2>1. c1.type = "array" /\ c2.type = "bitset"
    BY <1>5, ArrayHas, BitsetHas
  <2>2. container_equals(c1, c2) <=> array_container_equal_bitset(c1, c2)
    BY <2>1 DEF container_equals
  <2> QED
    BY <1>4, <1>5, <2>2
<1>6. CASE IsBitset(c1, S) /\ IsArray(c2, T)
  <2>1. c1.type = "bitset" /\ c2.type = "array"
    BY <1>6, ArrayHas, BitsetHas
  <2>2. container_equals(c1, c2) <=> array_container_equal_bitset(c2, c1)
    BY <2>1 DEF container_equals
  <2>3. array_container_equal_bitset(c2, c1) <=> T = S
    BY <1>4, <1>6
  <2> QED
    BY <2>2, <2>3
<1>7. CASE IsRun(c1, S) /\ IsArray(c2, T)
  <2>1. c1.type = "run" /\ c2.type = "array"
    BY <1>7, ArrayHas, RunHas
  <2>2. container_equals(c1, c2) <=> run_container_equals_array(c1, c2)
    BY <2>1 DEF container_equals
  <2> QED
    BY <1>7, <2>2, RunsEqualArray
<1>8. CASE IsArray(c1, S) /\ IsRun(c2, T)
  <2>1. c1.type = "array" /\ c2.type = "run"
    BY <1>8, ArrayHas, RunHas
  <2>2. container_equals(c1, c2) <=> run_container_equals_array(c2, c1)
    BY <2>1 DEF container_equals
  <2>3. run_container_equals_array(c2, c1) <=> T = S
    BY <1>8, RunsEqualArray
  <2> QED
    BY <2>2, <2>3
<1>9. CASE IsRun(c1, S) /\ IsBitset(c2, T)
  <2>1. c1.type = "run" /\ c2.type = "bitset"
    BY <1>9, BitsetHas, RunHas
  <2>2. container_equals(c1, c2) <=> run_container_equals_bitset(c1, c2)
    BY <2>1 DEF container_equals
  <2> QED
    BY <1>9, <2>2, RunsEqualBitset
<1>10. CASE IsBitset(c1, S) /\ IsRun(c2, T)
  <2>1. c1.type = "bitset" /\ c2.type = "run"
    BY <1>10, BitsetHas, RunHas
  <2>2. container_equals(c1, c2) <=> run_container_equals_bitset(c2, c1)
    BY <2>1 DEF container_equals
  <2>3. run_container_equals_bitset(c2, c1) <=> T = S
    BY <1>10, RunsEqualBitset
  <2> QED
    BY <2>2, <2>3
<1> QED
  BY <1>1, <1>2, <1>3, <1>5, <1>6, <1>7, <1>8, <1>9, <1>10, SoundIs

-----------------------------------------------------------------------------
(* Inclusion. *)

\* run_container_is_subset_array compares the values.
LEMMA RunsWithinArray ==
  ASSUME NEW r, NEW S, IsRun(r, S), NEW a, NEW T, IsArray(a, T)
  PROVE  run_container_is_subset_array(r, a) <=> S \subseteq T
<1> DEFINE R == r.runs
           index(v) == Cardinality(Before(T, v))
<1>1. /\ Apart(R) /\ S = RunValues(R) /\ S \in SUBSET Low /\ run_container_cardinality(r) = Cardinality(S)
      /\ a.values = T /\ T \in SUBSET Low
  BY RunHas, ArrayHas
<1>2. run_container_is_subset_array(r, a) <=>
        /\ Cardinality(S) <= Cardinality(T)
        /\ \A s \in R : s[1] \in T /\ s[2] \in T /\ index(s[2]) - index(s[1]) = s[2] - s[1]
  BY <1>1 DEF run_container_is_subset_array, Before
<1>3. \A s \in R : s[1] \in Int /\ s[2] \in Int /\ s[1] <= s[2] /\ s[1] \in Low /\ s[2] \in Low
  BY <1>1, ApartHaveValues, LowAreNumbers
<1>4. \A v : v \in S <=> \E s \in R : v \in s[1] .. s[2]
  BY <1>1 DEF RunValues
<1>5. \A v : index(v) \in Nat
  BY <1>1, BeforeHas
<1> HIDE DEF R, index
<1>6. ASSUME S \subseteq T PROVE run_container_is_subset_array(r, a)
  <2>1. ASSUME NEW s \in R PROVE s[1] \in T /\ s[2] \in T /\ index(s[2]) - index(s[1]) = s[2] - s[1]
    <3>1. s[1] .. s[2] \subseteq T
      BY <1>4, <1>6
    <3>2. s[1] \in T /\ s[2] \in T /\ s[1] .. s[2] - 1 \subseteq T
      BY <1>3, <3>1
    <3>3. index(s[2]) = index(s[1]) + s[2] - s[1]
      BY <1>1, <1>3, <3>2, PositionsOfConsecutive DEF index
    <3> QED
      BY <1>3, <1>5, <3>2, <3>3
  <2>2. Cardinality(S) <= Cardinality(T)
    BY <1>1, <1>6, SubsetsByCount
  <2> QED
    BY <1>2, <2>1, <2>2
<1>7. ASSUME run_container_is_subset_array(r, a) PROVE S \subseteq T
  <2>1. ASSUME NEW s \in R PROVE s[1] .. s[2] \subseteq T
    <3>1. s[1] \in T /\ s[2] \in T /\ index(s[2]) - index(s[1]) = s[2] - s[1]
      BY <1>2, <1>7
    <3>2. index(s[2]) = index(s[1]) + s[2] - s[1]
      BY <1>3, <1>5, <3>1
    <3> QED
      BY <1>1, <1>3, <3>1, <3>2, ConsecutivePositions DEF index
  <2> QED
    BY <1>4, <2>1
<1> QED
  BY <1>6, <1>7

\* Runs are included in others when each of them is within one of them.
LEMMA RunsWithinRuns ==
  ASSUME NEW R1, Apart(R1), NEW R2, Apart(R2)
  PROVE  (\A s \in R1 : \E t \in R2 : t[1] <= s[1] /\ s[2] <= t[2]) <=> RunValues(R1) \subseteq RunValues(R2)
<1>1. /\ \A s \in R1 : s[1] \in Int /\ s[2] \in Int /\ s[1] <= s[2]
      /\ \A v : v \in RunValues(R1) <=> v \in Int /\ \E s \in R1 : s[1] <= v /\ v <= s[2]
  BY ApartHaveValues, LowAreNumbers
<1>2. /\ \A t \in R2 : t[1] \in Int /\ t[2] \in Int /\ t[1] <= t[2]
      /\ \A t, u \in R2 : t # u => t[2] + 1 < u[1] \/ u[2] + 1 < t[1]
      /\ \A v : v \in RunValues(R2) <=> v \in Int /\ \E t \in R2 : t[1] <= v /\ v <= t[2]
  BY ApartHaveValues, LowAreNumbers
<1>3. ASSUME \A s \in R1 : \E t \in R2 : t[1] <= s[1] /\ s[2] <= t[2] PROVE RunValues(R1) \subseteq RunValues(R2)
  <2> SUFFICES ASSUME NEW v \in RunValues(R1) PROVE v \in RunValues(R2)
    OBVIOUS
  <2>1. v \in Int
    BY <1>1
  <2>2. PICK s \in R1 : s[1] <= v /\ v <= s[2]
    BY <1>1
  <2>3. PICK t \in R2 : t[1] <= s[1] /\ s[2] <= t[2]
    BY <1>3
  <2>4. t[1] <= v /\ v <= t[2]
    BY <1>1, <1>2, <2>1, <2>2, <2>3
  <2> QED
    BY <1>2, <2>1, <2>4
<1>4. ASSUME RunValues(R1) \subseteq RunValues(R2), NEW s \in R1 PROVE \E t \in R2 : t[1] <= s[1] /\ s[2] <= t[2]
  <2>1. s[1] \in RunValues(R1)
    BY <1>1
  <2>2. PICK t \in R2 : t[1] <= s[1] /\ s[1] <= t[2]
    BY <1>2, <1>4, <2>1
  <2>3. t[2] + 1 \notin RunValues(R2)
    BY <1>2
  <2>4. t[2] < s[2] => t[2] + 1 \in RunValues(R1)
    BY <1>1, <1>2, <2>2
  <2>5. ~(t[2] < s[2])
    BY <1>4, <2>3, <2>4
  <2> QED
    BY <1>1, <1>2, <2>2, <2>5
<1> QED
  BY <1>3, <1>4

\* container_is_subset compares the values of two containers of any types.
LEMMA ContainersIncluded ==
  ASSUME NEW c1, NEW S, Sound(c1, S), NEW c2, NEW T, Sound(c2, T)
  PROVE  container_is_subset(c1, c2) <=> S \subseteq T
<1> USE DEF Pair
<1>0. S \in SUBSET Low /\ T \in SUBSET Low
  BY CountedKinds DEF Sound
<1>1. Cardinality(S) \in Nat /\ Cardinality(T) \in Nat /\ (S \subseteq T => Cardinality(S) <= Cardinality(T))
  BY <1>0, SubsetsByCount
<1>2. \A v \in Low : container_contains(c2, v) <=> v \in T
  BY ContainsValue
<1>3. S \subseteq T <=> \A v \in S : container_contains(c2, v)
  BY <1>0, <1>2
<1>4. ASSUME IsArray(c1, S) PROVE c1.type = "array" /\ c1.values = S /\ Cardinality(S) <= DEFAULT_MAX_SIZE
  BY <1>4, ArrayHas
<1>5. ASSUME IsArray(c2, T) PROVE c2.type = "array" /\ c2.values = T /\ Cardinality(T) <= DEFAULT_MAX_SIZE
  BY <1>5, ArrayHas
<1>6. ASSUME IsBitset(c1, S) PROVE c1.type = "bitset" /\ c1.values = S /\ c1.cardinality = Cardinality(S)
  BY <1>6, BitsetHas
<1>7. ASSUME IsBitset(c2, T) PROVE c2.type = "bitset" /\ c2.values = T /\ c2.cardinality = Cardinality(T)
  BY <1>7, BitsetHas
<1>8. ASSUME IsRun(c1, S)
      PROVE  c1.type = "run" /\ Apart(c1.runs) /\ RunValues(c1.runs) = S /\ run_container_cardinality(c1) = Cardinality(S)
  BY <1>8, RunHas
<1>9. ASSUME IsRun(c2, T)
      PROVE  c2.type = "run" /\ Apart(c2.runs) /\ RunValues(c2.runs) = T /\ run_container_cardinality(c2) = Cardinality(T)
  BY <1>9, RunHas
<1>10. CASE IsArray(c1, S) /\ IsArray(c2, T)
  <2>1. container_is_subset(c1, c2) <=> array_container_is_subset(c1, c2)
    BY <1>4, <1>5, <1>10 DEF container_is_subset
  <2> QED
    BY <1>1, <1>4, <1>5, <1>10, <2>1 DEF array_container_is_subset
<1>11. CASE IsArray(c1, S) /\ IsBitset(c2, T)
  <2>1. container_is_subset(c1, c2) <=> array_container_is_subset_bitset(c1, c2)
    BY <1>4, <1>7, <1>11 DEF container_is_subset
  <2> QED
    BY <1>1, <1>3, <1>4, <1>7, <1>11, <2>1 DEF array_container_is_subset_bitset
<1>12. CASE IsArray(c1, S) /\ IsRun(c2, T)
  <2>1. container_is_subset(c1, c2) <=> array_container_is_subset_run(c1, c2)
    BY <1>4, <1>9, <1>12 DEF container_is_subset
  <2> QED
    BY <1>1, <1>3, <1>4, <1>9, <1>12, <2>1 DEF array_container_is_subset_run
<1>13. CASE IsBitset(c1, S) /\ Cardinality(S) > DEFAULT_MAX_SIZE /\ IsArray(c2, T)
  <2>1. container_is_subset(c1, c2) <=> FALSE
    BY <1>5, <1>6, <1>13 DEF container_is_subset
  <2>2. ~(Cardinality(S) <= Cardinality(T))
    BY <1>1, <1>5, <1>13, ContainerConstants
  <2> QED
    BY <1>1, <2>1, <2>2
<1>14. CASE IsBitset(c1, S) /\ IsBitset(c2, T)
  <2>1. container_is_subset(c1, c2) <=> bitset_container_is_subset(c1, c2)
    BY <1>6, <1>7, <1>14 DEF container_is_subset
  <2> QED
    BY <1>1, <1>6, <1>7, <1>14, <2>1 DEF bitset_container_is_subset
<1>15. CASE IsBitset(c1, S) /\ IsRun(c2, T)
  <2>1. container_is_subset(c1, c2) <=> bitset_container_is_subset_run(c1, c2)
    BY <1>6, <1>9, <1>15 DEF container_is_subset
  <2> QED
    BY <1>1, <1>3, <1>6, <1>9, <1>15, <2>1 DEF bitset_container_is_subset_run
<1>16. CASE IsRun(c1, S) /\ IsArray(c2, T)
  <2>1. container_is_subset(c1, c2) <=> run_container_is_subset_array(c1, c2)
    BY <1>5, <1>8, <1>16 DEF container_is_subset
  <2> QED
    BY <1>16, <2>1, RunsWithinArray
<1>17. CASE IsRun(c1, S) /\ IsBitset(c2, T)
  <2>1. container_is_subset(c1, c2) <=> run_container_is_subset_bitset(c1, c2)
    BY <1>7, <1>8, <1>17 DEF container_is_subset
  <2>2. c2.cardinality # BITSET_UNKNOWN_CARDINALITY
    BY <1>1, <1>7, <1>17 DEF BITSET_UNKNOWN_CARDINALITY
  <2> QED
    BY <1>1, <1>7, <1>8, <1>17, <2>1, <2>2 DEF run_container_is_subset_bitset
<1>18. CASE IsRun(c1, S) /\ IsRun(c2, T)
  <2>1. container_is_subset(c1, c2) <=> \A s \in c1.runs : \E t \in c2.runs : t[1] <= s[1] /\ s[2] <= t[2]
    BY <1>8, <1>9, <1>18 DEF container_is_subset, run_container_is_subset
  <2> QED
    BY <1>8, <1>9, <1>18, <2>1, RunsWithinRuns
<1> QED
  BY <1>10, <1>11, <1>12, <1>13, <1>14, <1>15, <1>16, <1>17, <1>18, SoundIs

-----------------------------------------------------------------------------
(* What two containers share, without making the intersection. *)

\* A run and a bitset meet in the values they share, and share as many as are counted.
LEMMA BitsetOfRun ==
  ASSUME NEW r, NEW S, IsRun(r, S), NEW b, NEW T, IsBitset(b, T)
  PROVE  /\ run_bitset_container_intersection_cardinality(r, b) = Cardinality(S \cap T)
         /\ run_bitset_container_intersect(r, b) <=> S \cap T # {}
<1> DEFINE R == r.runs
           f == [s \in R |-> Cardinality(T \cap s[1] .. s[2])]
           P == [s \in R |-> T \cap s[1] .. s[2]]
<1>1. /\ Apart(R) /\ S = RunValues(R) /\ S \in SUBSET Low
      /\ b.values = T /\ T \in SUBSET Low /\ b.cardinality = Cardinality(T)
  BY RunHas, BitsetHas
<1>2. CASE run_container_is_full(r)
  <2>1. S = Low
    BY <1>1, <1>2, FullRun DEF run_container_is_full
  <2>2. S \cap T = T
    BY <1>1, <2>1
  <2> QED
    BY <1>1, <1>2, <2>2 DEF run_bitset_container_intersection_cardinality, run_bitset_container_intersect
<1>3. CASE ~run_container_is_full(r)
  <2>1. \A s \in R : IsFiniteSet(P[s]) /\ Cardinality(P[s]) = f[s]
    <3>1. \A s \in R : IsFiniteSet(T \cap s[1] .. s[2])
      <4>1. \A s \in R : T \cap s[1] .. s[2] \in SUBSET Low
        BY <1>1
      <4> QED
        BY <4>1, CountOfSet
    <3> QED
      BY <3>1
  <2>2. \A s, t \in R : s # t => P[s] \cap P[t] = {}
    <3>1. \A s \in R : s[1] \in Int /\ s[2] \in Int
      BY <1>1, ApartHaveValues, LowAreNumbers
    <3>2. \A s, t \in R : s # t => s[2] + 1 < t[1] \/ t[2] + 1 < s[1]
      BY <1>1, ApartHaveValues
    <3>3. \A s, t \in R : s # t => (s[1] .. s[2]) \cap (t[1] .. t[2]) = {}
      BY <3>1, <3>2
    <3> QED
      BY <3>3
  <2>3. \A v : v \in S \cap T <=> \E s \in R : v \in P[s]
    BY <1>1 DEF RunValues
  <2>4. DOMAIN f = R /\ IsFiniteSet(R)
    BY <1>1, ApartIsFinite
  <2>5. run_bitset_container_intersection_cardinality(r, b) = SumFunction(f)
    BY <1>1, <1>3 DEF run_bitset_container_intersection_cardinality
  <2>6. run_bitset_container_intersect(r, b) <=> S \cap T # {}
    BY <1>1, <1>3 DEF run_bitset_container_intersect, RunValues
  <2> HIDE DEF f, P, R
  <2>7. SizesOf(f, P)
    BY <2>1, <2>2, <2>4 DEF SizesOf
  <2>8. SumFunction(f) = Cardinality(S \cap T)
    BY <2>3, <2>4, <2>7, SumIsCount
  <2> QED
    BY <2>5, <2>6, <2>8
<1> QED
  BY <1>2, <1>3

\* So do two containers of runs.
LEMMA RunsOfTwo ==
  ASSUME NEW r1, NEW S, IsRun(r1, S), NEW r2, NEW T, IsRun(r2, T)
  PROVE  /\ run_container_intersection_cardinality(r1, r2) = Cardinality(S \cap T)
         /\ run_container_intersect(r1, r2) <=> S \cap T # {}
<1>1. /\ Apart(r1.runs) /\ S = RunValues(r1.runs) /\ S \in SUBSET Low /\ run_container_cardinality(r1) = Cardinality(S)
      /\ Apart(r2.runs) /\ T = RunValues(r2.runs) /\ T \in SUBSET Low /\ run_container_cardinality(r2) = Cardinality(T)
  BY RunHas
<1>2. (r1.runs # {} <=> S # {}) /\ (r2.runs # {} <=> T # {})
  BY <1>1, ApartHaveValues
<1>3. CASE run_container_is_full(r1)
  <2>1. S \cap T = T
    BY <1>1, <1>3, FullRun DEF run_container_is_full
  <2> QED
    BY <1>1, <1>2, <1>3, <2>1 DEF run_container_intersection_cardinality, run_container_intersect
<1>4. CASE ~run_container_is_full(r1) /\ run_container_is_full(r2)
  <2>1. S \cap T = S
    BY <1>1, <1>4, FullRun DEF run_container_is_full
  <2> QED
    BY <1>1, <1>2, <1>4, <2>1 DEF run_container_intersection_cardinality, run_container_intersect
<1>5. CASE ~run_container_is_full(r1) /\ ~run_container_is_full(r2)
  <2> DEFINE R == SharedRuns(r1.runs, r2.runs)
  <2>1. Apart(R) /\ RunValues(R) = S \cap T
    BY <1>1, RunsShared
  <2>2. run_container_intersection_cardinality(r1, r2) = SumFunction([s \in R |-> s[2] - s[1] + 1])
    BY <1>5 DEF run_container_intersection_cardinality
  <2>3. run_container_intersect(r1, r2) <=> R # {}
    BY <1>5 DEF run_container_intersect
  <2> HIDE DEF R
  <2>4. SumFunction([s \in R |-> s[2] - s[1] + 1]) = Cardinality(S \cap T)
    BY <2>1, LengthsAddUp
  <2>5. R # {} <=> S \cap T # {}
    BY <2>1, ApartHaveValues
  <2> QED
    BY <2>2, <2>3, <2>4, <2>5
<1> QED
  BY <1>3, <1>4, <1>5

\* So do an array and runs.
LEMMA ArrayOfRun ==
  ASSUME NEW a, NEW S, IsArray(a, S), NEW r, NEW T, IsRun(r, T)
  PROVE  /\ array_run_container_intersection_cardinality(a, r) = Cardinality(S \cap T)
         /\ array_run_container_intersect(a, r) <=> S \cap T # {}
<1>1. a.values = S /\ S \in SUBSET Low
  BY ArrayHas
<1>2. Sound(r, T)
  BY SoundWhen
<1>3. \A v \in Low : container_contains(r, v) <=> v \in T
  BY <1>2, ContainsValue
<1>4. CASE run_container_is_full(r)
  <2>1. S \cap T = S
    <3>1. T = RunValues(r.runs) /\ T \in SUBSET Low
      BY RunHas
    <3>2. T = Low
      BY <1>4, <3>1, FullRun DEF run_container_is_full
    <3> QED
      BY <1>1, <3>2
  <2> QED
    BY <1>1, <1>4, <2>1 DEF array_run_container_intersection_cardinality, array_run_container_intersect
<1>5. CASE ~run_container_is_full(r)
  <2>1. {v \in S : container_contains(r, v)} = S \cap T
    BY <1>1, <1>3
  <2> QED
    BY <1>1, <1>5, <2>1 DEF array_run_container_intersection_cardinality, array_run_container_intersect
<1> QED
  BY <1>4, <1>5

\* So do an array and a bitset.
LEMMA ArrayOfBitset ==
  ASSUME NEW a, NEW S, IsArray(a, S), NEW b, NEW T, IsBitset(b, T)
  PROVE  /\ array_bitset_container_intersection_cardinality(a, b) = Cardinality(S \cap T)
         /\ array_bitset_container_intersect(a, b) <=> S \cap T # {}
<1>1. a.values = S /\ b.values = T
  BY ArrayHas, BitsetHas
<1>2. {v \in S : v \in T} = S \cap T
  OBVIOUS
<1> QED
  BY <1>1, <1>2 DEF array_bitset_container_intersection_cardinality, array_bitset_container_intersect, bitset_container_contains

\* container_and_cardinality counts the values two containers of any types share, and
\* container_intersect says whether there are any.
LEMMA ContainersShare ==
  ASSUME NEW c1, NEW S, Sound(c1, S), NEW c2, NEW T, Sound(c2, T)
  PROVE  /\ container_and_cardinality(c1, c2) = Cardinality(S \cap T)
         /\ container_intersect(c1, c2) <=> S \cap T # {}
<1> USE DEF Both, Among, TheOne, TheOther
<1>0. S \cap T = T \cap S
  OBVIOUS
<1>1. CASE IsArray(c1, S) /\ IsArray(c2, T)
  <2>1. c1.type = "array" /\ c2.type = "array" /\ c1.values = S /\ c2.values = T
    BY <1>1, ArrayHas
  <2>2. /\ container_and_cardinality(c1, c2) = array_container_intersection_cardinality(c1, c2)
        /\ container_intersect(c1, c2) <=> array_container_intersect(c1, c2)
    BY <2>1 DEF container_and_cardinality, container_intersect
  <2> QED
    BY <2>1, <2>2 DEF array_container_intersection_cardinality, array_container_intersect
<1>2. CASE IsBitset(c1, S) /\ IsBitset(c2, T)
  <2>1. c1.type = "bitset" /\ c2.type = "bitset" /\ c1.values = S /\ c2.values = T
    BY <1>2, BitsetHas
  <2>2. /\ container_and_cardinality(c1, c2) = bitset_container_and_justcard(c1, c2)
        /\ container_intersect(c1, c2) <=> bitset_container_intersect(c1, c2)
    BY <2>1 DEF container_and_cardinality, container_intersect
  <2> QED
    BY <2>1, <2>2 DEF bitset_container_and_justcard, bitset_container_intersect
<1>3. CASE IsRun(c1, S) /\ IsRun(c2, T)
  <2>1. c1.type = "run" /\ c2.type = "run"
    BY <1>3, RunHas
  <2>2. /\ container_and_cardinality(c1, c2) = run_container_intersection_cardinality(c1, c2)
        /\ container_intersect(c1, c2) <=> run_container_intersect(c1, c2)
    BY <2>1 DEF container_and_cardinality, container_intersect
  <2> QED
    BY <1>3, <2>2, RunsOfTwo
<1>4. CASE IsArray(c1, S) /\ IsBitset(c2, T)
  <2>1. c1.type = "array" /\ c2.type = "bitset"
    BY <1>4, ArrayHas, BitsetHas
  <2>2. /\ container_and_cardinality(c1, c2) = array_bitset_container_intersection_cardinality(c1, c2)
        /\ container_intersect(c1, c2) <=> array_bitset_container_intersect(c1, c2)
    BY <2>1 DEF container_and_cardinality, container_intersect
  <2> QED
    BY <1>4, <2>2, ArrayOfBitset
<1>5. CASE IsBitset(c1, S) /\ IsArray(c2, T)
  <2>1. c1.type = "bitset" /\ c2.type = "array"
    BY <1>5, ArrayHas, BitsetHas
  <2>2. /\ container_and_cardinality(c1, c2) = array_bitset_container_intersection_cardinality(c2, c1)
        /\ container_intersect(c1, c2) <=> array_bitset_container_intersect(c2, c1)
    BY <2>1 DEF container_and_cardinality, container_intersect
  <2> QED
    BY <1>0, <1>5, <2>2, ArrayOfBitset
<1>6. CASE IsArray(c1, S) /\ IsRun(c2, T)
  <2>1. c1.type = "array" /\ c2.type = "run"
    BY <1>6, ArrayHas, RunHas
  <2>2. /\ container_and_cardinality(c1, c2) = array_run_container_intersection_cardinality(c1, c2)
        /\ container_intersect(c1, c2) <=> array_run_container_intersect(c1, c2)
    BY <2>1 DEF container_and_cardinality, container_intersect
  <2> QED
    BY <1>6, <2>2, ArrayOfRun
<1>7. CASE IsRun(c1, S) /\ IsArray(c2, T)
  <2>1. c1.type = "run" /\ c2.type = "array"
    BY <1>7, ArrayHas, RunHas
  <2>2. /\ container_and_cardinality(c1, c2) = array_run_container_intersection_cardinality(c2, c1)
        /\ container_intersect(c1, c2) <=> array_run_container_intersect(c2, c1)
    BY <2>1 DEF container_and_cardinality, container_intersect
  <2> QED
    BY <1>0, <1>7, <2>2, ArrayOfRun
<1>8. CASE IsRun(c1, S) /\ IsBitset(c2, T)
  <2>1. c1.type = "run" /\ c2.type = "bitset"
    BY <1>8, BitsetHas, RunHas
  <2>2. /\ container_and_cardinality(c1, c2) = run_bitset_container_intersection_cardinality(c1, c2)
        /\ container_intersect(c1, c2) <=> run_bitset_container_intersect(c1, c2)
    BY <2>1 DEF container_and_cardinality, container_intersect
  <2> QED
    BY <1>8, <2>2, BitsetOfRun
<1>9. CASE IsBitset(c1, S) /\ IsRun(c2, T)
  <2>1. c1.type = "bitset" /\ c2.type = "run"
    BY <1>9, BitsetHas, RunHas
  <2>2. /\ container_and_cardinality(c1, c2) = run_bitset_container_intersection_cardinality(c2, c1)
        /\ container_intersect(c1, c2) <=> run_bitset_container_intersect(c2, c1)
    BY <2>1 DEF container_and_cardinality, container_intersect
  <2> QED
    BY <1>0, <1>9, <2>2, BitsetOfRun
<1> QED
  BY <1>1, <1>2, <1>3, <1>4, <1>5, <1>6, <1>7, <1>8, <1>9, SoundIs

==============================================================================
