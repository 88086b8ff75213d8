--------------------------- MODULE Roaring_proofs ----------------------------
(****************************************************************************)
(* Theorems about the bitmaps of CRoaring, for any number and size of       *)
(* containers: the functions that make, change and combine bitmaps keep each of*)
(* them in the form the library relies on, and change the set it stands for as*)
(* they should.                                                             *)
(****************************************************************************)
EXTENDS Containers_proofs, RoaringFormats, RoaringQueries

-----------------------------------------------------------------------------
(* Keys and chunks.                                                         *)

\* The keys are numbers.
LEMMA KeyConstants == KeyCount \in Nat \ {0} /\ \A k \in Key : k \in Int /\ k \in Nat /\ 0 <= k /\ k < KeyCount
  BY KeyAssumption DEF KeyAssumption, Key

\* Quotient and remainder.
LEMMA Dividing ==
  ASSUME NEW n \in Nat \ {0}, NEW v \in Int
  PROVE  /\ v \div n \in Int /\ v % n \in Int /\ 0 <= v % n /\ v % n < n
         /\ v = (v \div n) * n + (v % n)
  OBVIOUS

\* No other quotient and remainder make the same number.
LEMMA DividingIsUnique ==
  ASSUME NEW n \in Nat \ {0}, NEW k \in Int, NEW x \in Int, 0 <= x, x < n
  PROVE  (k * n + x) \div n = k /\ (k * n + x) % n = x
<1> DEFINE v == k * n + x
           q == v \div n
<1>1. v \in Int /\ q \in Int /\ q * n <= v /\ v < (q + 1) * n
  OBVIOUS
<1>2. k * n <= v /\ v < (k + 1) * n
  OBVIOUS
<1>3. q = k
  <2> HIDE DEF q, v
  <2>1. ~ (q + 1 <= k)
    <3>1. q + 1 <= k => (q + 1) * n <= k * n
      BY <1>1
    <3> QED
      BY <1>1, <1>2, <3>1
  <2>2. ~ (k + 1 <= q)
    <3>1. k + 1 <= q => (k + 1) * n <= q * n
      BY <1>1
    <3> QED
      BY <1>1, <1>2, <3>1
  <2> QED
    BY <1>1, <2>1, <2>2
<1> QED
  BY <1>3

\* The part of a set of values that is in the chunk of a key.
Chunk(V, k) == {x \in Low : k * ChunkSize + x \in V}

\* A value is told by its two halves.
LEMMA Halves ==
  ASSUME NEW v \in Value
  PROVE  high(v) \in Key /\ low(v) \in Low /\ v = high(v) * ChunkSize + low(v) /\ v \in Int /\ high(v) \in Int /\ low(v) \in Int
<1>1. ChunkSize \in Nat \ {0} /\ KeyCount \in Nat \ {0} /\ v \in Int /\ 0 <= v /\ v < KeyCount * ChunkSize
  BY ContainerConstants, KeyConstants DEF Value, UINT32_MAX
<1> DEFINE q == v \div ChunkSize
           r == v % ChunkSize
<1>2. q \in Int /\ r \in Int /\ 0 <= r /\ r < ChunkSize /\ v = q * ChunkSize + r
  BY <1>1, Dividing
<1>3. high(v) = q /\ low(v) = r
  BY DEF high, low
<1> HIDE DEF q, r
<1>4. 0 <= q
  <2>1. q + 1 <= 0 => (q + 1) * ChunkSize <= 0
    BY <1>1, <1>2
  <2>2. (q + 1) * ChunkSize = q * ChunkSize + ChunkSize /\ q * ChunkSize \in Int
    BY <1>1, <1>2
  <2> QED
    BY <1>1, <1>2, <2>1, <2>2
<1>5. q < KeyCount
  <2>1. KeyCount <= q => KeyCount * ChunkSize <= q * ChunkSize
    BY <1>1, <1>2
  <2>2. KeyCount * ChunkSize \in Int /\ q * ChunkSize \in Int
    BY <1>1, <1>2
  <2> QED
    BY <1>1, <1>2, <2>1, <2>2
<1> QED
  BY <1>1, <1>2, <1>3, <1>4, <1>5 DEF Key, Low

\* Two halves make a value.
LEMMA Whole ==
  ASSUME NEW k \in Key, NEW x \in Low
  PROVE  LET v == k * ChunkSize + x IN v \in Value /\ v \in Int /\ high(v) = k /\ low(v) = x
<1>1. ChunkSize \in Nat \ {0} /\ KeyCount \in Nat \ {0} /\ k \in Int /\ x \in Int /\ 0 <= x /\ x < ChunkSize /\ 0 <= k /\ k < KeyCount
  BY ContainerConstants, KeyConstants, LowAreNumbers
<1> DEFINE v == k * ChunkSize + x
<1>2. high(v) = k /\ low(v) = x
  BY <1>1, DividingIsUnique DEF high, low
<1>3. 0 <= k * ChunkSize /\ k * ChunkSize + ChunkSize <= KeyCount * ChunkSize /\ k * ChunkSize \in Int /\ KeyCount * ChunkSize \in Int
  <2>1. (k + 1) * ChunkSize <= KeyCount * ChunkSize
    BY <1>1
  <2>2. (k + 1) * ChunkSize = k * ChunkSize + ChunkSize
    BY <1>1
  <2> QED
    BY <1>1, <2>1, <2>2
<1>4. v \in Int /\ v \in Value
  BY <1>1, <1>3 DEF Value, UINT32_MAX
<1> QED
  BY <1>2, <1>4

\* A set of values is told by its chunks.
LEMMA ChunkHas ==
  ASSUME NEW V \in SUBSET Value
  PROVE  /\ \A k : Chunk(V, k) \in SUBSET Low
         /\ \A v : v \in V <=> v \in Value /\ low(v) \in Chunk(V, high(v))
         /\ \A v \in V : high(v) \in Key /\ low(v) \in Chunk(V, high(v))
<1>1. \A v \in Value : low(v) \in Low /\ high(v) \in Key /\ v = high(v) * ChunkSize + low(v)
  BY Halves
<1> QED
  BY <1>1 DEF Chunk

\* Sets of values with the same chunks are the same.
LEMMA SameChunks ==
  ASSUME NEW V \in SUBSET Value, NEW W \in SUBSET Value, \A k \in Key : Chunk(V, k) = Chunk(W, k)
  PROVE  V = W
<1>1. \A v \in Value : high(v) \in Key
  BY Halves
<1>2. /\ \A v : v \in V <=> v \in Value /\ low(v) \in Chunk(V, high(v))
      /\ \A v : v \in W <=> v \in Value /\ low(v) \in Chunk(W, high(v))
  BY ChunkHas
<1> QED
  BY <1>1, <1>2

\* The chunks of sets made of two sets.
LEMMA ChunksOfTwo ==
  ASSUME NEW V, NEW W, NEW k
  PROVE  /\ Chunk(V \cup W, k) = Chunk(V, k) \cup Chunk(W, k)
         /\ Chunk(V \cap W, k) = Chunk(V, k) \cap Chunk(W, k)
         /\ Chunk(V \ W, k) = Chunk(V, k) \ Chunk(W, k)
         /\ Chunk(SymDiff(V, W), k) = SymDiff(Chunk(V, k), Chunk(W, k))
  BY DEF Chunk, SymDiff

\* What a bitmap has to be to stand for a set of values: a container for every chunk with a value, and
\* no other.
Represents(bm, V) ==
    /\ V \in SUBSET Value
    /\ bm = [k \in DOMAIN bm |-> bm[k]]
    /\ DOMAIN bm = {k \in Key : Chunk(V, k) # {}}
    /\ \A k \in DOMAIN bm : Sound(bm[k], Chunk(V, k))
\* The same within a lazy operation.
RepresentsLazily(bm, V) ==
    /\ V \in SUBSET Value
    /\ bm = [k \in DOMAIN bm |-> bm[k]]
    /\ DOMAIN bm = {k \in Key : Chunk(V, k) # {}}
    /\ \A k \in DOMAIN bm : Lazy(bm[k], Chunk(V, k))

\* A sound container stands lazily for its set, too.
LEMMA SoundIsLazy == ASSUME NEW c, NEW S, Sound(c, S) PROVE Lazy(c, S) /\ Exact(c, S) /\ S \in SUBSET Low
  BY LazyHasValues DEF Sound, Lazy

\* A bitmap stands lazily for its set, too.
LEMMA BitmapIsLazy == ASSUME NEW bm, NEW V, Represents(bm, V) PROVE RepresentsLazily(bm, V)
  BY SoundIsLazy DEF Represents, RepresentsLazily

\* The values of a bitmap, lazy or not, are the set it stands for.
THEOREM BitmapHasValues ==
  ASSUME NEW bm, NEW V, RepresentsLazily(bm, V)
  PROVE  Values(bm) = V
<1>1. /\ V \in SUBSET Value
      /\ DOMAIN bm = {k \in Key : Chunk(V, k) # {}}
      /\ \A k \in DOMAIN bm : Lazy(bm[k], Chunk(V, k))
  BY DEF RepresentsLazily
<1>2. \A k \in DOMAIN bm : container_to_uint32_array(bm[k]) = Chunk(V, k) /\ k \in Key
  BY <1>1, LazyHasValues
<1>3. \A v : v \in Values(bm) <=> \E k \in DOMAIN bm : \E x \in Chunk(V, k) : v = k * ChunkSize + x
  BY <1>2 DEF Values
<1>4. \A v \in V : v \in Values(bm)
  <2> TAKE v \in V
  <2>1. high(v) \in Key /\ low(v) \in Chunk(V, high(v)) /\ v = high(v) * ChunkSize + low(v)
    BY <1>1, ChunkHas, Halves
  <2>2. high(v) \in DOMAIN bm
    BY <1>1, <2>1
  <2> QED
    BY <1>3, <2>1, <2>2
<1>5. \A v \in Values(bm) : v \in V
  BY <1>3 DEF Chunk
<1> QED
  BY <1>4, <1>5

\* How a function on keys becomes a bitmap.
LEMMA BitmapOf ==
  ASSUME NEW V \in SUBSET Value, NEW bm, bm = [k \in DOMAIN bm |-> bm[k]],
         \A k \in DOMAIN bm : k \in Key /\ Sound(bm[k], Chunk(V, k)) /\ Chunk(V, k) # {},
         \A k \in Key : k \notin DOMAIN bm => Chunk(V, k) = {}
  PROVE  Represents(bm, V)
  BY DEF Represents

\* What makes a lazy bitmap.
LEMMA LazyBitmapOf ==
  ASSUME NEW V \in SUBSET Value, NEW bm, bm = [k \in DOMAIN bm |-> bm[k]],
         \A k \in DOMAIN bm : k \in Key /\ Lazy(bm[k], Chunk(V, k)) /\ Chunk(V, k) # {},
         \A k \in Key : k \notin DOMAIN bm => Chunk(V, k) = {}
  PROVE  RepresentsLazily(bm, V)
  BY DEF RepresentsLazily

\* What a bitmap is, container by container.
LEMMA BitmapHas ==
  ASSUME NEW bm, NEW V, Represents(bm, V)
  PROVE  /\ V \in SUBSET Value /\ V = Values(bm) /\ bm = [k \in DOMAIN bm |-> bm[k]]
         /\ \A k \in DOMAIN bm : k \in Key /\ Sound(bm[k], Chunk(V, k)) /\ Chunk(V, k) # {}
         /\ \A k \in Key : k \notin DOMAIN bm => Chunk(V, k) = {}
<1>1. Values(bm) = V
  BY BitmapIsLazy, BitmapHasValues
<1> QED
  BY <1>1 DEF Represents

\* What a lazy bitmap is, container by container.
LEMMA LazyBitmapHas ==
  ASSUME NEW bm, NEW V, RepresentsLazily(bm, V)
  PROVE  /\ V \in SUBSET Value /\ V = Values(bm) /\ bm = [k \in DOMAIN bm |-> bm[k]]
         /\ \A k \in DOMAIN bm : k \in Key /\ Lazy(bm[k], Chunk(V, k)) /\ Chunk(V, k) # {}
         /\ \A k \in Key : k \notin DOMAIN bm => Chunk(V, k) = {}
<1>1. Values(bm) = V
  BY BitmapHasValues
<1> QED
  BY <1>1 DEF RepresentsLazily

\* No containers, no values.
LEMMA EmptyBitmap == Represents(Empty, {})
<1>1. DOMAIN Empty = {} /\ Empty = [k \in DOMAIN Empty |-> Empty[k]]
  BY DEF Empty
<1>2. \A k : Chunk({}, k) = {}
  BY DEF Chunk
<1> QED
  BY <1>1, <1>2, BitmapOf

\* Containers without values are left out.
LEMMA NonemptyBitmap ==
  ASSUME NEW V \in SUBSET Value, NEW K \in SUBSET Key, NEW bm, bm = [k \in K |-> bm[k]],
         \A k \in K : Sound(bm[k], Chunk(V, k)),
         \A k \in Key \ K : Chunk(V, k) = {}
  PROVE  Represents(Nonempty(bm), V)
<1>1. DOMAIN bm = K
  BY Zenon
<1> DEFINE N == {k \in DOMAIN bm : container_nonzero_cardinality(bm[k])}
<1>2. Nonempty(bm) = [k \in N |-> bm[k]]
  BY DEF Nonempty, Restrict
<1>3. \A k \in K : container_nonzero_cardinality(bm[k]) <=> Chunk(V, k) # {}
  BY SoundIsLazy, LazyHasValues
<1>4. \A k : k \in N <=> k \in K /\ Chunk(V, k) # {}
  BY <1>1, <1>3
<1> HIDE DEF N
<1>5. DOMAIN Nonempty(bm) = N /\ Nonempty(bm) = [k \in DOMAIN Nonempty(bm) |-> Nonempty(bm)[k]] /\ \A k \in N : Nonempty(bm)[k] = bm[k]
  BY <1>2
<1> QED
  BY <1>4, <1>5, BitmapOf

\* Lazy containers without values are left out, too.
LEMMA NonemptyLazyBitmap ==
  ASSUME NEW V \in SUBSET Value, NEW K \in SUBSET Key, NEW bm, bm = [k \in K |-> bm[k]],
         \A k \in K : Lazy(bm[k], Chunk(V, k)),
         \A k \in Key \ K : Chunk(V, k) = {}
  PROVE  RepresentsLazily(Nonempty(bm), V)
<1>1. DOMAIN bm = K
  BY Zenon
<1> DEFINE N == {k \in DOMAIN bm : container_nonzero_cardinality(bm[k])}
<1>2. Nonempty(bm) = [k \in N |-> bm[k]]
  BY DEF Nonempty, Restrict
<1>3. \A k \in K : container_nonzero_cardinality(bm[k]) <=> Chunk(V, k) # {}
  BY LazyHasValues
<1>4. \A k : k \in N <=> k \in K /\ Chunk(V, k) # {}
  BY <1>1, <1>3
<1> HIDE DEF N
<1>5. DOMAIN Nonempty(bm) = N /\ Nonempty(bm) = [k \in DOMAIN Nonempty(bm) |-> Nonempty(bm)[k]] /\ \A k \in N : Nonempty(bm)[k] = bm[k]
  BY <1>2
<1> QED
  BY <1>4, <1>5, LazyBitmapOf

-----------------------------------------------------------------------------
(* One value.                                                               *)

\* Only the chunk of one key differs.
SameBut(V, W, k) == W \in SUBSET Value /\ \A j \in Key : j # k => Chunk(W, j) = Chunk(V, j)

\* A value is in the chunk of its high half only.
LEMMA ChunksOfOne ==
  ASSUME NEW V \in SUBSET Value, NEW v \in Value
  PROVE  /\ SameBut(V, V \cup {v}, high(v))
         /\ SameBut(V, V \ {v}, high(v))
         /\ Chunk(V \cup {v}, high(v)) = Chunk(V, high(v)) \cup {low(v)}
         /\ Chunk(V \ {v}, high(v)) = Chunk(V, high(v)) \ {low(v)}
         /\ v \in V <=> low(v) \in Chunk(V, high(v))
<1>1. high(v) \in Key /\ low(v) \in Low /\ v = high(v) * ChunkSize + low(v)
  BY Halves
<1>2. \A k \in Key : \A x \in Low : high(k * ChunkSize + x) = k /\ low(k * ChunkSize + x) = x
  BY Whole
<1>3. \A k \in Key : \A x \in Low : k * ChunkSize + x = v <=> k = high(v) /\ x = low(v)
  <2> TAKE k \in Key
  <2> TAKE x \in Low
  <2>1. k * ChunkSize + x = v => high(v) = k /\ low(v) = x
    BY <1>2
  <2>2. k = high(v) /\ x = low(v) => k * ChunkSize + x = v
    BY <1>1
  <2> QED
    BY <2>1, <2>2
<1>4. \A k \in Key : \A x \in Low :
         /\ x \in Chunk(V \cup {v}, k) <=> x \in Chunk(V, k) \/ (k = high(v) /\ x = low(v))
         /\ x \in Chunk(V \ {v}, k) <=> x \in Chunk(V, k) /\ ~ (k = high(v) /\ x = low(v))
  BY <1>3 DEF Chunk
<1>5. \A W, k : Chunk(W, k) \subseteq Low
  BY DEF Chunk
<1>6. \A k \in Key : k # high(v) => Chunk(V \cup {v}, k) = Chunk(V, k) /\ Chunk(V \ {v}, k) = Chunk(V, k)
  BY <1>4, <1>5
<1>7. Chunk(V \cup {v}, high(v)) = Chunk(V, high(v)) \cup {low(v)} /\ Chunk(V \ {v}, high(v)) = Chunk(V, high(v)) \ {low(v)}
  BY <1>1, <1>4, <1>5
<1>8. v \in V <=> low(v) \in Chunk(V, high(v))
  BY <1>1 DEF Chunk
<1> QED
  BY <1>6, <1>7, <1>8 DEF SameBut

\* An empty array stands for no values.
LEMMA NoValues == Sound(Array({}), {})
<1>1. {} \in SUBSET Low /\ Cardinality({}) <= DEFAULT_MAX_SIZE
  BY FS_EmptySet, ContainerConstants
<1> QED
  BY <1>1, ArrayOf

\* The cardinality of a sound container is that of its set.
LEMMA SoundCount ==
  ASSUME NEW c, NEW S, Sound(c, S)
  PROVE  container_get_cardinality(c) = Cardinality(S) /\ Cardinality(S) \in Nat /\ (Cardinality(S) = 0 <=> S = {}) /\ S \in SUBSET Low
<1>1. Exact(c, S) /\ S \in SUBSET Low
  BY SoundIsLazy
<1> QED
  BY <1>1, CountedIsRight, CountOfSet

\* One container changed, or taken out because it became empty.
LEMMA OneChanged ==
  ASSUME NEW bm, NEW V, Represents(bm, V), NEW W, NEW k \in Key, SameBut(V, W, k), NEW c, Sound(c, Chunk(W, k)), Chunk(W, k) # {}
  PROVE  Represents(With(bm, k, c), W)
<1>0. W \in SUBSET Value /\ \A j \in Key : j # k => Chunk(W, j) = Chunk(V, j)
  BY DEF SameBut
<1>1. /\ \A j \in DOMAIN bm : j \in Key /\ Sound(bm[j], Chunk(V, j)) /\ Chunk(V, j) # {}
      /\ \A j \in Key : j \notin DOMAIN bm => Chunk(V, j) = {}
  BY BitmapHas
<1> DEFINE a == With(bm, k, c)
<1>2. DOMAIN a = DOMAIN bm \cup {k} /\ a = [x \in DOMAIN a |-> a[x]] /\ a[k] = c /\ \A x \in DOMAIN bm : x # k => a[x] = bm[x]
  BY DEF With
<1> HIDE DEF a
<1>3. \A j \in DOMAIN a : j \in Key /\ Sound(a[j], Chunk(W, j)) /\ Chunk(W, j) # {}
  BY <1>0, <1>1, <1>2
<1>4. \A j \in Key : j \notin DOMAIN a => Chunk(W, j) = {}
  BY <1>0, <1>1, <1>2
<1>5. Represents(a, W)
  BY <1>0, <1>2, <1>3, <1>4, BitmapOf
<1> QED
  BY <1>5 DEF a

\* A container whose values are all gone is taken out.
LEMMA OneEmptied ==
  ASSUME NEW bm, NEW V, Represents(bm, V), NEW W, NEW k \in Key, SameBut(V, W, k), Chunk(W, k) = {}
  PROVE  Represents(Without(bm, k), W)
<1>0. W \in SUBSET Value /\ \A j \in Key : j # k => Chunk(W, j) = Chunk(V, j)
  BY DEF SameBut
<1>1. /\ \A j \in DOMAIN bm : j \in Key /\ Sound(bm[j], Chunk(V, j)) /\ Chunk(V, j) # {}
      /\ \A j \in Key : j \notin DOMAIN bm => Chunk(V, j) = {}
  BY BitmapHas
<1> DEFINE a == Without(bm, k)
<1>2. DOMAIN a = DOMAIN bm \ {k} /\ a = [x \in DOMAIN a |-> a[x]] /\ \A x \in DOMAIN bm : x # k => a[x] = bm[x]
  BY DEF Without, Restrict
<1> HIDE DEF a
<1>3. \A j \in DOMAIN a : j \in Key /\ Sound(a[j], Chunk(W, j)) /\ Chunk(W, j) # {}
  BY <1>0, <1>1, <1>2
<1>4. \A j \in Key : j \notin DOMAIN a => Chunk(W, j) = {}
  BY <1>0, <1>1, <1>2
<1>5. Represents(a, W)
  BY <1>0, <1>2, <1>3, <1>4, BitmapOf
<1> QED
  BY <1>5 DEF a

\* The container of a key that may be missing.
LEMMA ContainerAt ==
  ASSUME NEW bm, NEW V, Represents(bm, V), NEW k \in Key
  PROVE  Sound(IF k \in DOMAIN bm THEN bm[k] ELSE Array({}), Chunk(V, k)) /\ Chunk(V, k) \in SUBSET Low
<1>1. CASE k \in DOMAIN bm
  BY <1>1, BitmapHas, SoundCount
<1>2. CASE k \notin DOMAIN bm
  BY <1>2, BitmapHas, NoValues
<1> QED
  BY <1>1, <1>2

\* roaring_bitmap_add adds the value.
THEOREM ValueAdded ==
  ASSUME NEW bm, NEW V, Represents(bm, V), NEW v \in Value
  PROVE  Represents(roaring_bitmap_add(bm, v), V \cup {v})
<1> DEFINE k == high(v)
           c == IF k \in DOMAIN bm THEN bm[k] ELSE Array({})
<1>1. /\ V \in SUBSET Value /\ k \in Key /\ low(v) \in Low /\ SameBut(V, V \cup {v}, k)
      /\ Chunk(V \cup {v}, k) = Chunk(V, k) \cup {low(v)}
  <2>1. V \in SUBSET Value /\ k \in Key /\ low(v) \in Low
    BY BitmapHas, Halves
  <2> HIDE DEF k
  <2>2. k = high(v)
    BY DEF k
  <2> QED
    BY <2>1, <2>2, ChunksOfOne
<1>2. Sound(c, Chunk(V, k))
  BY <1>1, ContainerAt
<1>3. Sound(container_add(c, low(v)), Chunk(V \cup {v}, k)) /\ Chunk(V \cup {v}, k) # {}
  <2> HIDE DEF c, k
  <2> QED
    BY <1>1, <1>2, Added
<1>4. roaring_bitmap_add(bm, v) = With(bm, k, container_add(c, low(v)))
  BY DEF roaring_bitmap_add
<1> HIDE DEF c, k
<1> QED
  BY <1>1, <1>3, <1>4, OneChanged

\* A value that is there already changes nothing.
LEMMA AddedAgain ==
  ASSUME NEW c, NEW S, Sound(c, S), NEW x \in S
  PROVE  container_add(c, x) = c
<1>1. CASE IsArray(c, S)
  BY <1>1, ArrayHas DEF container_add, array_container_try_add
<1>2. CASE IsBitset(c, S)
  <2>1. c.type = "bitset" /\ c.values = S /\ c.cardinality = Cardinality(S) /\ c = Bitset(S, Cardinality(S)) /\ Cardinality(S) \in Nat
    BY <1>2, BitsetHas
  <2>2. container_add(c, x) = Bitset(S \cup {x}, Cardinality(S) + 0)
    BY <2>1 DEF container_add, bitset_container_set
  <2>3. S \cup {x} = S /\ Cardinality(S) + 0 = Cardinality(S)
    BY <2>1
  <2> QED
    BY <2>1, <2>2, <2>3
<1>3. CASE IsRun(c, S)
  BY <1>3, RunHas DEF container_add, run_container_add
<1> QED
  BY <1>1, <1>2, <1>3 DEF Sound, Exact

\* roaring_bitmap_add_checked also tells whether the value was missing.
THEOREM AddingIsAnswered ==
  ASSUME NEW bm, NEW V, Represents(bm, V), NEW v \in Value
  PROVE  /\ roaring_bitmap_add_checked(bm, v).bm = roaring_bitmap_add(bm, v)
         /\ roaring_bitmap_add_checked(bm, v).result <=> v \notin V
         /\ roaring_bitmap_add_checked(bm, v).result \in BOOLEAN
<1> DEFINE k == high(v)
           after == roaring_bitmap_add(bm, v)
           changed == \/ k \notin DOMAIN bm
                      \/ bm[k].type # after[k].type
                      \/ container_get_cardinality(bm[k]) # container_get_cardinality(after[k])
<1>1. roaring_bitmap_add_checked(bm, v) = [bm |-> after, result |-> changed]
  BY DEF roaring_bitmap_add_checked
<1>2. /\ V \in SUBSET Value /\ k \in Key /\ low(v) \in Low
      /\ Chunk(V \cup {v}, k) = Chunk(V, k) \cup {low(v)}
      /\ v \in V <=> low(v) \in Chunk(V, k)
  BY BitmapHas, Halves, ChunksOfOne
<1>3. DOMAIN bm \in SUBSET Key /\ (k \in DOMAIN bm => Sound(bm[k], Chunk(V, k))) /\ (k \notin DOMAIN bm => Chunk(V, k) = {})
  BY <1>2, BitmapHas
<1>4. CASE k \notin DOMAIN bm
  <2>1. v \notin V
    BY <1>2, <1>3, <1>4
  <2> QED
    BY <1>1, <1>4, <2>1
<1>5. CASE k \in DOMAIN bm /\ v \in V
  <2>1. container_add(bm[k], low(v)) = bm[k]
    BY <1>2, <1>3, <1>5, AddedAgain
  <2>2. after = With(bm, k, container_add(bm[k], low(v)))
    BY <1>5 DEF roaring_bitmap_add
  <2>3. after[k] = bm[k]
    BY ONLY <2>1, <2>2 DEF With
  <2>4. ~ changed
    BY <1>5, <2>3
  <2> QED
    BY <1>1, <1>5, <2>4
<1>6. CASE k \in DOMAIN bm /\ v \notin V
  <2>1. Represents(after, V \cup {v})
    BY ValueAdded
  <2>2. Chunk(V \cup {v}, k) # {}
    BY <1>2
  <2>3. Sound(after[k], Chunk(V \cup {v}, k))
    BY <1>2, <2>1, <2>2, BitmapHas
  <2>4. Chunk(V, k) \in SUBSET Low /\ container_get_cardinality(bm[k]) = Cardinality(Chunk(V, k)) /\ Cardinality(Chunk(V, k)) \in Nat
    BY <1>3, <1>6, SoundCount
  <2>5. container_get_cardinality(after[k]) = Cardinality(Chunk(V, k)) + 1
    BY <1>2, <1>6, <2>3, <2>4, SoundCount, CountOfOne
  <2>6. changed
    BY <2>4, <2>5
  <2> QED
    BY <1>1, <1>6, <2>6
<1> QED
  BY <1>4, <1>5, <1>6

\* roaring_bitmap_remove removes the value.
THEOREM ValueRemoved ==
  ASSUME NEW bm, NEW V, Represents(bm, V), NEW v \in Value
  PROVE  Represents(roaring_bitmap_remove(bm, v), V \ {v})
<1> DEFINE k == high(v)
           c == container_remove(bm[k], low(v))
<1>1. /\ V \in SUBSET Value /\ k \in Key /\ low(v) \in Low /\ SameBut(V, V \ {v}, k)
      /\ Chunk(V \ {v}, k) = Chunk(V, k) \ {low(v)}
      /\ v \in V <=> low(v) \in Chunk(V, k)
  <2>1. V \in SUBSET Value /\ k \in Key /\ low(v) \in Low
    BY BitmapHas, Halves
  <2> HIDE DEF k
  <2>2. k = high(v)
    BY DEF k
  <2> QED
    BY <2>1, <2>2, ChunksOfOne
<1>2. roaring_bitmap_remove(bm, v) =
         IF k \notin DOMAIN bm
         THEN bm
         ELSE IF container_get_cardinality(c) # 0 THEN With(bm, k, c) ELSE Without(bm, k)
  BY DEF roaring_bitmap_remove
<1>3. CASE k \notin DOMAIN bm
  <2>1. v \notin V
    BY <1>1, <1>3, BitmapHas
  <2>2. V \ {v} = V
    BY <2>1
  <2> QED
    BY <1>2, <1>3, <2>2
<1>4. CASE k \in DOMAIN bm
  <2>1. Sound(bm[k], Chunk(V, k))
    BY <1>4, BitmapHas
  <2>2. Sound(c, Chunk(V \ {v}, k))
    BY <1>1, <2>1, Removed
  <2>3. container_get_cardinality(c) # 0 <=> Chunk(V \ {v}, k) # {}
    BY <2>2, SoundCount
  <2> HIDE DEF c, k
  <2>4. CASE Chunk(V \ {v}, k) # {}
    BY <1>1, <1>2, <1>4, <2>2, <2>3, <2>4, OneChanged
  <2>5. CASE Chunk(V \ {v}, k) = {}
    BY <1>1, <1>2, <1>4, <2>2, <2>3, <2>5, OneEmptied
  <2> QED
    BY <2>4, <2>5
<1> QED
  BY <1>3, <1>4

\* roaring_bitmap_remove_checked also tells whether the value was there.
THEOREM RemovingIsAnswered ==
  ASSUME NEW bm, NEW V, Represents(bm, V), NEW v \in Value
  PROVE  /\ roaring_bitmap_remove_checked(bm, v).bm = roaring_bitmap_remove(bm, v)
         /\ roaring_bitmap_remove_checked(bm, v).result <=> v \in V
         /\ roaring_bitmap_remove_checked(bm, v).result \in BOOLEAN
<1> DEFINE k == high(v)
           after == roaring_bitmap_remove(bm, v)
           S == Chunk(V, k)
           T == Chunk(V \ {v}, k)
           changed == /\ k \in DOMAIN bm
                      /\ k \in DOMAIN after =>
                            container_get_cardinality(bm[k]) # container_get_cardinality(after[k])
<1>1. roaring_bitmap_remove_checked(bm, v) = [bm |-> after, result |-> changed]
  BY DEF roaring_bitmap_remove_checked
<1>2. V \in SUBSET Value /\ k \in Key /\ low(v) \in Low /\ T = S \ {low(v)} /\ (v \in V <=> low(v) \in S)
  BY BitmapHas, Halves, ChunksOfOne
<1>3. (k \in DOMAIN bm => Sound(bm[k], S) /\ S # {}) /\ (k \notin DOMAIN bm => S = {})
  BY <1>2, BitmapHas
<1>4. (k \in DOMAIN after => Sound(after[k], T)) /\ (k \notin DOMAIN after => T = {})
  BY <1>2, ValueRemoved, BitmapHas
<1> HIDE DEF after, S, T, k
<1>5. k \in DOMAIN bm => container_get_cardinality(bm[k]) = Cardinality(S) /\ S \in SUBSET Low
  BY <1>3, SoundCount
<1>6. k \in DOMAIN after => container_get_cardinality(after[k]) = Cardinality(T)
  BY <1>4, SoundCount
<1>7. k \in DOMAIN bm => Cardinality(T) = Cardinality(S) - (IF low(v) \in S THEN 1 ELSE 0) /\ Cardinality(S) \in Nat
  <2> SUFFICES ASSUME k \in DOMAIN bm PROVE Cardinality(T) = Cardinality(S) - (IF low(v) \in S THEN 1 ELSE 0) /\ Cardinality(S) \in Nat
    OBVIOUS
  <2>1. S \in SUBSET Low
    BY <1>5
  <2>2. Cardinality(S \ {low(v)}) = Cardinality(S) - (IF low(v) \in S THEN 1 ELSE 0) /\ Cardinality(S) \in Nat
    BY <1>2, <2>1, CountOfOne
  <2> QED
    BY <1>2, <2>2
<1>8. changed <=> v \in V
  <2>1. CASE k \notin DOMAIN bm
    BY <1>2, <1>3, <2>1
  <2>2. CASE k \in DOMAIN bm /\ v \in V
    BY <1>2, <1>5, <1>6, <1>7, <2>2
  <2>3. CASE k \in DOMAIN bm /\ v \notin V
    <3>1. T = S /\ k \in DOMAIN after
      BY <1>2, <1>3, <1>4, <2>3
    <3> QED
      BY <1>5, <1>6, <2>3, <3>1
  <2> QED
    BY <2>1, <2>2, <2>3
<1> QED
  BY <1>1, <1>8 DEF after

-----------------------------------------------------------------------------
(* Two bitmaps.                                                             *)

Fits(lazy, c, S) == IF lazy THEN Lazy(c, S) ELSE Sound(c, S)
Stands(lazy, bm, V) == IF lazy THEN RepresentsLazily(bm, V) ELSE Represents(bm, V)

\* What a bitmap is, lazy or not, container by container.
LEMMA StandsHas ==
  ASSUME NEW lazy \in BOOLEAN, NEW bm, NEW V, Stands(lazy, bm, V)
  PROVE  /\ V \in SUBSET Value /\ bm = [k \in DOMAIN bm |-> bm[k]]
         /\ \A k \in DOMAIN bm : k \in Key /\ Fits(lazy, bm[k], Chunk(V, k)) /\ Chunk(V, k) # {}
         /\ \A k \in Key : k \notin DOMAIN bm => Chunk(V, k) = {}
<1>1. CASE lazy
  BY <1>1, LazyBitmapHas DEF Stands, Fits
<1>2. CASE ~ lazy
  BY <1>2, BitmapHas DEF Stands, Fits
<1> QED
  BY <1>1, <1>2

\* A container that fits a set stands lazily for it.
LEMMA FitsLazily ==
  ASSUME NEW lazy \in BOOLEAN, NEW c, NEW S, Fits(lazy, c, S)
  PROVE  Lazy(c, S)
  BY SoundIsLazy DEF Fits

\* Containers at some keys that fit the set, which has no value at another key.
Covers(lazy, K, bm, U) ==
    /\ U \in SUBSET Value
    /\ K \in SUBSET Key
    /\ bm = [k \in K |-> bm[k]]
    /\ \A k \in K : Fits(lazy, bm[k], Chunk(U, k))
    /\ \A k \in Key \ K : Chunk(U, k) = {}

\* Containers without values are left out, lazy or not.
LEMMA NonemptyStands ==
  ASSUME NEW lazy \in BOOLEAN, NEW K, NEW bm, NEW U, Covers(lazy, K, bm, U)
  PROVE  Stands(lazy, Nonempty(bm), U)
<1>1. CASE lazy
  BY <1>1, NonemptyLazyBitmap DEF Stands, Fits, Covers
<1>2. CASE ~ lazy
  BY <1>2, NonemptyBitmap DEF Stands, Fits, Covers
<1> QED
  BY <1>1, <1>2

\* Nothing is left out when every container has a value.
LEMMA CoversStands ==
  ASSUME NEW lazy \in BOOLEAN, NEW K, NEW bm, NEW U, Covers(lazy, K, bm, U), \A k \in K : Chunk(U, k) # {}
  PROVE  Stands(lazy, bm, U)
<1>1. DOMAIN bm = K /\ bm = [k \in DOMAIN bm |-> bm[k]]
  BY Zenon DEF Covers
<1>2. CASE lazy
  BY <1>1, <1>2, LazyBitmapOf DEF Stands, Fits, Covers
<1>3. CASE ~ lazy
  BY <1>1, <1>3, BitmapOf DEF Stands, Fits, Covers
<1> QED
  BY <1>2, <1>3

\* Two bitmaps are merged: the containers at common keys are made from both, the others are
\* kept.
LEMMA MergeCovers ==
  ASSUME NEW lazy \in BOOLEAN, NEW bm1, NEW V, Stands(lazy, bm1, V), NEW bm2, NEW W, Stands(lazy, bm2, W),
         NEW U \in SUBSET Value, NEW both, DOMAIN both = CommonKeys(bm1, bm2),
         \A k \in DOMAIN both : Fits(lazy, both[k], Chunk(U, k)),
         \A k \in Key : Chunk(W, k) = {} => Chunk(U, k) = Chunk(V, k),
         \A k \in Key : Chunk(V, k) = {} => Chunk(U, k) = Chunk(W, k)
  PROVE  Covers(lazy, DOMAIN bm1 \cup DOMAIN bm2, Merge(bm1, bm2, both), U)
<1> DEFINE K1 == DOMAIN bm1
           K2 == DOMAIN bm2
           B == DOMAIN both
           item(k) == CASE k \in B -> both[k] [] k \in K1 \ B -> bm1[k] [] k \in K2 \ K1 -> bm2[k]
           m == [k \in K1 \cup K2 |-> item(k)]
<1>1. /\ \A k \in K1 : k \in Key /\ Fits(lazy, bm1[k], Chunk(V, k))
      /\ \A k \in Key : k \notin K1 => Chunk(V, k) = {}
  BY StandsHas
<1>2. /\ \A k \in K2 : k \in Key /\ Fits(lazy, bm2[k], Chunk(W, k))
      /\ \A k \in Key : k \notin K2 => Chunk(W, k) = {}
  BY StandsHas
<1>3. B = K1 \cap K2
  BY DEF CommonKeys
<1>4. /\ \A k \in B : item(k) = both[k]
      /\ \A k \in K1 \ K2 : item(k) = bm1[k]
      /\ \A k \in K2 \ K1 : item(k) = bm2[k]
  BY <1>3
<1>5. m = [k \in K1 \cup K2 |-> m[k]] /\ \A k \in K1 \cup K2 : m[k] = item(k)
  OBVIOUS
<1>6. Merge(bm1, bm2, both) = m
  BY DEF Merge
<1> HIDE DEF m, item, B, K1, K2
<1>7. \A k \in K1 \cup K2 : Fits(lazy, m[k], Chunk(U, k))
  <2>1. ASSUME NEW k \in B PROVE Fits(lazy, m[k], Chunk(U, k))
    BY <1>3, <1>4, <1>5, <2>1 DEF B
  <2>2. ASSUME NEW k \in K1 \ K2 PROVE Fits(lazy, m[k], Chunk(U, k))
    BY <1>1, <1>2, <1>4, <1>5, <2>2
  <2>3. ASSUME NEW k \in K2 \ K1 PROVE Fits(lazy, m[k], Chunk(U, k))
    BY <1>1, <1>2, <1>4, <1>5, <2>3
  <2> QED
    BY <1>3, <2>1, <2>2, <2>3
<1>8. K1 \cup K2 \in SUBSET Key
  BY <1>1, <1>2
<1>9. \A k \in Key \ (K1 \cup K2) : Chunk(U, k) = {}
  BY <1>1, <1>2
<1>10. Covers(lazy, K1 \cup K2, m, U)
  BY <1>5, <1>7, <1>8, <1>9, Zenon DEF Covers
<1> QED
  BY <1>6, <1>10 DEF K1, K2

\* The containers of the keys of both, put together.
LEMMA CommonKeysHave ==
  ASSUME NEW lazy \in BOOLEAN, NEW bm1, NEW V, Stands(lazy, bm1, V), NEW bm2, NEW W, Stands(lazy, bm2, W)
  PROVE  \A k \in CommonKeys(bm1, bm2) :
            /\ k \in Key /\ Fits(lazy, bm1[k], Chunk(V, k)) /\ Fits(lazy, bm2[k], Chunk(W, k))
            /\ Chunk(V, k) # {} /\ Chunk(W, k) # {}
<1>1. \A k \in DOMAIN bm1 : k \in Key /\ Fits(lazy, bm1[k], Chunk(V, k)) /\ Chunk(V, k) # {}
  BY StandsHas
<1>2. \A k \in DOMAIN bm2 : k \in Key /\ Fits(lazy, bm2[k], Chunk(W, k)) /\ Chunk(W, k) # {}
  BY StandsHas
<1> QED
  BY <1>1, <1>2 DEF CommonKeys

\* Sets made of two sets of values.
LEMMA SetsOfTwo ==
  ASSUME NEW V \in SUBSET Value, NEW W \in SUBSET Value
  PROVE  V \cup W \in SUBSET Value /\ V \cap W \in SUBSET Value /\ V \ W \in SUBSET Value /\ SymDiff(V, W) \in SUBSET Value
  BY DEF SymDiff

\* Nothing differs from an empty set but the values.
LEMMA SymDiffOfNone == \A S : SymDiff(S, {}) = S /\ SymDiff({}, S) = S
  BY DEF SymDiff

\* Any merge with a container operation that unites sets.
LEMMA MergedUnion ==
  ASSUME NEW lazy \in BOOLEAN, NEW bm1, NEW V, Stands(lazy, bm1, V), NEW bm2, NEW W, Stands(lazy, bm2, W),
         NEW both, DOMAIN both = CommonKeys(bm1, bm2),
         \A k \in DOMAIN both : Fits(lazy, both[k], Chunk(V, k) \cup Chunk(W, k))
  PROVE  Stands(lazy, Merge(bm1, bm2, both), V \cup W)
<1>1. V \cup W \in SUBSET Value
  BY StandsHas, SetsOfTwo
<1>2. \A k : Chunk(V \cup W, k) = Chunk(V, k) \cup Chunk(W, k)
  BY DEF Chunk, SymDiff
<1>3. \A k \in DOMAIN both : Fits(lazy, both[k], Chunk(V \cup W, k))
  BY <1>2
<1>4. Covers(lazy, DOMAIN bm1 \cup DOMAIN bm2, Merge(bm1, bm2, both), V \cup W)
  <2>1. /\ \A k \in Key : Chunk(W, k) = {} => Chunk(V \cup W, k) = Chunk(V, k)
        /\ \A k \in Key : Chunk(V, k) = {} => Chunk(V \cup W, k) = Chunk(W, k)
    BY <1>2
  <2> QED
    BY <1>1, <1>3, <2>1, MergeCovers
<1>5. \A k \in DOMAIN bm1 \cup DOMAIN bm2 : Chunk(V \cup W, k) # {}
  <2>1. \A k \in DOMAIN bm1 : Chunk(V, k) # {}
    BY StandsHas
  <2>2. \A k \in DOMAIN bm2 : Chunk(W, k) # {}
    BY StandsHas
  <2> QED
    BY <1>2, <2>1, <2>2
<1> QED
  BY <1>4, <1>5, CoversStands

\* Merged containers that differ make the symmetric difference.
LEMMA MergedDifference ==
  ASSUME NEW lazy \in BOOLEAN, NEW bm1, NEW V, Stands(lazy, bm1, V), NEW bm2, NEW W, Stands(lazy, bm2, W),
         NEW both, DOMAIN both = CommonKeys(bm1, bm2),
         \A k \in DOMAIN both : Fits(lazy, both[k], SymDiff(Chunk(V, k), Chunk(W, k)))
  PROVE  Stands(lazy, Nonempty(Merge(bm1, bm2, both)), SymDiff(V, W))
<1>1. SymDiff(V, W) \in SUBSET Value
  BY StandsHas, SetsOfTwo
<1>2. \A k : Chunk(SymDiff(V, W), k) = SymDiff(Chunk(V, k), Chunk(W, k))
  BY DEF Chunk, SymDiff
<1>3. \A k \in DOMAIN both : Fits(lazy, both[k], Chunk(SymDiff(V, W), k))
  BY <1>2
<1>4. Covers(lazy, DOMAIN bm1 \cup DOMAIN bm2, Merge(bm1, bm2, both), SymDiff(V, W))
  <2>1. /\ \A k \in Key : Chunk(W, k) = {} => Chunk(SymDiff(V, W), k) = Chunk(V, k)
        /\ \A k \in Key : Chunk(V, k) = {} => Chunk(SymDiff(V, W), k) = Chunk(W, k)
    BY <1>2, SymDiffOfNone
  <2> QED
    BY <1>1, <1>3, <2>1, MergeCovers
<1> QED
  BY <1>4, NonemptyStands

\* roaring_bitmap_and and roaring_bitmap_and_inplace intersect.
THEOREM BitmapsIntersect ==
  ASSUME NEW bm1, NEW V, Represents(bm1, V), NEW bm2, NEW W, Represents(bm2, W)
  PROVE  Represents(roaring_bitmap_and(bm1, bm2), V \cap W) /\ Represents(roaring_bitmap_and_inplace(bm1, bm2), V \cap W)
<1> DEFINE K == CommonKeys(bm1, bm2)
           a == [k \in K |-> container_and(bm1[k], bm2[k])]
           i == [k \in K |-> container_iand(bm1[k], bm2[k])]
<1>1. /\ V \in SUBSET Value /\ \A k \in DOMAIN bm1 : k \in Key /\ Sound(bm1[k], Chunk(V, k))
      /\ \A k \in Key : k \notin DOMAIN bm1 => Chunk(V, k) = {}
  BY BitmapHas
<1>2. /\ W \in SUBSET Value /\ \A k \in DOMAIN bm2 : k \in Key /\ Sound(bm2[k], Chunk(W, k))
      /\ \A k \in Key : k \notin DOMAIN bm2 => Chunk(W, k) = {}
  BY BitmapHas
<1>3. V \cap W \in SUBSET Value /\ \A k : Chunk(V \cap W, k) = Chunk(V, k) \cap Chunk(W, k)
  <2>1. \A k : Chunk(V \cap W, k) = Chunk(V, k) \cap Chunk(W, k)
    BY DEF Chunk, SymDiff
  <2>2. V \cap W \in SUBSET Value
    BY <1>1
  <2> QED
    BY <2>1, <2>2
<1>4. K \in SUBSET Key /\ \A k \in Key \ K : Chunk(V \cap W, k) = {}
  BY <1>1, <1>2, <1>3 DEF CommonKeys
<1>5. \A k \in K : Sound(container_and(bm1[k], bm2[k]), Chunk(V \cap W, k)) /\ Sound(container_iand(bm1[k], bm2[k]), Chunk(V \cap W, k))
  <2> TAKE k \in K
  <2>1. Sound(bm1[k], Chunk(V, k)) /\ Sound(bm2[k], Chunk(W, k))
    BY <1>1, <1>2 DEF CommonKeys
  <2>2. Chunk(V \cap W, k) = Chunk(V, k) \cap Chunk(W, k)
    BY <1>3
  <2>3. /\ Sound(container_and(bm1[k], bm2[k]), Chunk(V, k) \cap Chunk(W, k))
        /\ Sound(container_iand(bm1[k], bm2[k]), Chunk(V, k) \cap Chunk(W, k))
    BY <2>1, ContainersIntersect, Zenon
  <2> QED
    BY <2>2, <2>3
<1>6. /\ a = [k \in K |-> a[k]] /\ \A k \in K : Sound(a[k], Chunk(V \cap W, k))
      /\ i = [k \in K |-> i[k]] /\ \A k \in K : Sound(i[k], Chunk(V \cap W, k))
  BY <1>5
<1>7. roaring_bitmap_and(bm1, bm2) = Nonempty(a) /\ roaring_bitmap_and_inplace(bm1, bm2) = Nonempty(i)
  BY DEF roaring_bitmap_and, roaring_bitmap_and_inplace
<1> HIDE DEF a, i, K
<1>8. Represents(Nonempty(a), V \cap W)
  BY <1>3, <1>4, <1>6, NonemptyBitmap
<1>9. Represents(Nonempty(i), V \cap W)
  BY <1>3, <1>4, <1>6, NonemptyBitmap
<1> QED
  BY <1>7, <1>8, <1>9

\* roaring_bitmap_or and roaring_bitmap_or_inplace unite.
THEOREM BitmapsUnite ==
  ASSUME NEW bm1, NEW V, Represents(bm1, V), NEW bm2, NEW W, Represents(bm2, W)
  PROVE  Represents(roaring_bitmap_or(bm1, bm2), V \cup W) /\ Represents(roaring_bitmap_or_inplace(bm1, bm2), V \cup W)
<1> DEFINE K == CommonKeys(bm1, bm2)
           or(c1, c2) == IF container_is_full(c1) THEN c1 ELSE container_ior(c1, c2)
           a == [k \in K |-> container_or(bm1[k], bm2[k])]
           i == [k \in K |-> or(bm1[k], bm2[k])]
<1>1. Stands(FALSE, bm1, V) /\ Stands(FALSE, bm2, W) /\ FALSE \in BOOLEAN
  BY DEF Stands
<1>2. \A k \in K : Sound(bm1[k], Chunk(V, k)) /\ Sound(bm2[k], Chunk(W, k)) /\ Chunk(V, k) # {}
  BY <1>1, CommonKeysHave DEF Fits
<1>3. ASSUME NEW k \in K
      PROVE  Sound(container_or(bm1[k], bm2[k]), Chunk(V, k) \cup Chunk(W, k)) /\ Sound(or(bm1[k], bm2[k]), Chunk(V, k) \cup Chunk(W, k))
  <2>1. /\ Exact(bm1[k], Chunk(V, k)) /\ Exact(bm2[k], Chunk(W, k)) /\ Lazy(bm1[k], Chunk(V, k))
        /\ Chunk(V, k) \in SUBSET Low /\ Chunk(W, k) \in SUBSET Low
    BY <1>2, SoundIsLazy
  <2>2. Sound(container_or(bm1[k], bm2[k]), Chunk(V, k) \cup Chunk(W, k)) /\ Sound(container_ior(bm1[k], bm2[k]), Chunk(V, k) \cup Chunk(W, k))
    BY <1>2, <2>1, ContainersUnite DEF Kept
  <2>3. container_is_full(bm1[k]) => Chunk(V, k) \cup Chunk(W, k) = Chunk(V, k)
    BY <2>1, FullHasAll
  <2> QED
    BY <1>2, <2>2, <2>3
<1>4. /\ DOMAIN a = K /\ \A k \in K : Fits(FALSE, a[k], Chunk(V, k) \cup Chunk(W, k))
      /\ DOMAIN i = K /\ \A k \in K : Fits(FALSE, i[k], Chunk(V, k) \cup Chunk(W, k))
  BY <1>3 DEF Fits
<1>5. roaring_bitmap_or(bm1, bm2) = Merge(bm1, bm2, a) /\ roaring_bitmap_or_inplace(bm1, bm2) = Merge(bm1, bm2, i)
  BY DEF roaring_bitmap_or, roaring_bitmap_or_inplace
<1> HIDE DEF a, i, or
<1>6. Stands(FALSE, Merge(bm1, bm2, a), V \cup W) /\ Stands(FALSE, Merge(bm1, bm2, i), V \cup W)
  BY <1>1, <1>4, MergedUnion
<1> QED
  BY <1>5, <1>6 DEF Stands

\* roaring_bitmap_xor and roaring_bitmap_xor_inplace have the symmetric difference.
THEOREM BitmapsDiffer ==
  ASSUME NEW bm1, NEW V, Represents(bm1, V), NEW bm2, NEW W, Represents(bm2, W)
  PROVE  Represents(roaring_bitmap_xor(bm1, bm2), SymDiff(V, W)) /\ Represents(roaring_bitmap_xor_inplace(bm1, bm2), SymDiff(V, W))
<1> DEFINE K == CommonKeys(bm1, bm2)
           a == [k \in K |-> container_xor(bm1[k], bm2[k])]
           i == [k \in K |-> container_ixor(bm1[k], bm2[k])]
<1>1. Stands(FALSE, bm1, V) /\ Stands(FALSE, bm2, W) /\ FALSE \in BOOLEAN
  BY DEF Stands
<1>2. \A k \in K : Sound(bm1[k], Chunk(V, k)) /\ Sound(bm2[k], Chunk(W, k)) /\ Chunk(V, k) # {}
  BY <1>1, CommonKeysHave DEF Fits
<1>3. ASSUME NEW k \in K
      PROVE  /\ Sound(container_xor(bm1[k], bm2[k]), SymDiff(Chunk(V, k), Chunk(W, k)))
             /\ Sound(container_ixor(bm1[k], bm2[k]), SymDiff(Chunk(V, k), Chunk(W, k)))
  BY <1>2, SoundIsLazy, ContainersDiffer
<1>4. /\ DOMAIN a = K /\ \A k \in K : Fits(FALSE, a[k], SymDiff(Chunk(V, k), Chunk(W, k)))
      /\ DOMAIN i = K /\ \A k \in K : Fits(FALSE, i[k], SymDiff(Chunk(V, k), Chunk(W, k)))
  BY <1>3 DEF Fits
<1>5. roaring_bitmap_xor(bm1, bm2) = Nonempty(Merge(bm1, bm2, a)) /\ roaring_bitmap_xor_inplace(bm1, bm2) = Nonempty(Merge(bm1, bm2, i))
  BY DEF roaring_bitmap_xor, roaring_bitmap_xor_inplace
<1> HIDE DEF a, i
<1>6. Stands(FALSE, Nonempty(Merge(bm1, bm2, a)), SymDiff(V, W)) /\ Stands(FALSE, Nonempty(Merge(bm1, bm2, i)), SymDiff(V, W))
  BY <1>1, <1>4, MergedDifference
<1> QED
  BY <1>5, <1>6 DEF Stands

\* roaring_bitmap_andnot and roaring_bitmap_andnot_inplace have the difference.
THEOREM BitmapsSubtract ==
  ASSUME NEW bm1, NEW V, Represents(bm1, V), NEW bm2, NEW W, Represents(bm2, W)
  PROVE  Represents(roaring_bitmap_andnot(bm1, bm2), V \ W) /\ Represents(roaring_bitmap_andnot_inplace(bm1, bm2), V \ W)
<1> DEFINE K == DOMAIN bm1
           a == [k \in K |-> IF k \in DOMAIN bm2 THEN container_andnot(bm1[k], bm2[k]) ELSE bm1[k]]
           i == [k \in K |-> IF k \in DOMAIN bm2 THEN container_iandnot(bm1[k], bm2[k]) ELSE bm1[k]]
<1>1. /\ V \in SUBSET Value /\ \A k \in DOMAIN bm1 : k \in Key /\ Sound(bm1[k], Chunk(V, k))
      /\ \A k \in Key : k \notin DOMAIN bm1 => Chunk(V, k) = {}
  BY BitmapHas
<1>2. /\ W \in SUBSET Value /\ \A k \in DOMAIN bm2 : k \in Key /\ Sound(bm2[k], Chunk(W, k))
      /\ \A k \in Key : k \notin DOMAIN bm2 => Chunk(W, k) = {}
  BY BitmapHas
<1>3. V \ W \in SUBSET Value /\ \A k : Chunk(V \ W, k) = Chunk(V, k) \ Chunk(W, k)
  <2>1. \A k : Chunk(V \ W, k) = Chunk(V, k) \ Chunk(W, k)
    BY DEF Chunk, SymDiff
  <2>2. V \ W \in SUBSET Value
    BY <1>1
  <2> QED
    BY <2>1, <2>2
<1>4. K \in SUBSET Key /\ \A k \in Key \ K : Chunk(V \ W, k) = {}
  BY <1>1, <1>3
<1>5. /\ \A k \in K : k \in DOMAIN bm2 => Sound(container_andnot(bm1[k], bm2[k]), Chunk(V \ W, k)) /\ Sound(container_iandnot(bm1[k], bm2[k]), Chunk(V \ W, k))
      /\ \A k \in K : k \notin DOMAIN bm2 => Sound(bm1[k], Chunk(V \ W, k))
  <2>1. ASSUME NEW k \in K, k \in DOMAIN bm2
        PROVE  Sound(container_andnot(bm1[k], bm2[k]), Chunk(V \ W, k)) /\ Sound(container_iandnot(bm1[k], bm2[k]), Chunk(V \ W, k))
    <3>1. Sound(bm1[k], Chunk(V, k)) /\ Sound(bm2[k], Chunk(W, k)) /\ Chunk(V \ W, k) = Chunk(V, k) \ Chunk(W, k)
      BY <1>1, <1>2, <1>3, <2>1
    <3>2. /\ Sound(container_andnot(bm1[k], bm2[k]), Chunk(V, k) \ Chunk(W, k))
          /\ Sound(container_iandnot(bm1[k], bm2[k]), Chunk(V, k) \ Chunk(W, k))
      BY <3>1, ContainersSubtract, Zenon
    <3> QED
      BY <3>1, <3>2
  <2>2. ASSUME NEW k \in K, k \notin DOMAIN bm2 PROVE Sound(bm1[k], Chunk(V \ W, k))
    <3>1. Chunk(W, k) = {} /\ Sound(bm1[k], Chunk(V, k)) /\ Chunk(V \ W, k) = Chunk(V, k) \ Chunk(W, k)
      BY <1>1, <1>2, <1>3, <2>2
    <3>2. Chunk(V, k) \ {} = Chunk(V, k)
      OBVIOUS
    <3> QED
      BY <3>1, <3>2
  <2> QED
    BY <2>1, <2>2
<1>6. /\ a = [k \in K |-> a[k]] /\ \A k \in K : Sound(a[k], Chunk(V \ W, k))
      /\ i = [k \in K |-> i[k]] /\ \A k \in K : Sound(i[k], Chunk(V \ W, k))
  BY <1>5
<1>7. roaring_bitmap_andnot(bm1, bm2) = Nonempty(a) /\ roaring_bitmap_andnot_inplace(bm1, bm2) = Nonempty(i)
  BY DEF roaring_bitmap_andnot, roaring_bitmap_andnot_inplace
<1> HIDE DEF a, i, K
<1>8. Represents(Nonempty(a), V \ W)
  BY <1>3, <1>4, <1>6, NonemptyBitmap
<1>9. Represents(Nonempty(i), V \ W)
  BY <1>3, <1>4, <1>6, NonemptyBitmap
<1> QED
  BY <1>7, <1>8, <1>9

-----------------------------------------------------------------------------
(* All containers of a bitmap.                                              *)

\* Every container is replaced by one with the same values.
LEMMA AllChanged ==
  ASSUME NEW bm, NEW V, RepresentsLazily(bm, V), NEW a, DOMAIN a = DOMAIN bm, a = [k \in DOMAIN bm |-> a[k]],
         \A k \in DOMAIN bm : Sound(a[k], Chunk(V, k))
  PROVE  Represents(a, V)
  BY DEF Represents, RepresentsLazily

\* roaring_bitmap_run_optimize keeps the values.
THEOREM RunsOptimized ==
  ASSUME NEW bm, NEW V, Represents(bm, V)
  PROVE  Represents(roaring_bitmap_run_optimize(bm), V)
<1> DEFINE a == [k \in DOMAIN bm |-> convert_run_optimize(bm[k])]
<1>1. \A k \in DOMAIN bm : Sound(convert_run_optimize(bm[k]), Chunk(V, k))
  BY BitmapHas, Optimized
<1>2. DOMAIN a = DOMAIN bm /\ a = [k \in DOMAIN bm |-> a[k]] /\ \A k \in DOMAIN bm : Sound(a[k], Chunk(V, k))
  BY <1>1
<1>3. roaring_bitmap_run_optimize(bm) = a
  BY DEF roaring_bitmap_run_optimize
<1> HIDE DEF a
<1> QED
  BY <1>2, <1>3, AllChanged, BitmapIsLazy

\* roaring_bitmap_remove_run_compression keeps the values.
THEOREM RunsRemoved ==
  ASSUME NEW bm, NEW V, Represents(bm, V)
  PROVE  Represents(roaring_bitmap_remove_run_compression(bm), V)
<1> DEFINE new(k) == IF bm[k].type = "run"
                     THEN convert_to_bitset_or_array_container(bm[k], run_container_cardinality(bm[k]))
                     ELSE bm[k]
           a == [k \in DOMAIN bm |-> new(k)]
<1>1. ASSUME NEW k \in DOMAIN bm PROVE Sound(new(k), Chunk(V, k))
  <2>1. Sound(bm[k], Chunk(V, k))
    BY BitmapHas
  <2>2. CASE bm[k].type = "run"
    <3>1. IsRun(bm[k], Chunk(V, k))
      BY <2>1, <2>2, SoundIs, ArrayHas, BitsetHas
    <3>2. run_container_cardinality(bm[k]) = Cardinality(Chunk(V, k))
      BY <3>1, RunHas
    <3> QED
      BY <2>2, <3>1, <3>2, RunsConverted
  <2>3. CASE bm[k].type # "run"
    BY <2>1, <2>3
  <2> QED
    BY <2>2, <2>3
<1>2. DOMAIN a = DOMAIN bm /\ a = [k \in DOMAIN bm |-> a[k]] /\ \A k \in DOMAIN bm : Sound(a[k], Chunk(V, k))
  BY <1>1
<1>3. roaring_bitmap_remove_run_compression(bm) = a
  BY DEF roaring_bitmap_remove_run_compression
<1> HIDE DEF a
<1> QED
  BY <1>2, <1>3, AllChanged, BitmapIsLazy

\* roaring_bitmap_repair_after_lazy keeps the values.
THEOREM BitmapRepaired ==
  ASSUME NEW bm, NEW V, RepresentsLazily(bm, V)
  PROVE  Represents(roaring_bitmap_repair_after_lazy(bm), V)
<1> DEFINE a == [k \in DOMAIN bm |-> container_repair_after_lazy(bm[k])]
<1>1. \A k \in DOMAIN bm : Sound(container_repair_after_lazy(bm[k]), Chunk(V, k))
  BY LazyBitmapHas, Repaired
<1>2. DOMAIN a = DOMAIN bm /\ a = [k \in DOMAIN bm |-> a[k]] /\ \A k \in DOMAIN bm : Sound(a[k], Chunk(V, k))
  BY <1>1
<1>3. roaring_bitmap_repair_after_lazy(bm) = a
  BY DEF roaring_bitmap_repair_after_lazy
<1> HIDE DEF a
<1> QED
  BY <1>2, <1>3, AllChanged

-----------------------------------------------------------------------------
(* Lazy operations.                                                         *)

\* Nothing is added to a full container.
LEMMA FullIsUnion ==
  ASSUME NEW c, NEW S, Lazy(c, S), container_is_full(c), NEW T \in SUBSET Low
  PROVE  Lazy(c, S \cup T)
<1>1. S \cup T = S
  BY FullHasAll
<1> QED
  BY <1>1

\* roaring_bitmap_lazy_or unites lazily.
LEMMA UnitedLazily ==
  ASSUME NEW bm1, NEW V, RepresentsLazily(bm1, V), NEW bm2, NEW W, RepresentsLazily(bm2, W)
  PROVE  RepresentsLazily(roaring_bitmap_lazy_or(bm1, bm2), V \cup W)
<1> DEFINE K == CommonKeys(bm1, bm2)
           or(c1, c2) == container_lazy_or(c1, c2)
           a == [k \in K |-> or(bm1[k], bm2[k])]
<1>1. Stands(TRUE, bm1, V) /\ Stands(TRUE, bm2, W) /\ TRUE \in BOOLEAN
  BY DEF Stands
<1>2. \A k \in K : Lazy(bm1[k], Chunk(V, k)) /\ Lazy(bm2[k], Chunk(W, k)) /\ Chunk(V, k) # {}
  BY <1>1, CommonKeysHave DEF Fits
<1>3. ASSUME NEW k \in K PROVE Lazy(or(bm1[k], bm2[k]), Chunk(V, k) \cup Chunk(W, k))
  <2> DEFINE c1 == bm1[k]
             c2 == bm2[k]
             S == Chunk(V, k)
             T == Chunk(W, k)
  <2>1. Lazy(c1, S) /\ Lazy(c2, T) /\ S # {} /\ T \cup S = S \cup T
    BY <1>2
  <2> HIDE DEF c1, c2, S, T
  <2>2. T \in SUBSET Low
    BY <2>1, LazyHasValues
  <2>3. Lazy(or(c1, c2), S \cup T)
    BY <2>1, ContainersUniteLazily
  <2> QED
    BY <2>3 DEF c1, c2, S, T
<1>4. DOMAIN a = K /\ \A k \in K : Fits(TRUE, a[k], Chunk(V, k) \cup Chunk(W, k))
  BY <1>3 DEF Fits
<1>5. roaring_bitmap_lazy_or(bm1, bm2) = Merge(bm1, bm2, a)
  BY DEF roaring_bitmap_lazy_or
<1> HIDE DEF a, or
<1>6. Stands(TRUE, Merge(bm1, bm2, a), V \cup W)
  BY <1>1, <1>4, MergedUnion
<1> QED
  BY <1>5, <1>6 DEF Stands

\* roaring_bitmap_lazy_or_inplace unites lazily.
LEMMA UnitedLazilyInPlace ==
  ASSUME NEW bm1, NEW V, RepresentsLazily(bm1, V), NEW bm2, NEW W, RepresentsLazily(bm2, W)
  PROVE  RepresentsLazily(roaring_bitmap_lazy_or_inplace(bm1, bm2), V \cup W)
<1> DEFINE K == CommonKeys(bm1, bm2)
           or(c1, c2) == IF container_is_full(c1) THEN c1 ELSE container_lazy_ior(c1, c2)
           a == [k \in K |-> or(bm1[k], bm2[k])]
<1>1. Stands(TRUE, bm1, V) /\ Stands(TRUE, bm2, W) /\ TRUE \in BOOLEAN
  BY DEF Stands
<1>2. \A k \in K : Lazy(bm1[k], Chunk(V, k)) /\ Lazy(bm2[k], Chunk(W, k)) /\ Chunk(V, k) # {}
  BY <1>1, CommonKeysHave DEF Fits
<1>3. ASSUME NEW k \in K PROVE Lazy(or(bm1[k], bm2[k]), Chunk(V, k) \cup Chunk(W, k))
  <2> DEFINE c1 == bm1[k]
             c2 == bm2[k]
             S == Chunk(V, k)
             T == Chunk(W, k)
  <2>1. Lazy(c1, S) /\ Lazy(c2, T) /\ S # {} /\ T \cup S = S \cup T
    BY <1>2
  <2> HIDE DEF c1, c2, S, T
  <2>2. T \in SUBSET Low
    BY <2>1, LazyHasValues
  <2>3. Lazy(or(c1, c2), S \cup T)
    BY <2>1, <2>2, ContainersUniteLazily, FullIsUnion
  <2> QED
    BY <2>3 DEF c1, c2, S, T
<1>4. DOMAIN a = K /\ \A k \in K : Fits(TRUE, a[k], Chunk(V, k) \cup Chunk(W, k))
  BY <1>3 DEF Fits
<1>5. roaring_bitmap_lazy_or_inplace(bm1, bm2) = Merge(bm1, bm2, a)
  BY DEF roaring_bitmap_lazy_or_inplace
<1> HIDE DEF a, or
<1>6. Stands(TRUE, Merge(bm1, bm2, a), V \cup W)
  BY <1>1, <1>4, MergedUnion
<1> QED
  BY <1>5, <1>6 DEF Stands

\* lazy_or_from_lazy_inputs unites lazily.
LEMMA UnitedFromLazy ==
  ASSUME NEW bm1, NEW V, RepresentsLazily(bm1, V), NEW bm2, NEW W, RepresentsLazily(bm2, W)
  PROVE  RepresentsLazily(lazy_or_from_lazy_inputs(bm1, bm2), V \cup W)
<1> DEFINE K == CommonKeys(bm1, bm2)
           or(c1, c2) == IF c2.type = "bitset" /\ c1.type # "bitset"
                         THEN container_lazy_ior(c2, c1)
                         ELSE container_lazy_ior(c1, c2)
           a == [k \in K |-> or(bm1[k], bm2[k])]
<1>1. Stands(TRUE, bm1, V) /\ Stands(TRUE, bm2, W) /\ TRUE \in BOOLEAN
  BY DEF Stands
<1>2. \A k \in K : Lazy(bm1[k], Chunk(V, k)) /\ Lazy(bm2[k], Chunk(W, k)) /\ Chunk(V, k) # {}
  BY <1>1, CommonKeysHave DEF Fits
<1>3. ASSUME NEW k \in K PROVE Lazy(or(bm1[k], bm2[k]), Chunk(V, k) \cup Chunk(W, k))
  <2> DEFINE c1 == bm1[k]
             c2 == bm2[k]
             S == Chunk(V, k)
             T == Chunk(W, k)
  <2>1. Lazy(c1, S) /\ Lazy(c2, T) /\ S # {} /\ T \cup S = S \cup T
    BY <1>2
  <2> HIDE DEF c1, c2, S, T
  <2>2. T \in SUBSET Low
    BY <2>1, LazyHasValues
  <2>4. Lazy(container_lazy_ior(c1, c2), S \cup T)
    BY <2>1, ContainersUniteLazily
  <2>5. Lazy(container_lazy_ior(c2, c1), T \cup S)
    BY <2>1, ContainersUniteLazily
  <2>3. Lazy(or(c1, c2), S \cup T)
    BY <2>1, <2>4, <2>5
  <2> QED
    BY <2>3 DEF c1, c2, S, T
<1>4. DOMAIN a = K /\ \A k \in K : Fits(TRUE, a[k], Chunk(V, k) \cup Chunk(W, k))
  BY <1>3 DEF Fits
<1>5. lazy_or_from_lazy_inputs(bm1, bm2) = Merge(bm1, bm2, a)
  BY DEF lazy_or_from_lazy_inputs
<1> HIDE DEF a, or
<1>6. Stands(TRUE, Merge(bm1, bm2, a), V \cup W)
  BY <1>1, <1>4, MergedUnion
<1> QED
  BY <1>5, <1>6 DEF Stands

\* roaring_bitmap_lazy_xor has the symmetric difference lazily.
LEMMA DifferLazily ==
  ASSUME NEW bm1, NEW V, RepresentsLazily(bm1, V), NEW bm2, NEW W, RepresentsLazily(bm2, W)
  PROVE  RepresentsLazily(roaring_bitmap_lazy_xor(bm1, bm2), SymDiff(V, W))
<1> DEFINE K == CommonKeys(bm1, bm2)
           a == [k \in K |-> container_lazy_xor(bm1[k], bm2[k])]
<1>1. Stands(TRUE, bm1, V) /\ Stands(TRUE, bm2, W) /\ TRUE \in BOOLEAN
  BY BitmapIsLazy DEF Stands
<1>2. \A k \in K : Lazy(bm1[k], Chunk(V, k)) /\ Lazy(bm2[k], Chunk(W, k))
  BY <1>1, CommonKeysHave DEF Fits
<1>3. ASSUME NEW k \in K PROVE Lazy(container_lazy_xor(bm1[k], bm2[k]), SymDiff(Chunk(V, k), Chunk(W, k)))
  BY <1>2, ContainersDifferLazily
<1>4. DOMAIN a = K /\ \A k \in K : Fits(TRUE, a[k], SymDiff(Chunk(V, k), Chunk(W, k)))
  BY <1>3 DEF Fits
<1>5. roaring_bitmap_lazy_xor(bm1, bm2) = Nonempty(Merge(bm1, bm2, a))
  BY DEF roaring_bitmap_lazy_xor
<1> HIDE DEF a
<1>6. Stands(TRUE, Nonempty(Merge(bm1, bm2, a)), SymDiff(V, W))
  BY <1>1, <1>4, MergedDifference
<1> QED
  BY <1>5, <1>6 DEF Stands

\* roaring_bitmap_lazy_xor_inplace has it lazily.
LEMMA DifferLazilyInPlace ==
  ASSUME NEW bm1, NEW V, RepresentsLazily(bm1, V), NEW bm2, NEW W, Represents(bm2, W)
  PROVE  RepresentsLazily(roaring_bitmap_lazy_xor_inplace(bm1, bm2), SymDiff(V, W))
<1> DEFINE K == CommonKeys(bm1, bm2)
           a == [k \in K |-> container_lazy_ixor(bm1[k], bm2[k])]
<1>1. Stands(TRUE, bm1, V) /\ Stands(TRUE, bm2, W) /\ TRUE \in BOOLEAN
  BY BitmapIsLazy DEF Stands
<1>2. \A k \in K : Lazy(bm1[k], Chunk(V, k)) /\ Lazy(bm2[k], Chunk(W, k))
  BY <1>1, CommonKeysHave DEF Fits
<1>7. \A k \in K : Exact(bm2[k], Chunk(W, k))
  <2>1. \A k \in DOMAIN bm2 : Exact(bm2[k], Chunk(W, k))
    BY BitmapHas, SoundIsLazy
  <2> QED
    BY <2>1 DEF CommonKeys
<1>3. ASSUME NEW k \in K PROVE Lazy(container_lazy_ixor(bm1[k], bm2[k]), SymDiff(Chunk(V, k), Chunk(W, k)))
  BY <1>2, <1>7, ContainersDifferLazilyInPlace
<1>4. DOMAIN a = K /\ \A k \in K : Fits(TRUE, a[k], SymDiff(Chunk(V, k), Chunk(W, k)))
  BY <1>3 DEF Fits
<1>5. roaring_bitmap_lazy_xor_inplace(bm1, bm2) = Nonempty(Merge(bm1, bm2, a))
  BY DEF roaring_bitmap_lazy_xor_inplace
<1> HIDE DEF a
<1>6. Stands(TRUE, Nonempty(Merge(bm1, bm2, a)), SymDiff(V, W))
  BY <1>1, <1>4, MergedDifference
<1> QED
  BY <1>5, <1>6 DEF Stands

-----------------------------------------------------------------------------
(* Lists of values.                                                         *)

AddsFrom(start, seq) == Loop(roaring_bitmap_add, start, seq)

\* The states of the loop that adds values.
LEMMA LoopOfAdds ==
  ASSUME NEW start, NEW seq, Len(seq) \in Nat
  PROVE  \E f : /\ f[0] = start
                /\ \A n \in 1 .. Len(seq) : f[n] = roaring_bitmap_add(f[n - 1], seq[n])
                /\ AddsFrom(start, seq) = f[Len(seq)]
<1> DEFINE Next(a, n) == roaring_bitmap_add(a, seq[n])
           Is(f, m) == f = [n \in 0 .. m |-> IF n = 0 THEN start ELSE Next(f[n - 1], n)]
           T == {m \in Nat : \E f : Is(f, m)}
<1>1. 0 \in T
  <2> HIDE DEF Next
  <2>1. Is([n \in 0 .. 0 |-> start], 0)
    OBVIOUS
  <2> QED
    BY <2>1
<1>2. ASSUME NEW m \in T PROVE m + 1 \in T
  <2> HIDE DEF Next
  <2>1. PICK f : Is(f, m)
    BY <1>2
  <2> DEFINE g == [n \in 0 .. m + 1 |-> IF n \in 0 .. m THEN f[n] ELSE Next(f[m], m + 1)]
  <2>2. \A n \in 0 .. m : f[n] = IF n = 0 THEN start ELSE Next(f[n - 1], n)
    BY <2>1
  <2>3. ASSUME NEW n \in 0 .. m + 1 PROVE g[n] = IF n = 0 THEN start ELSE Next(g[n - 1], n)
    <3>1. CASE n = 0
      BY <2>2, <3>1
    <3>2. CASE n \in 1 .. m
      BY <2>2, <3>2
    <3>3. CASE n = m + 1
      BY <3>3
    <3> QED
      BY <3>1, <3>2, <3>3
  <2>4. g = [n \in 0 .. m + 1 |-> g[n]]
    OBVIOUS
  <2>5. Is(g, m + 1)
    <3> HIDE DEF g
    <3> QED
      BY <2>3, <2>4
  <2>6. m + 1 \in Nat
    OBVIOUS
  <2> HIDE DEF Is, g
  <2> QED
    BY <2>5, <2>6
<1>3. T = Nat
  <2> HIDE DEF T
  <2>1. T \in SUBSET Nat
    BY DEF T
  <2> QED
    BY <1>1, <1>2, <2>1, NumbersByInduction
<1> DEFINE h == CHOOSE f : Is(f, Len(seq))
<1>4. Is(h, Len(seq))
  <2>1. \E f : Is(f, Len(seq))
    BY <1>3
  <2> HIDE DEF Is
  <2> QED
    BY <2>1
<1>5. AddsFrom(start, seq) = h[Len(seq)]
  BY Zenon DEF AddsFrom, Loop
<1>6. h[0] = start /\ \A n \in 1 .. Len(seq) : h[n] = Next(h[n - 1], n)
  <2> HIDE DEF h, Next
  <2> QED
    BY <1>4
<1> HIDE DEF h
<1> QED
  BY <1>5, <1>6

RemovesFrom(start, seq) == Loop(roaring_bitmap_remove, start, seq)

\* The states of the loop that removes values.
LEMMA LoopOfRemoves ==
  ASSUME NEW start, NEW seq, Len(seq) \in Nat
  PROVE  \E f : /\ f[0] = start
                /\ \A n \in 1 .. Len(seq) : f[n] = roaring_bitmap_remove(f[n - 1], seq[n])
                /\ RemovesFrom(start, seq) = f[Len(seq)]
<1> DEFINE Next(a, n) == roaring_bitmap_remove(a, seq[n])
           Is(f, m) == f = [n \in 0 .. m |-> IF n = 0 THEN start ELSE Next(f[n - 1], n)]
           T == {m \in Nat : \E f : Is(f, m)}
<1>1. 0 \in T
  <2> HIDE DEF Next
  <2>1. Is([n \in 0 .. 0 |-> start], 0)
    OBVIOUS
  <2> QED
    BY <2>1
<1>2. ASSUME NEW m \in T PROVE m + 1 \in T
  <2> HIDE DEF Next
  <2>1. PICK f : Is(f, m)
    BY <1>2
  <2> DEFINE g == [n \in 0 .. m + 1 |-> IF n \in 0 .. m THEN f[n] ELSE Next(f[m], m + 1)]
  <2>2. \A n \in 0 .. m : f[n] = IF n = 0 THEN start ELSE Next(f[n - 1], n)
    BY <2>1
  <2>3. ASSUME NEW n \in 0 .. m + 1 PROVE g[n] = IF n = 0 THEN start ELSE Next(g[n - 1], n)
    <3>1. CASE n = 0
      BY <2>2, <3>1
    <3>2. CASE n \in 1 .. m
      BY <2>2, <3>2
    <3>3. CASE n = m + 1
      BY <3>3
    <3> QED
      BY <3>1, <3>2, <3>3
  <2>4. g = [n \in 0 .. m + 1 |-> g[n]]
    OBVIOUS
  <2>5. Is(g, m + 1)
    <3> HIDE DEF g
    <3> QED
      BY <2>3, <2>4
  <2>6. m + 1 \in Nat
    OBVIOUS
  <2> HIDE DEF Is, g
  <2> QED
    BY <2>5, <2>6
<1>3. T = Nat
  <2> HIDE DEF T
  <2>1. T \in SUBSET Nat
    BY DEF T
  <2> QED
    BY <1>1, <1>2, <2>1, NumbersByInduction
<1> DEFINE h == CHOOSE f : Is(f, Len(seq))
<1>4. Is(h, Len(seq))
  <2>1. \E f : Is(f, Len(seq))
    BY <1>3
  <2> HIDE DEF Is
  <2> QED
    BY <2>1
<1>5. RemovesFrom(start, seq) = h[Len(seq)]
  BY Zenon DEF RemovesFrom, Loop
<1>6. h[0] = start /\ \A n \in 1 .. Len(seq) : h[n] = Next(h[n - 1], n)
  <2> HIDE DEF h, Next
  <2> QED
    BY <1>4
<1> HIDE DEF h
<1> QED
  BY <1>5, <1>6

FirstOf(s, n) == {s[i] : i \in 1 .. n}

\* One element more.
LEMMA FirstOfMore ==
  ASSUME NEW s, NEW n \in Nat
  PROVE  FirstOf(s, n + 1) = FirstOf(s, n) \cup {s[n + 1]} /\ FirstOf(s, 0) = {}
<1>1. \A i : i \in 1 .. n + 1 <=> i \in 1 .. n \/ i = n + 1
  OBVIOUS
<1>2. 1 .. 0 = {}
  OBVIOUS
<1> QED
  BY <1>1, <1>2 DEF FirstOf

\* All elements.
LEMMA FirstOfAll ==
  ASSUME NEW X, NEW s \in Seq(X)
  PROVE  FirstOf(s, Len(s)) = ToSet(s) /\ Len(s) \in Nat /\ \A i \in 1 .. Len(s) : s[i] \in X
<1>1. DOMAIN s = 1 .. Len(s) /\ Len(s) \in Nat
  OBVIOUS
<1> QED
  BY <1>1 DEF FirstOf, ToSet

\* roaring_bitmap_add_many adds the values, whatever their order.
THEOREM ValuesAdded ==
  ASSUME NEW bm, NEW V, Represents(bm, V), NEW vals \in Seq(Value)
  PROVE  Represents(roaring_bitmap_add_many(bm, vals), V \cup ToSet(vals))
<1>1. Len(vals) \in Nat /\ (\A i \in 1 .. Len(vals) : vals[i] \in Value) /\ FirstOf(vals, Len(vals)) = ToSet(vals)
  BY FirstOfAll
<1>2. PICK f : /\ f[0] = bm
               /\ \A n \in 1 .. Len(vals) : f[n] = roaring_bitmap_add(f[n - 1], vals[n])
               /\ AddsFrom(bm, vals) = f[Len(vals)]
  BY <1>1, LoopOfAdds
<1> DEFINE At(n) == Represents(f[n], V \cup FirstOf(vals, n))
           T == {n \in Nat : n <= Len(vals) => At(n)}
<1>3. At(0)
  <2>1. V \cup FirstOf(vals, 0) = V
    BY FirstOfMore
  <2> QED
    BY <1>2, <2>1
<1>4. ASSUME NEW n \in Nat, n + 1 <= Len(vals), At(n) PROVE At(n + 1)
  <2>1. vals[n + 1] \in Value /\ f[n + 1] = roaring_bitmap_add(f[n], vals[n + 1])
    BY <1>1, <1>2, <1>4
  <2>2. Represents(roaring_bitmap_add(f[n], vals[n + 1]), (V \cup FirstOf(vals, n)) \cup {vals[n + 1]})
    BY <1>4, <2>1, ValueAdded
  <2>3. (V \cup FirstOf(vals, n)) \cup {vals[n + 1]} = V \cup FirstOf(vals, n + 1)
    BY <1>4, FirstOfMore
  <2> QED
    BY <2>1, <2>2, <2>3
<1>5. T = Nat
  <2> HIDE DEF At
  <2>1. 0 \in T
    BY <1>3
  <2>2. ASSUME NEW n \in T PROVE n + 1 \in T
    BY <1>1, <1>4, <2>2
  <2>3. T \in SUBSET Nat
    OBVIOUS
  <2> HIDE DEF T
  <2> QED
    BY <2>1, <2>2, <2>3, NumbersByInduction
<1>6. At(Len(vals))
  <2> HIDE DEF At
  <2> QED
    BY <1>1, <1>5
<1>7. roaring_bitmap_add_many(bm, vals) = AddsFrom(bm, vals)
  BY Zenon DEF roaring_bitmap_add_many, AddsFrom
<1> QED
  BY <1>1, <1>2, <1>6, <1>7

\* roaring_bitmap_remove_many removes the values, whatever their order.
THEOREM ValuesRemoved ==
  ASSUME NEW bm, NEW V, Represents(bm, V), NEW vals \in Seq(Value)
  PROVE  Represents(roaring_bitmap_remove_many(bm, vals), V \ ToSet(vals))
<1>1. Len(vals) \in Nat /\ (\A i \in 1 .. Len(vals) : vals[i] \in Value) /\ FirstOf(vals, Len(vals)) = ToSet(vals)
  BY FirstOfAll
<1>2. PICK f : /\ f[0] = bm
               /\ \A n \in 1 .. Len(vals) : f[n] = roaring_bitmap_remove(f[n - 1], vals[n])
               /\ RemovesFrom(bm, vals) = f[Len(vals)]
  BY <1>1, LoopOfRemoves
<1> DEFINE At(n) == Represents(f[n], V \ FirstOf(vals, n))
           T == {n \in Nat : n <= Len(vals) => At(n)}
<1>3. At(0)
  <2>1. V \ FirstOf(vals, 0) = V
    BY FirstOfMore
  <2> QED
    BY <1>2, <2>1
<1>4. ASSUME NEW n \in Nat, n + 1 <= Len(vals), At(n) PROVE At(n + 1)
  <2>1. vals[n + 1] \in Value /\ f[n + 1] = roaring_bitmap_remove(f[n], vals[n + 1])
    BY <1>1, <1>2, <1>4
  <2>2. Represents(roaring_bitmap_remove(f[n], vals[n + 1]), (V \ FirstOf(vals, n)) \ {vals[n + 1]})
    BY <1>4, <2>1, ValueRemoved
  <2>3. (V \ FirstOf(vals, n)) \ {vals[n + 1]} = V \ FirstOf(vals, n + 1)
    BY <1>4, FirstOfMore
  <2> QED
    BY <2>1, <2>2, <2>3
<1>5. T = Nat
  <2> HIDE DEF At
  <2>1. 0 \in T
    BY <1>3
  <2>2. ASSUME NEW n \in T PROVE n + 1 \in T
    BY <1>1, <1>4, <2>2
  <2>3. T \in SUBSET Nat
    OBVIOUS
  <2> HIDE DEF T
  <2> QED
    BY <2>1, <2>2, <2>3, NumbersByInduction
<1>6. At(Len(vals))
  <2> HIDE DEF At
  <2> QED
    BY <1>1, <1>5
<1>7. roaring_bitmap_remove_many(bm, vals) = RemovesFrom(bm, vals)
  BY Zenon DEF roaring_bitmap_remove_many, RemovesFrom
<1> QED
  BY <1>1, <1>2, <1>6, <1>7

-----------------------------------------------------------------------------
(* Symmetric differences of many bitmaps.                                   *)

DifferencesFrom(start, seq) == Loop(roaring_bitmap_lazy_xor_inplace, start, seq)

\* The states of the loop over the bitmaps of a list.
LEMMA LoopOfDifferences ==
  ASSUME NEW start, NEW seq, Len(seq) \in Nat
  PROVE  \E f : /\ f[0] = start
                /\ \A n \in 1 .. Len(seq) : f[n] = roaring_bitmap_lazy_xor_inplace(f[n - 1], seq[n])
                /\ DifferencesFrom(start, seq) = f[Len(seq)]
<1> DEFINE Next(a, n) == roaring_bitmap_lazy_xor_inplace(a, seq[n])
           Is(f, m) == f = [n \in 0 .. m |-> IF n = 0 THEN start ELSE Next(f[n - 1], n)]
           T == {m \in Nat : \E f : Is(f, m)}
<1>1. 0 \in T
  <2> HIDE DEF Next
  <2>1. Is([n \in 0 .. 0 |-> start], 0)
    OBVIOUS
  <2> QED
    BY <2>1
<1>2. ASSUME NEW m \in T PROVE m + 1 \in T
  <2> HIDE DEF Next
  <2>1. PICK f : Is(f, m)
    BY <1>2
  <2> DEFINE g == [n \in 0 .. m + 1 |-> IF n \in 0 .. m THEN f[n] ELSE Next(f[m], m + 1)]
  <2>2. \A n \in 0 .. m : f[n] = IF n = 0 THEN start ELSE Next(f[n - 1], n)
    BY <2>1
  <2>3. ASSUME NEW n \in 0 .. m + 1 PROVE g[n] = IF n = 0 THEN start ELSE Next(g[n - 1], n)
    <3>1. CASE n = 0
      BY <2>2, <3>1
    <3>2. CASE n \in 1 .. m
      BY <2>2, <3>2
    <3>3. CASE n = m + 1
      BY <3>3
    <3> QED
      BY <3>1, <3>2, <3>3
  <2>4. g = [n \in 0 .. m + 1 |-> g[n]]
    OBVIOUS
  <2>5. Is(g, m + 1)
    <3> HIDE DEF g
    <3> QED
      BY <2>3, <2>4
  <2>6. m + 1 \in Nat
    OBVIOUS
  <2> HIDE DEF Is, g
  <2> QED
    BY <2>5, <2>6
<1>3. T = Nat
  <2> HIDE DEF T
  <2>1. T \in SUBSET Nat
    BY DEF T
  <2> QED
    BY <1>1, <1>2, <2>1, NumbersByInduction
<1> DEFINE h == CHOOSE f : Is(f, Len(seq))
<1>4. Is(h, Len(seq))
  <2>1. \E f : Is(f, Len(seq))
    BY <1>3
  <2> HIDE DEF Is
  <2> QED
    BY <2>1
<1>5. DifferencesFrom(start, seq) = h[Len(seq)]
  BY Zenon DEF DifferencesFrom, Loop
<1>6. h[0] = start /\ \A n \in 1 .. Len(seq) : h[n] = Next(h[n - 1], n)
  <2> HIDE DEF h, Next
  <2> QED
    BY <1>4
<1> HIDE DEF h
<1> QED
  BY <1>5, <1>6

\* The values that an odd number of the first n sets have.
Having(v, Vs, n) == {i \in 1 .. n : v \in Vs[i]}
Odd(Vs, n) == {v \in Value : Cardinality(Having(v, Vs, n)) % 2 = 1}

\* One set more is one more that has the value or not.
LEMMA HavingMore ==
  ASSUME NEW v, NEW Vs, NEW n \in Nat
  PROVE  /\ Cardinality(Having(v, Vs, 0)) = 0
         /\ Cardinality(Having(v, Vs, n)) \in Nat
         /\ Cardinality(Having(v, Vs, n + 1)) = Cardinality(Having(v, Vs, n)) + (IF v \in Vs[n + 1] THEN 1 ELSE 0)
<1>1. Having(v, Vs, 0) = {}
  <2>1. 1 .. 0 = {}
    OBVIOUS
  <2> QED
    BY <2>1 DEF Having
<1>2. IsFiniteSet(Having(v, Vs, n))
  <2>1. Having(v, Vs, n) \subseteq 1 .. n
    BY DEF Having
  <2>2. IsFiniteSet(1 .. n)
    BY FS_Interval
  <2> QED
    BY <2>1, <2>2, FS_Subset
<1>3. Having(v, Vs, n + 1) = IF v \in Vs[n + 1] THEN Having(v, Vs, n) \cup {n + 1} ELSE Having(v, Vs, n)
  <2>1. \A i : i \in 1 .. n + 1 <=> i \in 1 .. n \/ i = n + 1
    OBVIOUS
  <2> QED
    BY <2>1 DEF Having
<1>4. n + 1 \notin Having(v, Vs, n)
  BY DEF Having
<1>5. Cardinality(Having(v, Vs, n)) \in Nat /\ Cardinality(Having(v, Vs, 0)) = 0
  BY <1>1, <1>2, FS_CardinalityType, FS_EmptySet
<1>6. Cardinality(Having(v, Vs, n) \cup {n + 1}) = Cardinality(Having(v, Vs, n)) + 1
  BY <1>2, <1>4, FS_AddElement
<1> QED
  BY <1>3, <1>5, <1>6

\* One set more changes which values are in an odd number of sets.
LEMMA OddOfMore ==
  ASSUME NEW Vs, NEW n \in Nat, Vs[n + 1] \in SUBSET Value
  PROVE  Odd(Vs, n + 1) = SymDiff(Odd(Vs, n), Vs[n + 1]) /\ Odd(Vs, 0) = {}
<1>1. \A c \in Nat : /\ c % 2 \in {0, 1} /\ (c + 1) % 2 \in {0, 1}
                     /\ c % 2 = 1 <=> (c + 1) % 2 # 1
  OBVIOUS
<1>2. ASSUME NEW v \in Value PROVE v \in Odd(Vs, n + 1) <=> v \in SymDiff(Odd(Vs, n), Vs[n + 1])
  <2> DEFINE c == Cardinality(Having(v, Vs, n))
             d == Cardinality(Having(v, Vs, n + 1))
  <2>1. c \in Nat /\ d = c + (IF v \in Vs[n + 1] THEN 1 ELSE 0)
    BY HavingMore
  <2>2. (v \in Odd(Vs, n) <=> c % 2 = 1) /\ (v \in Odd(Vs, n + 1) <=> d % 2 = 1)
    BY DEF Odd
  <2>3. v \in SymDiff(Odd(Vs, n), Vs[n + 1]) <=> ~ (v \in Odd(Vs, n) <=> v \in Vs[n + 1])
    BY DEF SymDiff
  <2> HIDE DEF c, d
  <2>4. CASE v \in Vs[n + 1]
    <3>1. d = c + 1
      BY <2>1, <2>4
    <3>2. c % 2 = 1 <=> d % 2 # 1
      BY <1>1, <2>1, <3>1
    <3> QED
      BY <2>2, <2>3, <2>4, <3>2
  <2>5. CASE v \notin Vs[n + 1]
    <3>1. d = c
      BY <2>1, <2>5
    <3> QED
      BY <2>2, <2>3, <2>5, <3>1
  <2> QED
    BY <2>4, <2>5
<1>3. Odd(Vs, n + 1) \subseteq Value /\ SymDiff(Odd(Vs, n), Vs[n + 1]) \subseteq Value
  BY DEF Odd, SymDiff
<1>4. Odd(Vs, 0) = {}
  <2>1. \A v : Cardinality(Having(v, Vs, 0)) = 0
    BY HavingMore
  <2>2. 0 % 2 = 0
    OBVIOUS
  <2> QED
    BY <2>1, <2>2 DEF Odd
<1> QED
  BY <1>2, <1>3, <1>4

\* What is left of a list after its first two.
LEMMA AfterTwo ==
  ASSUME NEW X, NEW xs \in Seq(X), NEW N \in Nat, N = Len(xs), N >= 2
  PROVE  Len(SubSeq(xs, 3, N)) = N - 2 /\ \A i \in 1 .. N - 2 : SubSeq(xs, 3, N)[i] = xs[i + 2]
  OBVIOUS

\* roaring_bitmap_xor_many has the values that are in an odd number of the bitmaps.
THEOREM ManyDiffer ==
  ASSUME NEW X, NEW xs \in Seq(X), NEW Vs, \A i \in 1 .. Len(xs) : Represents(xs[i], Vs[i])
  PROVE  Represents(roaring_bitmap_xor_many(xs), Odd(Vs, Len(xs)))
<1> DEFINE N == Len(xs)
<1>1. N \in Nat /\ (xs = <<>> <=> N = 0) /\ \A i \in 1 .. N : Vs[i] \in SUBSET Value
  BY BitmapHas
<1>2. ASSUME NEW n \in Nat, n + 1 <= N PROVE Odd(Vs, n + 1) = SymDiff(Odd(Vs, n), Vs[n + 1])
  <2>1. Vs[n + 1] \in SUBSET Value
    BY <1>1, <1>2
  <2> QED
    BY <2>1, OddOfMore
<1>3. Odd(Vs, 0) = {}
  <2>1. \A v : Cardinality(Having(v, Vs, 0)) = 0
    BY HavingMore
  <2>2. 0 % 2 = 0
    OBVIOUS
  <2> QED
    BY <2>1, <2>2 DEF Odd
<1>4. N >= 1 => Odd(Vs, 1) = Vs[1]
  <2>1. N >= 1 => Odd(Vs, 0 + 1) = SymDiff(Odd(Vs, 0), Vs[0 + 1])
    BY <1>1, <1>2
  <2>2. 0 + 1 = 1
    OBVIOUS
  <2> QED
    BY <1>3, <2>1, <2>2, SymDiffOfNone
<1>5. CASE N = 0
  <2>1. roaring_bitmap_xor_many(xs) = Empty
    BY <1>1, <1>5 DEF roaring_bitmap_xor_many
  <2> QED
    BY <1>3, <1>5, <2>1, EmptyBitmap
<1>6. CASE N = 1
  <2>1. roaring_bitmap_xor_many(xs) = xs[1]
    BY <1>1, <1>6 DEF roaring_bitmap_xor_many
  <2> QED
    BY <1>4, <1>6, <2>1
<1>7. CASE N > 1
  <2> DEFINE start == roaring_bitmap_lazy_xor(xs[1], xs[2])
             rest == SubSeq(xs, 3, N)
  <2>1. Len(rest) = N - 2 /\ \A n \in 1 .. N - 2 : rest[n] = xs[n + 2]
    <3>1. N \in Nat /\ N = Len(xs) /\ N >= 2
      BY <1>1, <1>7
    <3> HIDE DEF N
    <3> QED
      BY ONLY <3>1, AfterTwo DEF rest
  <2>2. roaring_bitmap_xor_many(xs) = roaring_bitmap_repair_after_lazy(DifferencesFrom(start, rest))
    <3>1. roaring_bitmap_xor_many(xs) = roaring_bitmap_repair_after_lazy(Loop(roaring_bitmap_lazy_xor_inplace, start, rest))
      BY <1>1, <1>7 DEF roaring_bitmap_xor_many
    <3>2. DifferencesFrom(start, rest) = Loop(roaring_bitmap_lazy_xor_inplace, start, rest)
      BY Zenon DEF DifferencesFrom
    <3> QED
      BY <3>1, <3>2
  <2>3. RepresentsLazily(start, Odd(Vs, 2))
    <3>1. Represents(xs[1], Vs[1]) /\ Represents(xs[2], Vs[2])
      BY <1>1, <1>7
    <3>2. RepresentsLazily(start, SymDiff(Vs[1], Vs[2]))
      BY <3>1, BitmapIsLazy, DifferLazily
    <3>3. Odd(Vs, 1 + 1) = SymDiff(Odd(Vs, 1), Vs[1 + 1])
      BY <1>1, <1>2, <1>7
    <3>4. 1 + 1 = 2
      OBVIOUS
    <3> QED
      BY <1>1, <1>4, <1>7, <3>2, <3>3, <3>4
  <2>4. Len(rest) \in Nat
    BY <1>1, <1>7, <2>1
  <2> HIDE DEF start, rest
  <2>5. PICK f : /\ f[0] = start
                 /\ \A n \in 1 .. Len(rest) : f[n] = roaring_bitmap_lazy_xor_inplace(f[n - 1], rest[n])
                 /\ DifferencesFrom(start, rest) = f[Len(rest)]
    BY <2>4, LoopOfDifferences
  <2> DEFINE At(n) == RepresentsLazily(f[n], Odd(Vs, n + 2))
             T == {n \in Nat : n <= N - 2 => At(n)}
  <2>6. At(0)
    <3>1. 0 + 2 = 2
      OBVIOUS
    <3> QED
      BY <2>3, <2>5, <3>1
  <2>7. ASSUME NEW n \in Nat, n + 1 <= N - 2, At(n) PROVE At(n + 1)
    <3>1. n + 1 \in 1 .. N - 2 /\ (n + 1) - 1 = n /\ n + 3 \in 1 .. N /\ (n + 1) + 2 = n + 3 /\ (n + 2) + 1 = n + 3 /\ n + 2 \in Nat
      BY <1>1, <2>7
    <3>2. f[n + 1] = roaring_bitmap_lazy_xor_inplace(f[n], xs[n + 3])
      BY <2>1, <2>5, <3>1
    <3>3. Represents(xs[n + 3], Vs[n + 3])
      BY <3>1
    <3>4. RepresentsLazily(f[n + 1], SymDiff(Odd(Vs, n + 2), Vs[n + 3]))
      BY <2>7, <3>2, <3>3, DifferLazilyInPlace
    <3>5. Odd(Vs, n + 3) = SymDiff(Odd(Vs, n + 2), Vs[n + 3])
      <4>1. (n + 2) + 1 <= N
        BY <1>1, <3>1
      <4>2. Odd(Vs, (n + 2) + 1) = SymDiff(Odd(Vs, n + 2), Vs[(n + 2) + 1])
        BY <1>2, <3>1, <4>1
      <4> QED
        BY <3>1, <4>2
    <3> QED
      BY <3>1, <3>4, <3>5
  <2>8. T = Nat
    <3> HIDE DEF At
    <3>1. 0 \in T
      BY <2>6
    <3>2. ASSUME NEW n \in T PROVE n + 1 \in T
      BY <1>1, <2>7, <3>2
    <3>3. T \in SUBSET Nat
      OBVIOUS
    <3> HIDE DEF T
    <3> QED
      BY <3>1, <3>2, <3>3, NumbersByInduction
  <2>9. RepresentsLazily(f[N - 2], Odd(Vs, N))
    <3>1. N - 2 \in T
      BY <1>1, <1>7, <2>8
    <3>2. (N - 2) + 2 = N
      BY <1>1
    <3> QED
      BY <3>1, <3>2
  <2> QED
    BY <2>1, <2>2, <2>5, <2>9, BitmapRepaired
<1>8. N = 0 \/ N = 1 \/ N > 1
  <2>1. N \in Nat
    OBVIOUS
  <2> HIDE DEF N
  <2> QED
    BY ONLY <2>1
<1> HIDE DEF N
<1> QED
  BY <1>5, <1>6, <1>7, <1>8

-----------------------------------------------------------------------------
(* Unions of many bitmaps: the queue.                                       *)

UnionsFrom(start, seq) == Loop(WithSmallestUnited, start, seq)

\* The states of the loop that unites the smallest bitmaps of a queue.
LEMMA LoopOfUnions ==
  ASSUME NEW start, NEW seq, Len(seq) \in Nat
  PROVE  \E f : /\ f[0] = start
                /\ \A n \in 1 .. Len(seq) : f[n] = WithSmallestUnited(f[n - 1], seq[n])
                /\ UnionsFrom(start, seq) = f[Len(seq)]
<1> DEFINE Next(a, n) == WithSmallestUnited(a, seq[n])
           Is(f, m) == f = [n \in 0 .. m |-> IF n = 0 THEN start ELSE Next(f[n - 1], n)]
           T == {m \in Nat : \E f : Is(f, m)}
<1>1. 0 \in T
  <2> HIDE DEF Next
  <2>1. Is([n \in 0 .. 0 |-> start], 0)
    OBVIOUS
  <2> QED
    BY <2>1
<1>2. ASSUME NEW m \in T PROVE m + 1 \in T
  <2> HIDE DEF Next
  <2>1. PICK f : Is(f, m)
    BY <1>2
  <2> DEFINE g == [n \in 0 .. m + 1 |-> IF n \in 0 .. m THEN f[n] ELSE Next(f[m], m + 1)]
  <2>2. \A n \in 0 .. m : f[n] = IF n = 0 THEN start ELSE Next(f[n - 1], n)
    BY <2>1
  <2>3. ASSUME NEW n \in 0 .. m + 1 PROVE g[n] = IF n = 0 THEN start ELSE Next(g[n - 1], n)
    <3>1. CASE n = 0
      BY <2>2, <3>1
    <3>2. CASE n \in 1 .. m
      BY <2>2, <3>2
    <3>3. CASE n = m + 1
      BY <3>3
    <3> QED
      BY <3>1, <3>2, <3>3
  <2>4. g = [n \in 0 .. m + 1 |-> g[n]]
    OBVIOUS
  <2>5. Is(g, m + 1)
    <3> HIDE DEF g
    <3> QED
      BY <2>3, <2>4
  <2>6. m + 1 \in Nat
    OBVIOUS
  <2> HIDE DEF Is, g
  <2> QED
    BY <2>5, <2>6
<1>3. T = Nat
  <2> HIDE DEF T
  <2>1. T \in SUBSET Nat
    BY DEF T
  <2> QED
    BY <1>1, <1>2, <2>1, NumbersByInduction
<1> DEFINE h == CHOOSE f : Is(f, Len(seq))
<1>4. Is(h, Len(seq))
  <2>1. \E f : Is(f, Len(seq))
    BY <1>3
  <2> HIDE DEF Is
  <2> QED
    BY <2>1
<1>5. UnionsFrom(start, seq) = h[Len(seq)]
  BY Zenon DEF UnionsFrom, Loop
<1>6. h[0] = start /\ \A n \in 1 .. Len(seq) : h[n] = Next(h[n - 1], n)
  <2> HIDE DEF h, Next
  <2> QED
    BY <1>4
<1> HIDE DEF h
<1> QED
  BY <1>5, <1>6

\* A sequence without one of its elements.
LEMMA OneRemoved ==
  ASSUME NEW X, NEW s \in Seq(X), NEW i \in 1 .. Len(s)
  PROVE  /\ RemoveAt(s, i) \in Seq(X) /\ Len(RemoveAt(s, i)) = Len(s) - 1
         /\ \A k \in 1 .. Len(s) - 1 : RemoveAt(s, i)[k] = s[IF k < i THEN k ELSE k + 1]
<1> DEFINE a == SubSeq(s, 1, i - 1)
           b == SubSeq(s, i + 1, Len(s))
<1>1. a \in Seq(X) /\ Len(a) = i - 1 /\ \A k \in 1 .. i - 1 : a[k] = s[k]
  OBVIOUS
<1>2. b \in Seq(X) /\ Len(b) = Len(s) - i /\ \A k \in 1 .. Len(s) - i : b[k] = s[k + i]
  OBVIOUS
<1>3. RemoveAt(s, i) = a \o b
  BY DEF RemoveAt
<1> HIDE DEF a, b
<1>4. Len(s) \in Nat /\ i \in Nat /\ 1 <= i /\ i <= Len(s)
  OBVIOUS
<1>5. a \o b \in Seq(X) /\ Len(a \o b) = Len(s) - 1
  <2>1. a \o b \in Seq(X) /\ Len(a \o b) = Len(a) + Len(b)
    <3>1. a \in Seq(X) /\ b \in Seq(X)
      BY <1>1, <1>2
    <3> QED
      BY ONLY <3>1, ConcatProperties
  <2>2. (i - 1) + (Len(s) - i) = Len(s) - 1
    BY <1>4
  <2> QED
    BY <1>1, <1>2, <2>1, <2>2
<1>6. ASSUME NEW k \in 1 .. Len(s) - 1 PROVE (a \o b)[k] = s[IF k < i THEN k ELSE k + 1]
  <2>1. CASE k < i
    BY <1>1, <1>2, <1>4, <2>1
  <2>2. CASE i <= k
    <3>1. (a \o b)[k] = b[k - (i - 1)] /\ k - (i - 1) \in 1 .. Len(s) - i /\ (k - (i - 1)) + i = k + 1
      BY <1>1, <1>2, <1>4, <2>2
    <3>2. b[k - (i - 1)] = s[(k - (i - 1)) + i]
      BY <1>2, <3>1
    <3> QED
      BY <1>4, <2>2, <3>1, <3>2
  <2>3. k < i \/ i <= k
    BY ONLY <1>4
  <2> QED
    BY <2>1, <2>2, <2>3
<1> QED
  BY <1>3, <1>5, <1>6

\* The smaller and the greater of two positions.
LEMMA ExtremesOfTwo ==
  ASSUME NEW i \in Int, NEW j \in Int, i # j
  PROVE  \/ i < j /\ Max({i, j}) = j /\ Min({i, j}) = i
         \/ j < i /\ Max({i, j}) = i /\ Min({i, j}) = j
<1>1. Max({i, j}) = (IF i <= j THEN j ELSE i) /\ Min({i, j}) = (IF i <= j THEN i ELSE j)
  BY MinOfTwo, MaxOfTwo
<1> QED
  BY <1>1

\* A sequence of the elements of another one that are not at the places i and j.
IsWithoutTwo(r, q, X, i, j) ==
    /\ r \in Seq(X) /\ Len(r) = Len(q) - 2
    /\ \A k \in 1 .. Len(q) - 2 : \E x \in 1 .. Len(q) \ {i, j} : r[k] = q[x]
    /\ \A x \in 1 .. Len(q) \ {i, j} : \E k \in 1 .. Len(q) - 2 : r[k] = q[x]

\* What is left of a queue when two entries are taken out.
LEMMA TwoRemoved ==
  ASSUME NEW X, NEW q \in Seq(X), NEW i \in 1 .. Len(q), NEW j \in 1 .. Len(q), i # j, NEW r,
         r = RemoveAt(RemoveAt(q, Max({i, j})), Min({i, j}))
  PROVE  IsWithoutTwo(r, q, X, i, j)
<1> DEFINE hi == Max({i, j})
           lo == Min({i, j})
           a == RemoveAt(q, hi)
<1>1. lo \in 1 .. Len(q) /\ hi \in 1 .. Len(q) /\ lo < hi /\ {i, j} = {lo, hi}
  <2>1. \/ i < j /\ hi = j /\ lo = i
        \/ j < i /\ hi = i /\ lo = j
    BY ExtremesOfTwo
  <2> HIDE DEF hi, lo
  <2> QED
    BY <2>1
<1>2. r = RemoveAt(a, lo)
  OBVIOUS
<1> HIDE DEF hi, lo, a
<1>3. Len(q) \in Nat
  OBVIOUS
<1>4. /\ a \in Seq(X) /\ Len(a) = Len(q) - 1
      /\ \A k \in 1 .. Len(q) - 1 : a[k] = q[IF k < hi THEN k ELSE k + 1]
  BY <1>1, OneRemoved DEF a
<1>5. lo \in 1 .. Len(a)
  BY <1>1, <1>3, <1>4
<1>6. /\ r \in Seq(X) /\ Len(r) = Len(a) - 1
      /\ \A k \in 1 .. Len(a) - 1 : r[k] = a[IF k < lo THEN k ELSE k + 1]
  BY <1>2, <1>4, <1>5, OneRemoved
<1>7. Len(r) = Len(q) - 2
  BY <1>3, <1>4, <1>6
<1> DEFINE at(k) == IF k < lo THEN k ELSE IF k + 1 < hi THEN k + 1 ELSE k + 2
<1>8. ASSUME NEW k \in 1 .. Len(q) - 2 PROVE r[k] = q[at(k)] /\ at(k) \in 1 .. Len(q) \ {lo, hi}
  <2> DEFINE m == IF k < lo THEN k ELSE k + 1
  <2>1. m \in 1 .. Len(q) - 1 /\ r[k] = a[m]
    <3>1. m \in 1 .. Len(q) - 1
      BY <1>1, <1>3
    <3>2. Len(a) - 1 = Len(q) - 2
      BY <1>3, <1>4
    <3> QED
      BY <1>6, <3>1, <3>2
  <2>2. a[m] = q[IF m < hi THEN m ELSE m + 1]
    BY <1>4, <2>1
  <2>3. (IF m < hi THEN m ELSE m + 1) = at(k)
    BY <1>1, <1>3
  <2>4. at(k) \in 1 .. Len(q) \ {lo, hi}
    BY <1>1, <1>3
  <2> HIDE DEF m, at
  <2> QED
    BY <2>1, <2>2, <2>3, <2>4
<1>9. ASSUME NEW x \in 1 .. Len(q) \ {lo, hi} PROVE \E k \in 1 .. Len(q) - 2 : r[k] = q[x]
  <2> DEFINE k == IF x < lo THEN x ELSE IF x < hi THEN x - 1 ELSE x - 2
  <2>1. k \in 1 .. Len(q) - 2 /\ at(k) = x
    BY <1>1, <1>3
  <2> HIDE DEF k, at
  <2>2. r[k] = q[x]
    BY <1>8, <2>1
  <2> QED
    BY <2>1, <2>2
<1> HIDE DEF at
<1> QED
  BY <1>1, <1>6, <1>7, <1>8, <1>9 DEF IsWithoutTwo

-----------------------------------------------------------------------------
Entries(q, n) == UNION {Values(q[i].bitmap) : i \in 1 .. n}

\* A queue of n bitmaps with the values V together.
IsQueue(q, n, V) ==
    /\ \E X : q \in Seq(X)
    /\ Len(q) = n
    /\ \A i \in 1 .. n : q[i].is_temporary \in BOOLEAN /\ RepresentsLazily(q[i].bitmap, Values(q[i].bitmap))
    /\ Entries(q, n) = V

\* Two entries of the queue are united, temporary or not.
LEMMA EntriesUnited ==
  ASSUME NEW x1, NEW V, RepresentsLazily(x1.bitmap, V), x1.is_temporary \in BOOLEAN,
         NEW x2, NEW W, RepresentsLazily(x2.bitmap, W), x2.is_temporary \in BOOLEAN
  PROVE  RepresentsLazily(United(x1, x2), V \cup W)
<1> DEFINE b1 == x1.bitmap
           b2 == x2.bitmap
<1>1. RepresentsLazily(b1, V) /\ RepresentsLazily(b2, W) /\ W \cup V = V \cup W
  OBVIOUS
<1>2. CASE x1.is_temporary /\ x2.is_temporary
  <2>1. United(x1, x2) = lazy_or_from_lazy_inputs(b1, b2)
    BY <1>2 DEF United
  <2> HIDE DEF b1, b2
  <2> QED
    BY <1>1, <2>1, UnitedFromLazy
<1>3. CASE ~ x1.is_temporary /\ x2.is_temporary
  <2>1. United(x1, x2) = roaring_bitmap_lazy_or_inplace(b2, b1)
    BY <1>3 DEF United
  <2> HIDE DEF b1, b2
  <2>2. RepresentsLazily(roaring_bitmap_lazy_or_inplace(b2, b1), W \cup V)
    BY <1>1, UnitedLazilyInPlace
  <2> QED
    BY <1>1, <2>1, <2>2
<1>4. CASE x1.is_temporary /\ ~ x2.is_temporary
  <2>1. United(x1, x2) = roaring_bitmap_lazy_or_inplace(b1, b2)
    BY <1>4 DEF United
  <2> HIDE DEF b1, b2
  <2> QED
    BY <1>1, <2>1, UnitedLazilyInPlace
<1>5. CASE ~ x1.is_temporary /\ ~ x2.is_temporary
  <2>1. United(x1, x2) = roaring_bitmap_lazy_or(b1, b2)
    BY <1>5 DEF United
  <2> HIDE DEF b1, b2
  <2> QED
    BY <1>1, <2>1, UnitedLazily
<1> QED
  BY <1>2, <1>3, <1>4, <1>5, Zenon

\* The pair that is taken has two positions of the queue.
LEMMA PairsOfTwo ==
  ASSUME NEW q, NEW p \in SmallestPairs(q)
  PROVE  \E i \in DOMAIN q : \E j \in DOMAIN q \ {i} : p = <<i, j>>
  BY DEF SmallestPairs

\* Two bitmaps of a queue are taken out, and their union is put in.
LEMMA QueueUnited ==
  ASSUME NEW q, NEW n \in Nat, n >= 2, NEW V, IsQueue(q, n, V), NEW p \in SmallestPairs(q)
  PROVE  IsQueue(WithUnited(q, p), n - 1, V)
<1>1. PICK X : q \in Seq(X)
  BY DEF IsQueue
<1>2. /\ Len(q) = n /\ DOMAIN q = 1 .. n
      /\ \A i \in 1 .. n : q[i].is_temporary \in BOOLEAN /\ RepresentsLazily(q[i].bitmap, Values(q[i].bitmap))
      /\ Entries(q, n) = V
  BY <1>1 DEF IsQueue
<1>3. PICK i \in 1 .. n, j \in 1 .. n : i # j /\ p = <<i, j>>
  <2>1. \E x \in DOMAIN q : \E y \in DOMAIN q \ {x} : p = <<x, y>>
    BY PairsOfTwo
  <2> QED
    BY <1>2, <2>1
<1> DEFINE r == RemoveAt(RemoveAt(q, Max({i, j})), Min({i, j}))
           u == United(q[i], q[j])
           e == [bitmap |-> u, is_temporary |-> TRUE]
           a == Append(r, e)
<1>4. WithUnited(q, p) = a
  BY <1>3 DEF WithUnited
<1>5. /\ r \in Seq(X) /\ Len(r) = n - 2
      /\ \A k \in 1 .. n - 2 : \E x \in 1 .. n \ {i, j} : r[k] = q[x]
      /\ \A x \in 1 .. n \ {i, j} : \E k \in 1 .. n - 2 : r[k] = q[x]
  <2>1. r = RemoveAt(RemoveAt(q, Max({i, j})), Min({i, j})) /\ i \in 1 .. Len(q) /\ j \in 1 .. Len(q)
    BY <1>2
  <2> HIDE DEF r
  <2>2. IsWithoutTwo(r, q, X, i, j)
    BY <1>1, <1>3, <2>1, TwoRemoved
  <2> QED
    BY <1>2, <2>2 DEF IsWithoutTwo
<1>6. RepresentsLazily(u, Values(q[i].bitmap) \cup Values(q[j].bitmap))
  BY <1>2, EntriesUnited
<1>7. Values(u) = Values(q[i].bitmap) \cup Values(q[j].bitmap)
  BY <1>6, BitmapHasValues
<1>8. e.bitmap = u /\ e.is_temporary = TRUE
  OBVIOUS
<1> HIDE DEF r, u, e
<1>9. /\ a \in Seq(X \cup {e}) /\ Len(a) = n - 1 /\ a[n - 1] = e
      /\ \A k \in 1 .. n - 2 : a[k] = r[k]
  <2>1. r \in Seq(X \cup {e})
    BY <1>5
  <2> QED
    BY <1>5, <2>1
<1> HIDE DEF a
<1>10. ASSUME NEW k \in 1 .. n - 1 PROVE a[k].is_temporary \in BOOLEAN /\ RepresentsLazily(a[k].bitmap, Values(a[k].bitmap))
  <2>1. CASE k = n - 1
    BY <1>6, <1>7, <1>8, <1>9, <2>1
  <2>2. CASE k \in 1 .. n - 2
    <3>1. PICK x \in 1 .. n : r[k] = q[x]
      BY <1>5, <2>2
    <3>2. a[k] = q[x]
      BY <1>9, <2>2, <3>1
    <3> QED
      BY <1>2, <3>2
  <2> QED
    BY <2>1, <2>2
<1>11. Entries(a, n - 1) = Entries(q, n)
  <2> DEFINE H(s, m, v) == \E k \in 1 .. m : v \in Values(s[k].bitmap)
  <2>1. \A v : v \in Entries(a, n - 1) <=> H(a, n - 1, v)
    BY DEF Entries
  <2>2. \A v : v \in Entries(q, n) <=> H(q, n, v)
    BY DEF Entries
  <2>3. ASSUME NEW v, H(a, n - 1, v) PROVE H(q, n, v)
    <3>1. PICK k \in 1 .. n - 1 : v \in Values(a[k].bitmap)
      BY <2>3
    <3>2. CASE k = n - 1
      BY <1>7, <1>8, <1>9, <3>1, <3>2
    <3>3. CASE k \in 1 .. n - 2
      <4>1. PICK x \in 1 .. n : r[k] = q[x]
        BY <1>5, <3>3
      <4>2. a[k] = q[x]
        BY <1>9, <3>3, <4>1
      <4> QED
        BY <3>1, <4>2
    <3> QED
      BY <3>2, <3>3
  <2>4. ASSUME NEW v, H(q, n, v) PROVE H(a, n - 1, v)
    <3>1. PICK x \in 1 .. n : v \in Values(q[x].bitmap)
      BY <2>4
    <3>2. CASE x \in {i, j}
      <4>1. v \in Values(a[n - 1].bitmap) /\ n - 1 \in 1 .. n - 1
        BY <1>7, <1>8, <1>9, <3>1, <3>2
      <4> QED
        BY <4>1
    <3>3. CASE x \notin {i, j}
      <4>1. PICK k \in 1 .. n - 2 : r[k] = q[x]
        BY <1>5, <3>3
      <4>2. k \in 1 .. n - 1 /\ a[k] = q[x]
        BY <1>9, <4>1
      <4> QED
        BY <3>1, <4>2
    <3> QED
      BY <3>2, <3>3
  <2> HIDE DEF H
  <2> QED
    BY <2>1, <2>2, <2>3, <2>4
<1> QED
  BY <1>2, <1>4, <1>9, <1>10, <1>11 DEF IsQueue

\* Whichever smallest pair is united, the queue gets shorter and keeps its values.
LEMMA QueuesUnited ==
  ASSUME NEW Q, NEW n \in Nat, n >= 2, NEW V, \A q \in Q : IsQueue(q, n, V), NEW x
  PROVE  \A q \in WithSmallestUnited(Q, x) : IsQueue(q, n - 1, V)
<1> TAKE r \in WithSmallestUnited(Q, x)
<1>1. PICK q \in Q : \E p \in SmallestPairs(q) : r = WithUnited(q, p)
  BY DEF WithSmallestUnited
<1>2. PICK p \in SmallestPairs(q) : r = WithUnited(q, p)
  BY <1>1
<1> QED
  BY <1>2, QueueUnited

\* roaring_bitmap_or_many_heap unites, in whichever order it takes pairs of equal size.
THEOREM ManyUnited ==
  ASSUME NEW X, NEW xs \in Seq(X), NEW Vs, \A i \in 1 .. Len(xs) : Represents(xs[i], Vs[i]),
         NEW after \in roaring_bitmap_or_many_heap(xs)
  PROVE  Represents(after, UNION {Vs[i] : i \in 1 .. Len(xs)})
<1> DEFINE N == Len(xs)
           V == UNION {Vs[i] : i \in 1 .. N}
           pq == [i \in DOMAIN xs |-> [bitmap |-> xs[i], is_temporary |-> FALSE]]
           numbers == [n \in 1 .. N - 1 |-> n]
<1>1. N \in Nat /\ (xs = <<>> <=> N = 0) /\ DOMAIN xs = 1 .. N
  OBVIOUS
<1>2. \A i \in 1 .. N : Represents(xs[i], Vs[i])
  OBVIOUS
<1>3. CASE N = 0
  <2>1. after = Empty
    BY <1>1, <1>3 DEF roaring_bitmap_or_many_heap
  <2>2. 1 .. 0 = {}
    OBVIOUS
  <2>3. V = {}
    BY <1>3, <2>2
  <2> QED
    BY <2>1, <2>3, EmptyBitmap
<1>4. CASE N = 1
  <2>1. after = xs[1]
    BY <1>1, <1>4 DEF roaring_bitmap_or_many_heap
  <2>2. 1 .. 1 = {1}
    OBVIOUS
  <2>3. V = Vs[1]
    BY <1>4, <2>2
  <2> QED
    BY <1>2, <1>4, <2>1, <2>2, <2>3
<1>5. CASE N > 1
  <2>1. \E q \in UnionsFrom({pq}, numbers) : after = roaring_bitmap_repair_after_lazy(q[1].bitmap)
    <3>1. roaring_bitmap_or_many_heap(xs) =
            {roaring_bitmap_repair_after_lazy(q[1].bitmap) : q \in Loop(WithSmallestUnited, {pq}, numbers)}
      BY <1>1, <1>5 DEF roaring_bitmap_or_many_heap
    <3>2. UnionsFrom({pq}, numbers) = Loop(WithSmallestUnited, {pq}, numbers)
      BY Zenon DEF UnionsFrom
    <3> HIDE DEF pq, numbers
    <3> QED
      BY <3>1, <3>2
  <2>2. Len(numbers) = N - 1 /\ \A n \in 1 .. N - 1 : numbers[n] = n
    BY <1>1, <1>5
  <2>3. IsQueue(pq, N, V)
    <3>1. /\ \E Y : pq \in Seq(Y)
          /\ Len(pq) = N
          /\ \A i \in 1 .. N : pq[i].bitmap = xs[i] /\ pq[i].is_temporary = FALSE
      <4>1. pq = [i \in 1 .. N |-> [bitmap |-> xs[i], is_temporary |-> FALSE]]
        BY <1>1
      <4>2. pq \in Seq([bitmap : X, is_temporary : BOOLEAN])
        BY <1>1, <4>1
      <4>3. Len(pq) = N
        BY <1>1, <4>1
      <4>4. \A i \in 1 .. N : pq[i].bitmap = xs[i] /\ pq[i].is_temporary = FALSE
        BY <4>1
      <4> HIDE DEF pq
      <4> QED
        BY <4>2, <4>3, <4>4
    <3> HIDE DEF pq
    <3>2. \A i \in 1 .. N : Values(pq[i].bitmap) = Vs[i] /\ RepresentsLazily(pq[i].bitmap, Vs[i])
      <4> TAKE i \in 1 .. N
      <4>1. Represents(pq[i].bitmap, Vs[i])
        BY <1>2, <3>1
      <4> QED
        BY <4>1, BitmapIsLazy, BitmapHasValues
    <3>3. Entries(pq, N) = V
      BY <3>2 DEF Entries
    <3> QED
      BY <3>1, <3>2, <3>3 DEF IsQueue
  <2> HIDE DEF pq, numbers, V
  <2>4. Len(numbers) \in Nat
    BY <1>1, <1>5, <2>2
  <2>5. PICK f : /\ f[0] = {pq}
                 /\ \A n \in 1 .. Len(numbers) : f[n] = WithSmallestUnited(f[n - 1], numbers[n])
                 /\ UnionsFrom({pq}, numbers) = f[Len(numbers)]
    BY <2>4, LoopOfUnions
  <2> DEFINE At(n) == \A q \in f[n] : IsQueue(q, N - n, V)
             T == {n \in Nat : n <= N - 1 => At(n)}
  <2>6. At(0)
    <3>1. N - 0 = N
      BY <1>1
    <3> QED
      BY <2>3, <2>5, <3>1
  <2>7. ASSUME NEW n \in Nat, n + 1 <= N - 1, At(n) PROVE At(n + 1)
    <3>1. n + 1 \in 1 .. N - 1 /\ (n + 1) - 1 = n /\ N - n \in Nat /\ N - n >= 2 /\ (N - n) - 1 = N - (n + 1)
      BY <1>1, <2>7
    <3>2. f[n + 1] = WithSmallestUnited(f[n], numbers[n + 1])
      BY <2>2, <2>5, <3>1
    <3>3. \A q \in f[n] : IsQueue(q, N - n, V)
      BY <2>7
    <3>4. \A q \in WithSmallestUnited(f[n], numbers[n + 1]) : IsQueue(q, (N - n) - 1, V)
      BY <3>1, <3>3, QueuesUnited
    <3> QED
      BY <3>1, <3>2, <3>4
  <2>8. T = Nat
    <3> HIDE DEF At
    <3>1. 0 \in T
      BY <2>6
    <3>2. ASSUME NEW n \in T PROVE n + 1 \in T
      BY <1>1, <2>7, <3>2
    <3>3. T \in SUBSET Nat
      OBVIOUS
    <3> HIDE DEF T
    <3> QED
      BY <3>1, <3>2, <3>3, NumbersByInduction
  <2>9. \A q \in f[N - 1] : IsQueue(q, 1, V)
    <3>1. N - 1 \in T /\ N - (N - 1) = 1
      BY <1>1, <1>5, <2>8
    <3> QED
      BY <3>1
  <2>10. PICK q \in f[N - 1] : after = roaring_bitmap_repair_after_lazy(q[1].bitmap)
    BY <2>1, <2>2, <2>5
  <2>11. RepresentsLazily(q[1].bitmap, V)
    <3>1. IsQueue(q, 1, V) /\ 1 .. 1 = {1}
      BY <2>9
    <3>2. RepresentsLazily(q[1].bitmap, Values(q[1].bitmap)) /\ Entries(q, 1) = V
      BY <3>1 DEF IsQueue
    <3>3. Entries(q, 1) = Values(q[1].bitmap)
      BY <3>1 DEF Entries
    <3> QED
      BY <3>2, <3>3
  <2>12. Represents(after, V)
    BY <2>10, <2>11, BitmapRepaired
  <2> QED
    BY <2>12 DEF V
<1>6. N = 0 \/ N = 1 \/ N > 1
  <2>1. N \in Nat
    OBVIOUS
  <2> HIDE DEF N
  <2> QED
    BY ONLY <2>1
<1> HIDE DEF N, V
<1> QED
  BY <1>3, <1>4, <1>5, <1>6

-----------------------------------------------------------------------------
(* Ranges of values and their chunks.                                       *)

\* Values are in the order of their high halves, then of their low halves.
LEMMA OrderOfHalves ==
  ASSUME NEW k \in Int, NEW x \in Low, NEW l \in Int, NEW y \in Low
  PROVE  k * ChunkSize + x <= l * ChunkSize + y <=> k < l \/ (k = l /\ x <= y)
<1>1. /\ ChunkSize \in Nat \ {0} /\ x \in Int /\ 0 <= x /\ x < ChunkSize
      /\ y \in Int /\ 0 <= y /\ y < ChunkSize
  BY ContainerConstants, LowAreNumbers
<1>2. k * ChunkSize \in Int /\ l * ChunkSize \in Int
  BY <1>1
<1>3. CASE k < l
  <2>1. (k + 1) * ChunkSize <= l * ChunkSize
    BY <1>1, <1>3
  <2>2. (k + 1) * ChunkSize = k * ChunkSize + ChunkSize
    BY <1>1
  <2> QED
    BY <1>1, <1>2, <1>3, <2>1, <2>2
<1>4. CASE l < k
  <2>1. (l + 1) * ChunkSize <= k * ChunkSize
    BY <1>1, <1>4
  <2>2. (l + 1) * ChunkSize = l * ChunkSize + ChunkSize
    BY <1>1
  <2> QED
    BY <1>1, <1>2, <1>4, <2>1, <2>2
<1>5. CASE k = l
  BY <1>1, <1>2, <1>5
<1> QED
  BY <1>3, <1>4, <1>5

\* Values are numbers.
LEMMA ValuesAreNumbers == \A v \in Value : v \in Int /\ v \in Nat /\ 0 <= v /\ v <= UINT32_MAX /\ UINT32_MAX \in Int
<1>1. UINT32_MAX \in Int
  BY ContainerConstants, KeyConstants DEF UINT32_MAX
<1> QED
  BY <1>1 DEF Value

\* The chunk of a range is the part of it that belongs to the container.
LEMMA ChunkOfRange ==
  ASSUME NEW min \in Value, NEW max \in Value, min <= max, NEW k \in Key
  PROVE  /\ ContainerMin(k, min) \in Low /\ ContainerMax(k, max) \in Low
         /\ high(min) <= k /\ k <= high(max) => /\ Chunk(min .. max, k) = ContainerMin(k, min) .. ContainerMax(k, max)
                                                /\ ContainerMin(k, min) <= ContainerMax(k, max)
         /\ ~ (high(min) <= k /\ k <= high(max)) => Chunk(min .. max, k) = {}
<1>1. /\ high(min) \in Int /\ low(min) \in Low /\ min = high(min) * ChunkSize + low(min) /\ min \in Int
      /\ high(max) \in Int /\ low(max) \in Low /\ max = high(max) * ChunkSize + low(max) /\ max \in Int
      /\ k \in Int
  BY Halves, KeyConstants
<1>2. /\ ChunkSize \in Nat \ {0} /\ 0 \in Low /\ ChunkSize - 1 \in Low
      /\ \A x : x \in Low <=> x \in Int /\ 0 <= x /\ x <= ChunkSize - 1
  BY ContainerConstants DEF Low
<1> DEFINE m == ContainerMin(k, min)
           M == ContainerMax(k, max)
<1>3. m \in Low /\ M \in Low
  BY <1>1, <1>2 DEF ContainerMin, ContainerMax
<1>4. \A x \in Low : min <= k * ChunkSize + x <=> high(min) < k \/ (high(min) = k /\ low(min) <= x)
  BY <1>1, OrderOfHalves
<1>5. \A x \in Low : k * ChunkSize + x <= max <=> k < high(max) \/ (k = high(max) /\ x <= low(max))
  BY <1>1, OrderOfHalves
<1>6. high(min) < high(max) \/ (high(min) = high(max) /\ low(min) <= low(max))
  BY <1>1, OrderOfHalves
<1>7. \A x \in Low : x \in Chunk(min .. max, k) <=> min <= k * ChunkSize + x /\ k * ChunkSize + x <= max
  BY <1>1, <1>2 DEF Chunk
<1>8. Chunk(min .. max, k) \subseteq Low
  BY DEF Chunk
<1>9. CASE high(min) <= k /\ k <= high(max)
  <2>1. (m = IF high(min) = k THEN low(min) ELSE 0) /\ (M = IF high(max) = k THEN low(max) ELSE ChunkSize - 1)
    BY DEF ContainerMin, ContainerMax
  <2>2. \A x \in Low : x \in Chunk(min .. max, k) <=> m <= x /\ x <= M
    <3> TAKE x \in Low
    <3>1. min <= k * ChunkSize + x <=> m <= x
      BY <1>1, <1>2, <1>4, <1>9, <2>1
    <3>2. k * ChunkSize + x <= max <=> x <= M
      BY <1>1, <1>2, <1>5, <1>9, <2>1
    <3> QED
      BY <1>7, <3>1, <3>2
  <2>3. m <= M
    BY <1>1, <1>2, <1>3, <1>6, <1>9, <2>1
  <2> HIDE DEF m, M
  <2>4. \A x : x \in m .. M <=> x \in Low /\ m <= x /\ x <= M
    BY <1>2, <1>3
  <2>5. Chunk(min .. max, k) = m .. M
    BY <1>8, <2>2, <2>4
  <2> QED
    BY <1>3, <1>9, <2>3, <2>5 DEF m, M
<1>10. CASE ~ (high(min) <= k /\ k <= high(max))
  <2>1. \A x \in Low : x \notin Chunk(min .. max, k)
    BY <1>1, <1>4, <1>5, <1>7, <1>10
  <2>2. Chunk(min .. max, k) = {}
    BY <1>8, <2>1
  <2> QED
    BY <1>3, <1>10, <2>2
<1> QED
  BY <1>9, <1>10

\* Ranges have values.
LEMMA RangeOfValues ==
  ASSUME NEW min \in Value, NEW max \in Value
  PROVE  min .. max \in SUBSET Value
<1>1. UINT32_MAX \in Int
  BY ValuesAreNumbers
<1> QED
  BY <1>1 DEF Value

\* A range that is added.
THEOREM RangeAdded ==
  ASSUME NEW bm, NEW V, Represents(bm, V), NEW min \in Value, NEW max \in Value, min <= max
  PROVE  Represents(roaring_bitmap_add_range_closed(bm, min, max), V \cup min .. max)
<1> DEFINE keys == {k \in Key : high(min) <= k /\ k <= high(max)}
           lo(k) == ContainerMin(k, min)
           hi(k) == ContainerMax(k, max)
           new(k) == IF k \in DOMAIN bm
                     THEN container_add_range(bm[k], lo(k), hi(k))
                     ELSE container_from_range(lo(k), hi(k) + 1, 1)
           at(k) == IF k \in keys THEN new(k) ELSE bm[k]
           K == DOMAIN bm \cup keys
           a == [k \in K |-> at(k)]
           W == V \cup min .. max
<1>1. roaring_bitmap_add_range_closed(bm, min, max) = a
  <2>1. min \in Int /\ max \in Int /\ ~ (min > max)
    BY ValuesAreNumbers
  <2> QED
    BY <2>1 DEF roaring_bitmap_add_range_closed
<1>2. /\ V \in SUBSET Value
      /\ \A k \in DOMAIN bm : k \in Key /\ Sound(bm[k], Chunk(V, k)) /\ Chunk(V, k) # {}
      /\ \A k \in Key : k \notin DOMAIN bm => Chunk(V, k) = {}
  BY BitmapHas
<1>3. W \in SUBSET Value
  BY <1>2, RangeOfValues
<1>4. \A k : Chunk(W, k) = Chunk(V, k) \cup Chunk(min .. max, k)
  BY DEF Chunk
<1>5. ASSUME NEW k \in Key, k \in keys PROVE Sound(new(k), Chunk(W, k)) /\ Chunk(W, k) # {}
  <2> DEFINE m == lo(k)
             M == hi(k)
  <2>1. m \in Low /\ M \in Low /\ Chunk(min .. max, k) = m .. M /\ m <= M
    BY <1>5, ChunkOfRange
  <2>2. Chunk(W, k) = Chunk(V, k) \cup m .. M
    BY <1>4, <2>1
  <2> HIDE DEF m, M
  <2>3. m \in m .. M /\ m \in Int /\ M + 1 \in Nat /\ M + 1 <= ChunkSize /\ m < M + 1 /\ (M + 1) - 1 = M /\ ChunkSize \in Nat
    BY <2>1, ContainerConstants, LowAreNumbers
  <2>4. CASE k \in DOMAIN bm
    <3>1. Sound(container_add_range(bm[k], m, M), Chunk(V, k) \cup m .. M)
      BY <1>2, <2>1, <2>4, AddedRange
    <3>2. new(k) = container_add_range(bm[k], m, M)
      BY <2>4 DEF m, M
    <3> QED
      BY <2>2, <2>3, <3>1, <3>2
  <2>5. CASE k \notin DOMAIN bm
    <3>1. container_from_range(m, M + 1, 1) = container_range_of_ones(m, M + 1)
      BY DEF container_from_range
    <3>2. Sound(container_range_of_ones(m, M + 1), m .. (M + 1) - 1)
      BY <2>1, <2>3, OnesOfRange
    <3>3. new(k) = container_from_range(m, M + 1, 1)
      BY <2>5 DEF m, M
    <3>4. Chunk(W, k) = m .. M
      BY <1>2, <2>2, <2>5
    <3> QED
      BY <2>3, <3>1, <3>2, <3>3, <3>4
  <2> QED
    BY <2>4, <2>5
<1>6. ASSUME NEW k \in Key, k \notin keys PROVE Chunk(W, k) = Chunk(V, k)
  <2>1. Chunk(min .. max, k) = {}
    BY <1>6, ChunkOfRange
  <2> QED
    BY <1>4, <2>1
<1>7. \A k \in keys : k \in Key
  OBVIOUS
<1> HIDE DEF new, keys, W
<1>8. DOMAIN a = K /\ a = [k \in DOMAIN a |-> a[k]] /\ \A k \in K : a[k] = at(k)
  OBVIOUS
<1> HIDE DEF a
<1>9. \A k \in K : k \in Key /\ Sound(a[k], Chunk(W, k)) /\ Chunk(W, k) # {}
  <2> TAKE k \in K
  <2>1. CASE k \in keys
    BY <1>5, <1>7, <1>8, <2>1
  <2>2. CASE k \notin keys
    BY <1>2, <1>6, <1>8, <2>2
  <2> QED
    BY <2>1, <2>2
<1>10. \A k \in Key : k \notin K => Chunk(W, k) = {}
  BY <1>2, <1>6
<1> HIDE DEF K
<1>11. Represents(a, W)
  BY <1>3, <1>8, <1>9, <1>10, BitmapOf
<1> QED
  BY <1>1, <1>11 DEF W

\* A container is never NULL.
LEMMA SoundIsThere == ASSUME NEW c, NEW S, Exact(c, S) PROVE c # NULL
<1>1. c.type \in {"array", "bitset", "run"}
  BY ArrayHas, BitsetHas, RunHas DEF Exact
<1>2. NULL.type = "null"
  BY DEF NULL
<1> QED
  BY <1>1, <1>2

\* A range that is removed.
THEOREM RangeRemoved ==
  ASSUME NEW bm, NEW V, Represents(bm, V), NEW min \in Value, NEW max \in Value, min <= max
  PROVE  Represents(roaring_bitmap_remove_range_closed(bm, min, max), V \ (min .. max))
<1> DEFINE D == DOMAIN bm
           keys == {k \in D : high(min) <= k /\ k <= high(max)}
           lo(k) == ContainerMin(k, min)
           hi(k) == ContainerMax(k, max)
           at(k) == IF k \in keys THEN container_remove_range(bm[k], lo(k), hi(k)) ELSE bm[k]
           changed == [k \in D |-> at(k)]
           K == {k \in D : changed[k] # NULL}
           a == [k \in K |-> changed[k]]
           W == V \ (min .. max)
<1>1. roaring_bitmap_remove_range_closed(bm, min, max) = a
  <2>1. min \in Int /\ max \in Int /\ ~ (min > max)
    BY ValuesAreNumbers
  <2>2. a = Restrict(changed, K)
    BY DEF Restrict
  <2> QED
    BY <2>1, <2>2 DEF roaring_bitmap_remove_range_closed
<1>2. /\ V \in SUBSET Value
      /\ \A k \in D : k \in Key /\ Sound(bm[k], Chunk(V, k)) /\ Chunk(V, k) # {}
      /\ \A k \in Key : k \notin D => Chunk(V, k) = {}
  BY BitmapHas
<1>3. W \in SUBSET Value
  BY <1>2
<1>4. \A k : Chunk(W, k) = Chunk(V, k) \ Chunk(min .. max, k)
  BY DEF Chunk
<1>5. ASSUME NEW k \in D PROVE SoundOrNull(at(k), Chunk(W, k))
  <2>1. k \in Key /\ Sound(bm[k], Chunk(V, k)) /\ Chunk(V, k) # {}
    BY <1>2
  <2>2. CASE k \in keys
    <3> DEFINE m == lo(k)
               M == hi(k)
    <3>1. m \in Low /\ M \in Low /\ Chunk(min .. max, k) = m .. M /\ m <= M
      BY <2>1, <2>2, ChunkOfRange
    <3>2. Chunk(W, k) = Chunk(V, k) \ (m .. M)
      BY <1>4, <3>1
    <3>3. at(k) = container_remove_range(bm[k], m, M)
      BY <2>2
    <3> HIDE DEF m, M, at
    <3> DEFINE c == bm[k]
               S == Chunk(V, k)
    <3>4. Sound(c, S) /\ S # {} /\ m \in Low /\ M \in Low /\ m <= M
      BY <2>1, <3>1
    <3> HIDE DEF c, S
    <3>5. SoundOrNull(container_remove_range(c, m, M), S \ (m .. M))
      BY <3>4, RemovedRange
    <3> QED
      BY <3>2, <3>3, <3>5 DEF c, S
  <2>3. CASE k \notin keys
    <3>1. Chunk(min .. max, k) = {}
      BY <2>1, <2>3, ChunkOfRange
    <3>2. Chunk(W, k) = Chunk(V, k) /\ at(k) = bm[k]
      BY <1>4, <2>3, <3>1
    <3> HIDE DEF at
    <3> QED
      BY <2>1, <3>2 DEF SoundOrNull
  <2> QED
    BY <2>2, <2>3
<1>6. \A k \in D : changed[k] = at(k)
  OBVIOUS
<1> HIDE DEF at, changed
<1>7. \A k \in D : /\ changed[k] = NULL => Chunk(W, k) = {}
                   /\ changed[k] # NULL => Sound(changed[k], Chunk(W, k)) /\ Chunk(W, k) # {}
  <2> TAKE k \in D
  <2>1. SoundOrNull(changed[k], Chunk(W, k))
    BY <1>5, <1>6
  <2> QED
    BY <2>1, SoundIsLazy, SoundIsThere DEF SoundOrNull
<1>8. DOMAIN a = K /\ a = [k \in DOMAIN a |-> a[k]] /\ \A k \in K : a[k] = changed[k]
  OBVIOUS
<1> HIDE DEF a
<1>9. \A k \in DOMAIN a : k \in Key /\ Sound(a[k], Chunk(W, k)) /\ Chunk(W, k) # {}
  BY <1>2, <1>7, <1>8
<1>10. \A k \in Key : k \notin DOMAIN a => Chunk(W, k) = {}
  <2> TAKE k \in Key
  <2>1. k \notin D => Chunk(W, k) = {}
    BY <1>2, <1>4
  <2>2. k \in D /\ k \notin K => Chunk(W, k) = {}
    BY <1>7
  <2> QED
    BY <1>8, <2>1, <2>2
<1> HIDE DEF W
<1>11. Represents(a, W)
  BY <1>3, <1>8, <1>9, <1>10, BitmapOf
<1> QED
  BY <1>1, <1>11 DEF W

-----------------------------------------------------------------------------
(* Ranges that are flipped.                                                 *)

\* A container is replaced, and left out when it has no values.
LEMMA OneReplaced ==
  ASSUME NEW bm, NEW V, Represents(bm, V), NEW W, NEW k \in Key, SameBut(V, W, k), NEW c, Sound(c, Chunk(W, k))
  PROVE  Represents(WithNonempty(bm, k, c), W)
<1>1. container_nonzero_cardinality(c) <=> Chunk(W, k) # {}
  BY SoundIsLazy, LazyHasValues
<1>2. CASE Chunk(W, k) # {}
  <2>1. WithNonempty(bm, k, c) = With(bm, k, c)
    BY <1>1, <1>2 DEF WithNonempty
  <2> QED
    BY <1>2, <2>1, OneChanged
<1>3. CASE Chunk(W, k) = {}
  <2>1. WithNonempty(bm, k, c) = Without(bm, k)
    BY <1>1, <1>3 DEF WithNonempty
  <2> QED
    BY <1>3, <2>1, OneEmptied
<1> QED
  BY <1>2, <1>3

\* The range is flipped in one container, which may be missing.
LEMMA ChunkFlipped ==
  ASSUME NEW bm, NEW V, Represents(bm, V), NEW W, NEW k \in Key, SameBut(V, W, k),
         NEW first \in Value, NEW last \in Value, first <= last, high(first) <= k, k <= high(last),
         Chunk(W, k) = SymDiff(Chunk(V, k), Chunk(first .. last, k))
  PROVE  Represents(FlippedAt(bm, k, first, last), W)
<1> DEFINE m == ContainerMin(k, first)
           M == ContainerMax(k, last)
           S == Chunk(V, k)
           c == bm[k]
<1>1. m \in Low /\ M \in Low /\ Chunk(first .. last, k) = m .. M /\ m <= M
  BY ChunkOfRange
<1>2. Chunk(W, k) = SymDiff(S, m .. M)
  BY <1>1
<1>3. IF k \in DOMAIN bm THEN Sound(c, S) ELSE S = {}
  BY BitmapHas
<1>4. FlippedAt(bm, k, first, last) =
        IF high(first) # high(last) /\ m = 0 /\ M = ChunkSize - 1
        THEN inplace_fully_flip_container(bm, k)
        ELSE inplace_flip_container(bm, k, m, M)
  BY DEF FlippedAt
<1> HIDE DEF m, M
<1>5. /\ M + 1 \in Nat /\ M + 1 <= ChunkSize /\ m < M + 1 /\ (M + 1) - 1 = M /\ m \in m .. M /\ m \in Int /\ M \in Int
      /\ ChunkSize \in Nat \ {0} /\ 0 \in Low /\ Low = 0 .. ChunkSize - 1
  BY <1>1, ContainerConstants, LowAreNumbers DEF Low
<1>6. CASE high(first) # high(last) /\ m = 0 /\ M = ChunkSize - 1
  <2>1. FlippedAt(bm, k, first, last) = inplace_fully_flip_container(bm, k)
    BY <1>4, <1>6
  <2>2. m .. M = Low
    BY <1>5, <1>6
  <2>3. CASE k \in DOMAIN bm
    <3>1. inplace_fully_flip_container(bm, k) = WithNonempty(bm, k, container_not(c))
      BY <2>3 DEF inplace_fully_flip_container
    <3>2. Sound(c, S) /\ S \in SUBSET Low
      BY <1>3, <2>3, SoundIsLazy
    <3> HIDE DEF c, S
    <3>3. Sound(container_not(c), Low \ S)
      BY <3>2, Negated
    <3>4. SymDiff(S, Low) = Low \ S
      BY <3>2 DEF SymDiff
    <3>5. Sound(container_not(c), Chunk(W, k))
      BY <1>2, <2>2, <3>3, <3>4
    <3>6. Represents(WithNonempty(bm, k, container_not(c)), W)
      BY <3>5, OneReplaced
    <3> QED
      BY <2>1, <3>1, <3>6
  <2>4. CASE k \notin DOMAIN bm
    <3> DEFINE d == container_range_of_ones(0, ChunkSize)
    <3>1. inplace_fully_flip_container(bm, k) = With(bm, k, d)
      BY <2>4 DEF inplace_fully_flip_container
    <3>2. Sound(d, 0 .. ChunkSize - 1)
      BY <1>5, OnesOfRange
    <3>3. Chunk(W, k) = 0 .. ChunkSize - 1
      BY <1>2, <1>3, <1>5, <2>2, <2>4, SymDiffOfNone
    <3>4. Chunk(W, k) # {}
      BY <1>5, <3>3
    <3> HIDE DEF d
    <3>5. Represents(With(bm, k, d), W)
      BY <3>2, <3>3, <3>4, OneChanged
    <3> QED
      BY <2>1, <3>1, <3>5
  <2> QED
    BY <2>3, <2>4
<1>7. CASE ~ (high(first) # high(last) /\ m = 0 /\ M = ChunkSize - 1)
  <2>1. FlippedAt(bm, k, first, last) = inplace_flip_container(bm, k, m, M)
    BY <1>4, <1>7
  <2>3. CASE k \in DOMAIN bm
    <3>1. inplace_flip_container(bm, k, m, M) = WithNonempty(bm, k, container_not_range(c, m, M + 1))
      BY <2>3 DEF inplace_flip_container
    <3>2. Sound(c, S)
      BY <1>3, <2>3
    <3> HIDE DEF c, S
    <3>3. Sound(container_not_range(c, m, M + 1), SymDiff(S, m .. (M + 1) - 1))
      BY <1>1, <1>5, <3>2, NegatedRange
    <3>5. Sound(container_not_range(c, m, M + 1), Chunk(W, k))
      BY <1>2, <1>5, <3>3
    <3>6. Represents(WithNonempty(bm, k, container_not_range(c, m, M + 1)), W)
      BY <3>5, OneReplaced
    <3> QED
      BY <2>1, <3>1, <3>6
  <2>4. CASE k \notin DOMAIN bm
    <3> DEFINE d == container_range_of_ones(m, M + 1)
    <3>1. inplace_flip_container(bm, k, m, M) = With(bm, k, d)
      BY <2>4 DEF inplace_flip_container
    <3>2. Sound(d, m .. (M + 1) - 1)
      BY <1>1, <1>5, OnesOfRange
    <3>3. Chunk(W, k) = m .. M
      BY <1>2, <1>3, <2>4, SymDiffOfNone
    <3>4. Chunk(W, k) # {} /\ Sound(d, Chunk(W, k))
      BY <1>5, <3>2, <3>3
    <3> HIDE DEF d
    <3>5. Represents(With(bm, k, d), W)
      BY <3>4, OneChanged
    <3> QED
      BY <2>1, <3>1, <3>5
  <2> QED
    BY <2>3, <2>4
<1> QED
  BY <1>6, <1>7

FlipsFrom(first, last, start, seq) == LET flip(b, k) == FlippedAt(b, k, first, last) IN Loop(flip, start, seq)

IsFlipping(f, first, last, start, seq) ==
    /\ f[0] = start
    /\ \A n \in 1 .. Len(seq) : f[n] = FlippedAt(f[n - 1], seq[n], first, last)
    /\ FlipsFrom(first, last, start, seq) = f[Len(seq)]

\* The states of the loop that flips chunk after chunk.
LEMMA LoopOfFlips ==
  ASSUME NEW first, NEW last, NEW start, NEW seq, Len(seq) \in Nat
  PROVE  \E f : IsFlipping(f, first, last, start, seq)
<1> DEFINE Next(a, n) == FlippedAt(a, seq[n], first, last)
           Is(f, m) == f = [n \in 0 .. m |-> IF n = 0 THEN start ELSE Next(f[n - 1], n)]
           T == {m \in Nat : \E f : Is(f, m)}
<1>1. 0 \in T
  <2> HIDE DEF Next
  <2>1. Is([n \in 0 .. 0 |-> start], 0)
    OBVIOUS
  <2> QED
    BY <2>1
<1>2. ASSUME NEW m \in T PROVE m + 1 \in T
  <2> HIDE DEF Next
  <2>1. PICK f : Is(f, m)
    BY <1>2
  <2> DEFINE g == [n \in 0 .. m + 1 |-> IF n \in 0 .. m THEN f[n] ELSE Next(f[m], m + 1)]
  <2>2. \A n \in 0 .. m : f[n] = IF n = 0 THEN start ELSE Next(f[n - 1], n)
    BY <2>1
  <2>3. ASSUME NEW n \in 0 .. m + 1 PROVE g[n] = IF n = 0 THEN start ELSE Next(g[n - 1], n)
    <3>1. CASE n = 0
      BY <2>2, <3>1
    <3>2. CASE n \in 1 .. m
      BY <2>2, <3>2
    <3>3. CASE n = m + 1
      BY <3>3
    <3> QED
      BY <3>1, <3>2, <3>3
  <2>4. g = [n \in 0 .. m + 1 |-> g[n]]
    OBVIOUS
  <2>5. Is(g, m + 1)
    <3> HIDE DEF g
    <3> QED
      BY <2>3, <2>4
  <2>6. m + 1 \in Nat
    OBVIOUS
  <2> HIDE DEF Is, g
  <2> QED
    BY <2>5, <2>6
<1>3. T = Nat
  <2> HIDE DEF T
  <2>1. T \in SUBSET Nat
    BY DEF T
  <2> QED
    BY <1>1, <1>2, <2>1, NumbersByInduction
<1> DEFINE h == CHOOSE f : Is(f, Len(seq))
<1>4. Is(h, Len(seq))
  <2>1. \E f : Is(f, Len(seq))
    BY <1>3
  <2> HIDE DEF Is
  <2> QED
    BY <2>1
<1>5. FlipsFrom(first, last, start, seq) = h[Len(seq)]
  BY Zenon DEF FlipsFrom, Loop
<1>6. h[0] = start /\ \A n \in 1 .. Len(seq) : h[n] = Next(h[n - 1], n)
  <2> HIDE DEF h, Next
  <2> QED
    BY <1>4
<1> HIDE DEF h
<1>7. IsFlipping(h, first, last, start, seq)
  BY <1>5, <1>6 DEF IsFlipping
<1> QED
  BY <1>7

\* The part of a range that is flipped after n chunks.
FlippedPart(first, last, n) == {v \in first .. last : high(v) < high(first) + n}

\* The chunks of the part of a range that is flipped first.
LEMMA ChunkOfPart ==
  ASSUME NEW first \in Value, NEW last \in Value, NEW n \in Int, NEW k \in Key
  PROVE  Chunk(FlippedPart(first, last, n), k) = IF k < high(first) + n THEN Chunk(first .. last, k) ELSE {}
<1>1. \A x \in Low : high(k * ChunkSize + x) = k
  BY Whole
<1> QED
  BY <1>1 DEF Chunk, FlippedPart

\* A range that is flipped.
THEOREM RangeFlipped ==
  ASSUME NEW bm, NEW V, Represents(bm, V), NEW first \in Value, NEW last \in Value, first <= last
  PROVE  Represents(roaring_bitmap_flip_inplace(bm, first, last + 1), SymDiff(V, first .. last))
<1> DEFINE h == high(first)
           l == high(last)
           count == l - h + 1
           keys == [n \in 1 .. count |-> h + n - 1]
           flipped == FlipsFrom(first, last, bm, keys)
           part(n) == FlippedPart(first, last, n)
           after(n) == SymDiff(V, part(n))
<1>1. /\ first \in Int /\ last \in Int /\ first <= UINT32_MAX /\ UINT32_MAX \in Int
      /\ h \in Int /\ l \in Int /\ h <= l /\ 0 <= h /\ l < KeyCount /\ KeyCount \in Int
  <2>1. /\ h \in Int /\ low(first) \in Low /\ first = h * ChunkSize + low(first)
        /\ l \in Int /\ low(last) \in Low /\ last = l * ChunkSize + low(last)
    BY Halves
  <2>2. h <= l
    BY <2>1, OrderOfHalves
  <2>3. h \in Key /\ l \in Key
    BY Halves
  <2> QED
    BY <2>1, <2>2, <2>3, ValuesAreNumbers, KeyConstants
<1>2. roaring_bitmap_flip_inplace(bm, first, last + 1) = flipped
  <2>1. roaring_bitmap_flip_inplace(bm, first, last + 1) = roaring_bitmap_flip_inplace_closed(bm, first, last)
    <3>1. ~ (first >= last + 1) /\ ~ (first > UINT32_MAX + 1) /\ (last + 1) - 1 = last
      BY <1>1
    <3> QED
      BY <3>1 DEF roaring_bitmap_flip_inplace
  <2>2. ~ (first > last)
    BY <1>1
  <2>3. roaring_bitmap_flip_inplace_closed(bm, first, last) = LET flip(b, k) == FlippedAt(b, k, first, last) IN Loop(flip, bm, keys)
    BY <2>2, Zenon DEF roaring_bitmap_flip_inplace_closed
  <2>4. flipped = LET flip(b, k) == FlippedAt(b, k, first, last) IN Loop(flip, bm, keys)
    BY Zenon DEF FlipsFrom
  <2> QED
    BY <2>1, <2>3, <2>4
<1>3. V \in SUBSET Value /\ first .. last \in SUBSET Value
  BY BitmapHas, RangeOfValues
<1>4. \A n : part(n) \in SUBSET Value /\ after(n) \in SUBSET Value
  BY <1>3 DEF FlippedPart, SymDiff
<1>5. \A n : \A k : Chunk(after(n), k) = SymDiff(Chunk(V, k), Chunk(part(n), k))
  BY DEF Chunk, SymDiff
<1>6. \A n \in Int : \A k \in Key : Chunk(part(n), k) = IF k < h + n THEN Chunk(first .. last, k) ELSE {}
  BY ChunkOfPart
<1>7. count \in Nat /\ Len(keys) = count /\ \A n \in 1 .. count : keys[n] = h + n - 1
  <2>1. count \in Nat
    BY <1>1
  <2> HIDE DEF count
  <2> QED
    BY <2>1
<1>8. part(0) = {}
  <2>1. \A v \in first .. last : high(v) \in Int /\ ~ (high(v) < h + 0)
    <3> TAKE v \in first .. last
    <3>1. v \in Value /\ v \in Int /\ first <= v
      BY <1>1, <1>3
    <3>2. /\ high(v) \in Int /\ low(v) \in Low /\ v = high(v) * ChunkSize + low(v)
          /\ h \in Int /\ low(first) \in Low /\ first = h * ChunkSize + low(first)
      BY <3>1, Halves
    <3>3. h <= high(v)
      BY <3>1, <3>2, OrderOfHalves
    <3> QED
      BY <3>2, <3>3
  <2> QED
    BY <2>1 DEF FlippedPart
<1>9. part(count) = first .. last
  <2>1. \A v \in first .. last : high(v) < h + count
    <3> TAKE v \in first .. last
    <3>1. v \in Value /\ v \in Int /\ v <= last
      BY <1>1, <1>3
    <3>2. /\ high(v) \in Int /\ low(v) \in Low /\ v = high(v) * ChunkSize + low(v)
          /\ l \in Int /\ low(last) \in Low /\ last = l * ChunkSize + low(last)
      BY <3>1, Halves
    <3>3. high(v) <= l
      BY <3>1, <3>2, OrderOfHalves
    <3> QED
      BY <1>1, <3>2, <3>3
  <2> QED
    BY <2>1 DEF FlippedPart
<1> HIDE DEF part
<1>10. after(0) = V /\ after(count) = SymDiff(V, first .. last)
  BY <1>8, <1>9, SymDiffOfNone
<1>11. PICK f : /\ f[0] = bm
                /\ \A n \in 1 .. Len(keys) : f[n] = FlippedAt(f[n - 1], keys[n], first, last)
                /\ FlipsFrom(first, last, bm, keys) = f[Len(keys)]
  <2>1. Len(keys) \in Nat
    BY <1>7
  <2> HIDE DEF keys
  <2>2. PICK f : IsFlipping(f, first, last, bm, keys)
    BY <2>1, LoopOfFlips
  <2> QED
    BY <2>2 DEF IsFlipping
<1> HIDE DEF after, keys
<1> DEFINE At(n) == Represents(f[n], after(n))
           T == {n \in Nat : n <= count => At(n)}
<1>12. At(0)
  BY <1>10, <1>11
<1>13. ASSUME NEW n \in Nat, n + 1 <= count, At(n) PROVE At(n + 1)
  <2> DEFINE k == h + n
  <2>1. n + 1 \in 1 .. count /\ (n + 1) - 1 = n /\ h + (n + 1) - 1 = k /\ k \in Key /\ k \in Int /\ h <= k /\ k <= l /\ n \in Int /\ n + 1 \in Int
    BY <1>1, <1>13 DEF Key
  <2>2. f[n + 1] = FlippedAt(f[n], k, first, last)
    BY <1>7, <1>11, <2>1
  <2>3. Chunk(after(n + 1), k) = SymDiff(Chunk(after(n), k), Chunk(first .. last, k))
    <3>1. Chunk(part(n), k) = {} /\ Chunk(part(n + 1), k) = Chunk(first .. last, k)
      <4>1. ~ (k < h + n) /\ k < h + (n + 1)
        BY <1>1
      <4> QED
        BY <1>6, <2>1, <4>1
    <3>2. Chunk(after(n), k) = Chunk(V, k)
      BY <1>5, <3>1, SymDiffOfNone
    <3>3. Chunk(after(n + 1), k) = SymDiff(Chunk(V, k), Chunk(part(n + 1), k))
      BY <1>5
    <3> QED
      BY <3>1, <3>2, <3>3
  <2>4. SameBut(after(n), after(n + 1), k)
    <3>1. \A j \in Key : j # k => Chunk(after(n + 1), j) = Chunk(after(n), j)
      <4>1. ASSUME NEW j \in Key, j # k PROVE Chunk(part(n + 1), j) = Chunk(part(n), j)
        <5>1. j < h + (n + 1) <=> j < h + n
          BY <1>1, <4>1, KeyConstants
        <5> QED
          BY <1>6, <2>1, <5>1
      <4> HIDE DEF k
      <4> QED
        BY <1>5, <4>1
    <3> QED
      BY <1>4, <3>1 DEF SameBut, after, part
  <2> HIDE DEF k
  <2>5. Represents(FlippedAt(f[n], k, first, last), after(n + 1))
    BY <1>13, <2>1, <2>3, <2>4, ChunkFlipped
  <2> QED
    BY <2>2, <2>5
<1> HIDE DEF h, l
<1>14. T = Nat
  <2> HIDE DEF At, count
  <2>1. 0 \in T
    BY <1>12
  <2>2. ASSUME NEW n \in T PROVE n + 1 \in T
    BY <1>7, <1>13, <2>2
  <2>3. T \in SUBSET Nat
    OBVIOUS
  <2> HIDE DEF T
  <2> QED
    BY <2>1, <2>2, <2>3, NumbersByInduction
<1>15. At(count)
  <2> HIDE DEF At, count
  <2> QED
    BY <1>7, <1>14
<1> HIDE DEF count
<1> QED
  BY <1>2, <1>7, <1>10, <1>11, <1>15

-----------------------------------------------------------------------------
(* Ranges with a step.                                                      *)

SteppedRange(min, end, step) == {v \in min .. end - 1 : (v - min) % step = 0}

\* The numbers without remainder.
LEMMA Multiples ==
  ASSUME NEW n \in Nat \ {0}, NEW d \in Int
  PROVE  d % n = 0 <=> \E m \in Int : d = m * n
<1>1. d % n = 0 => \E m \in Int : d = m * n
  <2>1. d \div n \in Int /\ d = (d \div n) * n + (d % n)
    BY Dividing
  <2>2. (d \div n) * n \in Int
    BY <2>1
  <2> QED
    BY <2>1, <2>2
<1>2. ASSUME NEW m \in Int, d = m * n PROVE d % n = 0
  <2>1. (m * n + 0) % n = 0
    BY DividingIsUnique
  <2>2. m * n + 0 = d
    BY <1>2
  <2> QED
    BY <2>1, <2>2
<1> QED
  BY <1>1, <1>2

\* Adding a multiple makes no difference.
LEMMA SameRest ==
  ASSUME NEW n \in Nat \ {0}, NEW d \in Int, NEW e \in Int, NEW q \in Int, e = d + q * n
  PROVE  d % n = 0 <=> e % n = 0
<1>1. ASSUME NEW m \in Int, d = m * n PROVE e = (m + q) * n
  BY <1>1
<1>2. ASSUME NEW m \in Int, e = m * n PROVE d = (m - q) * n
  BY <1>2
<1>3. d % n = 0 => e % n = 0
  <2>1. SUFFICES ASSUME d % n = 0 PROVE e % n = 0
    OBVIOUS
  <2>2. PICK m \in Int : d = m * n
    BY <2>1, Multiples
  <2>3. m + q \in Int /\ e = (m + q) * n
    BY <1>1, <2>2
  <2> QED
    BY <2>3, Multiples
<1>4. e % n = 0 => d % n = 0
  <2>1. SUFFICES ASSUME e % n = 0 PROVE d % n = 0
    OBVIOUS
  <2>2. PICK m \in Int : e = m * n
    BY <2>1, Multiples
  <2>3. m - q \in Int /\ d = (m - q) * n
    BY <1>2, <2>2
  <2> QED
    BY <2>3, Multiples
<1> QED
  BY <1>3, <1>4

\* The least multiple that is not below a number.
LEMMA RoundedUp ==
  ASSUME NEW n \in Nat \ {0}, NEW d \in Int, NEW q, q = (d + n - 1) \div n
  PROVE  /\ q \in Int /\ d <= q * n
         /\ \A m \in Int : d <= m * n => q <= m /\ q * n <= m * n
<1>1. /\ q \in Int /\ (d + n - 1) % n \in Int /\ 0 <= (d + n - 1) % n /\ (d + n - 1) % n < n
      /\ d + n - 1 = q * n + ((d + n - 1) % n)
  BY Dividing
<1>2. q * n \in Int
  BY <1>1
<1>3. d <= q * n /\ q * n < d + n
  BY <1>1, <1>2
<1>4. ASSUME NEW m \in Int, d <= m * n PROVE q <= m /\ q * n <= m * n
  <2>1. m * n \in Int
    OBVIOUS
  <2>2. q <= m
    <3>1. m + 1 <= q => (m + 1) * n <= q * n
      BY <1>1
    <3>2. (m + 1) * n = m * n + n
      OBVIOUS
    <3> QED
      BY <1>1, <1>2, <1>3, <1>4, <2>1, <3>1, <3>2
  <2>3. q * n <= m * n
    BY <1>1, <2>2
  <2> QED
    BY <2>2, <2>3
<1> QED
  BY <1>1, <1>3, <1>4

\* The values with a step that are in one chunk.
LEMMA ChunkStepped ==
  ASSUME NEW min \in Value, NEW max \in Nat, max <= UINT32_MAX + 1, NEW step \in Nat \ {0},
         NEW k \in Key, NEW V, V = SteppedRange(min, max, step), Chunk(V, k) # {}
  PROVE  Sound(SteppedContainer(min, max, step, k), Chunk(V, k))
<1> DEFINE base == k * ChunkSize
           from == Max({min, base})
           q == (from - min + step - 1) \div step
           first == min + q * step
           end == Min({max - base, ChunkSize})
<1>1. /\ ChunkSize \in Nat \ {0} /\ k \in Int /\ base \in Int /\ min \in Int /\ max \in Int
      /\ \A x : x \in Low <=> x \in Int /\ 0 <= x /\ x <= ChunkSize - 1
  BY ContainerConstants, KeyConstants, ValuesAreNumbers DEF Low
<1>2. SteppedContainer(min, max, step, k) = container_from_range(low(first), end, step)
  BY DEF SteppedContainer
<1>3. from \in Int /\ (from = IF min <= base THEN base ELSE min) /\ min <= from /\ base <= from
  BY <1>1, MaxOfTwo
<1>4. end \in Int /\ (end = IF max - base <= ChunkSize THEN max - base ELSE ChunkSize)
  BY <1>1, MinOfTwo
<1> HIDE DEF from, end, base
<1>5. /\ q \in Int /\ from - min <= q * step
      /\ \A m \in Int : from - min <= m * step => q <= m /\ q * step <= m * step
  <2> DEFINE d == from - min
  <2>1. d \in Int /\ q = (d + step - 1) \div step
    BY <1>1, <1>3
  <2> HIDE DEF d, q
  <2>2. /\ q \in Int /\ d <= q * step
        /\ \A m \in Int : d <= m * step => q <= m /\ q * step <= m * step
    BY <2>1, RoundedUp
  <2> QED
    BY <2>2 DEF d
<1> HIDE DEF q
<1>6. q * step \in Int /\ first \in Int /\ from <= first
  BY <1>1, <1>3, <1>5
<1>7. \A v \in Int : from <= v /\ (v - min) % step = 0 => first <= v
  <2>1. SUFFICES ASSUME NEW v \in Int, from <= v, (v - min) % step = 0 PROVE first <= v
    OBVIOUS
  <2>2. PICK m \in Int : v - min = m * step
    <3> DEFINE d == v - min
    <3>1. d \in Int /\ d % step = 0
      BY <1>1, <2>1
    <3> HIDE DEF d
    <3>2. \E m \in Int : d = m * step
      BY <3>1, Multiples
    <3> QED
      BY <3>2 DEF d
  <2>3. from - min <= m * step
    BY <1>1, <1>3, <2>1, <2>2
  <2>4. q * step <= m * step /\ m * step \in Int
    BY <1>5, <2>3
  <2> QED
    BY <1>1, <1>6, <2>2, <2>4
<1>8. \A v \in Int : (v - min) % step = 0 <=> (v - first) % step = 0
  <2> TAKE v \in Int
  <2>1. v - min \in Int /\ v - first \in Int /\ v - min = (v - first) + q * step
    BY <1>1, <1>6
  <2> HIDE DEF first
  <2> QED
    BY <1>5, <2>1, SameRest
<1>9. first = base + (first - base) /\ first - base \in Int
  BY <1>1, <1>6
<1>10. \A x \in Low : x \in Chunk(V, k) <=> min <= base + x /\ base + x <= max - 1 /\ ((base + x) - min) % step = 0
  BY <1>1 DEF Chunk, SteppedRange, base
<1>11. PICK y \in Low : y \in Chunk(V, k)
  BY DEF Chunk
<1>12. /\ min <= base + y /\ base + y <= max - 1 /\ ((base + y) - min) % step = 0 /\ y \in Int
       /\ 0 <= y /\ y <= ChunkSize - 1
  BY <1>1, <1>10, <1>11
<1>13. from <= base + y /\ base + y \in Int
  BY <1>1, <1>3, <1>12
<1>14. first <= base + y
  BY <1>7, <1>12, <1>13
<1> DEFINE l == first - base
<1>15. l \in Low /\ l \in Int /\ l <= y /\ 0 <= l
  BY <1>1, <1>3, <1>6, <1>12, <1>13, <1>14
<1> HIDE DEF first, l
<1>16. low(first) = l
  <2>1. base + l = first
    BY <1>1, <1>6, <1>15 DEF l
  <2>2. low(k * ChunkSize + l) = l
    BY <1>15, Whole
  <2> QED
    BY <2>1, <2>2 DEF base
<1>17. end \in Nat /\ end <= ChunkSize /\ l < end
  BY <1>1, <1>4, <1>12, <1>15
<1>18. Sound(container_from_range(l, end, step), Stepped(l, end, step))
  BY <1>15, <1>17, MadeFromRange
<1>19. Stepped(l, end, step) \subseteq Low
  BY <1>15, <1>17, CountOfSteps
<1>20. ASSUME NEW x \in Low PROVE x \in Stepped(l, end, step) <=> x \in Chunk(V, k)
  <2>1. x \in Int /\ 0 <= x /\ x <= ChunkSize - 1 /\ base + x \in Int
    BY <1>1
  <2>2. x \in Stepped(l, end, step) <=> l <= x /\ x <= end - 1 /\ (x - l) % step = 0
    BY <1>1, <1>15, <1>17, <2>1 DEF Stepped
  <2>3. x - l = (base + x) - first
    BY <1>1, <1>6, <2>1 DEF l
  <2>4. (x - l) % step = 0 <=> ((base + x) - min) % step = 0
    BY <1>8, <2>1, <2>3
  <2>5. x <= end - 1 <=> base + x <= max - 1
    BY <1>1, <1>4, <2>1
  <2>6. (l <= x) <=> first <= base + x
    BY <1>1, <1>6, <2>1 DEF l
  <2>7. first <= base + x => min <= base + x
    BY <1>1, <1>3, <1>6, <2>1
  <2>8. (min <= base + x /\ ((base + x) - min) % step = 0) => first <= base + x
    <3>1. min <= base + x => from <= base + x
      BY <1>1, <1>3, <2>1
    <3> QED
      BY <1>7, <2>1, <3>1
  <2> QED
    BY <1>10, <2>2, <2>4, <2>5, <2>6, <2>7, <2>8
<1>21. Chunk(V, k) \subseteq Low
  BY DEF Chunk
<1>22. Stepped(l, end, step) = Chunk(V, k)
  BY <1>19, <1>20, <1>21
<1> QED
  BY <1>2, <1>16, <1>18, <1>22

\* roaring_bitmap_from_range with a step below the size of a container.
LEMMA FromSmallSteps ==
  ASSUME NEW min \in Value, NEW max \in Nat, max <= UINT32_MAX + 1, min < max, NEW step \in Nat \ {0}, step < ChunkSize
  PROVE  Represents(roaring_bitmap_from_range(min, max, step), SteppedRange(min, max, step))
<1> DEFINE V == SteppedRange(min, max, step)
           K == {x \in Key : \E v \in min .. max - 1 : high(v) = x /\ (v - min) % step = 0}
           a == [k \in K |-> SteppedContainer(min, max, step, k)]
<1>1. min \in Int /\ max \in Int /\ UINT32_MAX \in Int /\ 0 <= min /\ ChunkSize \in Nat
  BY ValuesAreNumbers, ContainerConstants
<1>2. roaring_bitmap_from_range(min, max, step) = a
  BY <1>1 DEF roaring_bitmap_from_range
<1>3. V \in SUBSET Value
  BY <1>1 DEF SteppedRange, Value
<1>4. \A k \in Key : k \in K <=> Chunk(V, k) # {}
  <2> TAKE k \in Key
  <2>1. k \in K <=> \E v \in V : high(v) = k
    BY DEF SteppedRange
  <2>2. ASSUME NEW v \in V, high(v) = k PROVE Chunk(V, k) # {}
    BY <1>3, <2>2, ChunkHas
  <2>3. ASSUME NEW x \in Chunk(V, k) PROVE \E v \in V : high(v) = k
    <3>1. x \in Low /\ k * ChunkSize + x \in V /\ high(k * ChunkSize + x) = k
      BY Whole DEF Chunk
    <3> QED
      BY <3>1
  <2> QED
    BY <2>1, <2>2, <2>3
<1>5. \A k \in K : k \in Key /\ Sound(SteppedContainer(min, max, step, k), Chunk(V, k)) /\ Chunk(V, k) # {}
  BY <1>4, ChunkStepped
<1> HIDE DEF K, V
<1>6. DOMAIN a = K /\ a = [k \in DOMAIN a |-> a[k]] /\ \A k \in K : a[k] = SteppedContainer(min, max, step, k)
  OBVIOUS
<1> HIDE DEF a
<1>7. Represents(a, V)
  BY <1>3, <1>4, <1>5, <1>6, BitmapOf
<1> QED
  BY <1>2, <1>7 DEF V

\* The values that a large step goes through before the counter is at the end or wraps around.
LEMMA LargeSteps ==
  ASSUME NEW min \in Value, NEW max \in Nat, max <= UINT32_MAX + 1, min < max, NEW step \in Nat \ {0}, step >= ChunkSize,
         RangeEnds(min, max, step), ~ RangeWraps(min, max, step), NEW N, N = Min(SteppedEnd(min, max, step))
  PROVE  /\ N \in Nat \ {0}
         /\ \A n \in 0 .. N - 1 : /\ SteppedValue(min, step, n) = min + n * step
                                  /\ SteppedValue(min, step, n) \in SteppedRange(min, max, step)
         /\ \A v \in SteppedRange(min, max, step) : \E n \in 0 .. N - 1 : v = min + n * step
<1> DEFINE M == UINT32_MAX + 1
<1>1. min \in Int /\ max \in Int /\ M \in Nat \ {0} /\ UINT32_MAX \in Int /\ 0 <= min /\ min < M /\ ChunkSize \in Nat
  BY ValuesAreNumbers, ContainerConstants
<1>2. SteppedEnd(min, max, step) # {}
  BY <1>1 DEF RangeEnds
<1>3. SteppedEnd(min, max, step) \in SUBSET (1 .. M)
  BY DEF SteppedEnd
<1>4. N \in SteppedEnd(min, max, step) /\ \A n \in SteppedEnd(min, max, step) : N <= n
  <2> DEFINE E == SteppedEnd(min, max, step)
  <2>1. E # {} /\ E \in SUBSET Nat
    BY <1>1, <1>2, <1>3
  <2> HIDE DEF E
  <2>2. Min(E) \in E /\ \A n \in E : Min(E) <= n
    BY <2>1, MinOfSome
  <2> QED
    BY <2>2 DEF E
<1>5. N \in 1 .. M /\ N \in Nat /\ N >= 1 /\ SteppedValue(min, step, N) >= max
  BY <1>1, <1>4 DEF SteppedEnd
<1>6. \A n \in Nat : SteppedValue(min, step, n) = (min + n * step) % M /\ n * step \in Nat
  BY DEF SteppedValue
<1>7. \A n \in Nat : SteppedValue(min, step, n) \in Int
  <2> TAKE n \in Nat
  <2>1. min + n * step \in Int
    BY <1>1, <1>6
  <2> HIDE DEF M
  <2> QED
    BY <1>1, <1>6, <2>1
<1>8. \A n \in 1 .. N - 1 : SteppedValue(min, step, n) < max
  <2> TAKE n \in 1 .. N - 1
  <2>1. n \in 1 .. M /\ n \in Nat /\ ~ (N <= n)
    BY <1>1, <1>5
  <2>2. n \notin SteppedEnd(min, max, step)
    BY <1>4, <2>1
  <2> QED
    BY <1>1, <1>7, <2>1, <2>2 DEF SteppedEnd
<1>9. \A n \in Nat : min + n * step <= UINT32_MAX => SteppedValue(min, step, n) = min + n * step
  <2> TAKE n \in Nat
  <2>1. min + n * step \in Int /\ 0 <= min + n * step
    BY <1>1, <1>6
  <2>2. SUFFICES ASSUME min + n * step < M PROVE SteppedValue(min, step, n) = min + n * step
    BY <1>1, <2>1
  <2> DEFINE v == min + n * step
  <2> HIDE DEF M, v
  <2>3. (0 * M + v) % M = v
    <3>1. M \in Nat \ {0} /\ v \in Int /\ 0 <= v /\ v < M /\ 0 \in Int
      BY <1>1, <2>1, <2>2 DEF v
    <3> QED
      BY ONLY <3>1, DividingIsUnique
  <2>4. 0 * M + v = v
    BY <1>1, <2>1 DEF v
  <2> QED
    BY <1>6, <2>3, <2>4 DEF v
<1>10. \A n \in 0 .. N - 1 : min + n * step <= UINT32_MAX
  <2> TAKE n \in 0 .. N - 1
  <2>1. n \in Nat /\ n <= N - 1 /\ n * step \in Nat
    BY <1>5, <1>6
  <2>2. CASE n = 0
    BY <1>1, <2>2
  <2>3. CASE n # 0
    <3>1. n \in 1 .. M /\ \A m \in 1 .. n : SteppedValue(min, step, m) < max
      BY <1>1, <1>5, <1>8, <2>1, <2>3
    <3>2. ~ (min + n * step > UINT32_MAX)
      BY <3>1 DEF RangeWraps
    <3> QED
      BY <1>1, <2>1, <3>2
  <2> QED
    BY <2>2, <2>3
<1>11. \A n \in 0 .. N - 1 : SteppedValue(min, step, n) = min + n * step /\ n \in Nat
  BY <1>5, <1>9, <1>10
<1>12. \A n \in 0 .. N - 1 : SteppedValue(min, step, n) \in SteppedRange(min, max, step)
  <2> TAKE n \in 0 .. N - 1
  <2> DEFINE v == min + n * step
  <2>1. SteppedValue(min, step, n) = v /\ n \in Nat /\ n * step \in Nat /\ n \in Int
    BY <1>6, <1>11
  <2>2. v \in Int /\ min <= v /\ v - min = n * step
    BY <1>1, <2>1
  <2>3. v < max
    <3>1. CASE n = 0
      BY <1>1, <2>1, <3>1
    <3>2. CASE n # 0
      <4>1. n \in 1 .. N - 1
        BY <1>5, <3>2
      <4> QED
        BY <1>8, <2>1, <4>1
    <3> QED
      BY <3>1, <3>2
  <2>4. (v - min) % step = 0
    <3> HIDE DEF v
    <3>1. v - min \in Int
      BY <1>1, <2>2
    <3> DEFINE d == v - min
    <3>2. d \in Int /\ d = n * step
      BY <2>2, <3>1
    <3> HIDE DEF d
    <3>3. d % step = 0
      BY <2>1, <3>2, Multiples
    <3> QED
      BY <3>3 DEF d
  <2> HIDE DEF v
  <2>5. v \in min .. max - 1
    BY <1>1, <2>2, <2>3
  <2> QED
    BY <2>1, <2>4, <2>5 DEF SteppedRange
<1>13. ASSUME NEW v \in SteppedRange(min, max, step) PROVE \E n \in 0 .. N - 1 : v = min + n * step
  <2> DEFINE d == v - min
  <2>1. v \in Int /\ min <= v /\ v <= max - 1 /\ d \in Int /\ 0 <= d /\ d % step = 0 /\ v = min + d
    BY <1>1 DEF SteppedRange
  <2> HIDE DEF d
  <2>2. PICK m \in Int : d = m * step
    BY <2>1, Multiples
  <2>3. 0 <= m
    <3>1. m <= -1 => m * step <= (-1) * step
      OBVIOUS
    <3>2. (-1) * step = -step
      OBVIOUS
    <3>3. m * step \in Int
      OBVIOUS
    <3> QED
      BY <2>1, <2>2, <3>1, <3>2, <3>3
  <2>4. m <= N - 1
    <3>1. SUFFICES ASSUME N <= m PROVE FALSE
      BY <1>5
    <3>2. N * step <= m * step /\ N * step \in Nat /\ m * step \in Int
      BY <1>5, <3>1
    <3>3. min + N * step <= v /\ min + N * step \in Int
      BY <1>1, <2>1, <2>2, <3>2
    <3>4. min + N * step <= UINT32_MAX
      BY <1>1, <2>1, <3>3
    <3>5. SteppedValue(min, step, N) = min + N * step
      BY <1>5, <1>9, <3>4
    <3>6. min + N * step >= max
      BY <1>5, <3>5
    <3> QED
      BY <1>1, <2>1, <3>3, <3>6
  <2>5. m \in 0 .. N - 1
    BY <1>5, <2>3, <2>4
  <2> QED
    BY <2>1, <2>2, <2>5
<1> QED
  BY <1>5, <1>11, <1>12, <1>13

\* A range with a step.
THEOREM RangeMade ==
  ASSUME NEW min \in Value, NEW max \in Nat, max <= UINT32_MAX + 1, min < max, NEW step \in Nat \ {0},
         RangeEnds(min, max, step), ~ RangeWraps(min, max, step)
  PROVE  Represents(roaring_bitmap_from_range(min, max, step), SteppedRange(min, max, step))
<1>1. ChunkSize \in Nat
  BY ContainerConstants
<1>2. CASE step < ChunkSize
  BY <1>2, FromSmallSteps
<1>3. CASE step >= ChunkSize
  <2> DEFINE N == Min(SteppedEnd(min, max, step))
             V == SteppedRange(min, max, step)
             vals == [n \in 1 .. N |-> SteppedValue(min, step, n - 1)]
  <2>1. roaring_bitmap_from_range(min, max, step) = roaring_bitmap_add_many(Empty, vals)
    BY <1>3 DEF roaring_bitmap_from_range
  <2>2. /\ N \in Nat \ {0}
        /\ \A n \in 0 .. N - 1 : /\ SteppedValue(min, step, n) = min + n * step
                                 /\ SteppedValue(min, step, n) \in V
        /\ \A v \in V : \E n \in 0 .. N - 1 : v = min + n * step
    BY <1>3, LargeSteps
  <2>3. V \in SUBSET Value
    <3>1. min \in Int /\ max \in Int /\ UINT32_MAX \in Int /\ 0 <= min
      BY ValuesAreNumbers
    <3> QED
      BY <3>1 DEF SteppedRange, Value
  <2> HIDE DEF N, V
  <2>4. \A n \in 1 .. N : n - 1 \in 0 .. N - 1
    BY <2>2
  <2>5. vals \in Seq(V)
    BY <2>2, <2>4
  <2>6. vals \in Seq(Value)
    BY <2>3, <2>5
  <2>7. ToSet(vals) = V
    <3>1. DOMAIN vals = 1 .. N /\ \A n \in 1 .. N : vals[n] = SteppedValue(min, step, n - 1)
      OBVIOUS
    <3> HIDE DEF vals
    <3>2. \A x \in ToSet(vals) : x \in V
      BY <2>2, <2>4, <3>1 DEF ToSet
    <3>3. ASSUME NEW v \in V PROVE v \in ToSet(vals)
      <4>1. PICK n \in 0 .. N - 1 : v = min + n * step
        BY <2>2
      <4>2. n + 1 \in 1 .. N /\ (n + 1) - 1 = n
        BY <2>2
      <4>3. vals[n + 1] = v
        BY <2>2, <3>1, <4>1, <4>2
      <4> QED
        BY <3>1, <4>2, <4>3 DEF ToSet
    <3> QED
      BY <3>2, <3>3
  <2> HIDE DEF vals
  <2>8. Represents(roaring_bitmap_add_many(Empty, vals), {} \cup ToSet(vals))
    BY <2>6, EmptyBitmap, ValuesAdded
  <2>9. {} \cup ToSet(vals) = V
    BY <2>7
  <2> QED
    BY <2>1, <2>8, <2>9 DEF V
<1> QED
  BY <1>1, <1>2, <1>3

-----------------------------------------------------------------------------
(* Bitmaps that are moved.                                                  *)

MovedBy(V, offset) == {v + offset : v \in V} \cap Value

\* Outside the keys there are no values.
LEMMA NoChunkOutside ==
  ASSUME NEW V \in SUBSET Value, NEW k \in Int, k \notin Key
  PROVE  Chunk(V, k) = {}
<1> SUFFICES ASSUME NEW x \in Low, k * ChunkSize + x \in V PROVE FALSE
  BY DEF Chunk
<1> DEFINE v == k * ChunkSize + x
<1>1. high(v) \in Key
  BY Halves
<1>2. ChunkSize \in Nat \ {0} /\ x \in Int /\ 0 <= x /\ x < ChunkSize
  BY ContainerConstants, LowAreNumbers
<1>3. high(v) = k
  BY <1>2, DividingIsUnique DEF high
<1> QED
  BY <1>1, <1>3

\* A chunk of what is moved has parts of two chunks.
LEMMA ChunkOfMoved ==
  ASSUME NEW V \in SUBSET Value, NEW q \in Int, NEW r \in Low, NEW offset, offset = q * ChunkSize + r, NEW k \in Key
  PROVE  Chunk(MovedBy(V, offset), k) = LowPart(Chunk(V, k - q), r) \cup HighPart(Chunk(V, k - 1 - q), r)
<1>1. /\ ChunkSize \in Nat \ {0} /\ r \in Int /\ 0 <= r /\ r < ChunkSize /\ k \in Int /\ k - q \in Int /\ k - 1 - q \in Int
      /\ \A x : x \in Low <=> x \in Int /\ 0 <= x /\ x < ChunkSize
  BY ContainerConstants, LowAreNumbers, KeyConstants DEF Low
<1> DEFINE S == Chunk(V, k - q)
           T == Chunk(V, k - 1 - q)
           A == (k - q) * ChunkSize
           B == (k - 1 - q) * ChunkSize
           K == k * ChunkSize
<1>2. A \in Int /\ B \in Int /\ K \in Int /\ q * ChunkSize \in Int
  BY <1>1
<1>3. A = K - q * ChunkSize /\ B = K - q * ChunkSize - ChunkSize
  BY <1>1
<1>4. offset \in Int
  BY <1>1, <1>2
<1>5. /\ \A x : x \in S <=> x \in Low /\ A + x \in V
      /\ \A x : x \in T <=> x \in Low /\ B + x \in V
  BY DEF Chunk
<1>6. \A v \in V : v \in Int
  BY ValuesAreNumbers
<1>7. \A x \in Low : K + x \in Value
  BY Whole
<1> HIDE DEF S, T, A, B, K
<1>8. ASSUME NEW x \in Low PROVE x \in Chunk(MovedBy(V, offset), k) <=> x \in LowPart(S, r) \cup HighPart(T, r)
  <2>1. x \in Int /\ 0 <= x /\ x < ChunkSize /\ x - r \in Int /\ x - r + ChunkSize \in Int
    BY <1>1
  <2>2. x \in Chunk(MovedBy(V, offset), k) <=> K + x \in MovedBy(V, offset)
    BY DEF Chunk, K
  <2>3. K + x \in MovedBy(V, offset) <=> (K + x) - offset \in V
    <3>1. K + x \in MovedBy(V, offset) <=> \E v \in V : K + x = v + offset
      BY <1>7 DEF MovedBy
    <3>2. \A v \in V : K + x = v + offset <=> v = (K + x) - offset
      BY <1>2, <1>4, <1>6, <2>1
    <3> QED
      BY <3>1, <3>2
  <2>4. x \in LowPart(S, r) <=> x - r \in S
    <3>1. x \in LowPart(S, r) <=> \E y \in S : x = y + r
      BY DEF LowPart
    <3>2. \A y \in S : y \in Int
      BY <1>1, <1>5
    <3>3. \A y \in S : x = y + r <=> y = x - r
      BY <1>1, <2>1, <3>2
    <3> QED
      BY <3>1, <3>3
  <2>5. x \in HighPart(T, r) <=> x - r + ChunkSize \in T
    <3>1. x \in HighPart(T, r) <=> \E y \in T : x = y + r - ChunkSize
      BY DEF HighPart
    <3>2. \A y \in T : y \in Int
      BY <1>1, <1>5
    <3>3. \A y \in T : x = y + r - ChunkSize <=> y = x - r + ChunkSize
      BY <1>1, <2>1, <3>2
    <3> QED
      BY <3>1, <3>3
  <2>6. CASE r <= x
    <3>1. x - r \in Low /\ x - r + ChunkSize \notin Low
      BY <1>1, <2>1, <2>6
    <3>2. (K + x) - offset = A + (x - r)
      BY <1>1, <1>2, <1>3, <2>1
    <3> QED
      BY <1>5, <2>2, <2>3, <2>4, <2>5, <3>1, <3>2
  <2>7. CASE x < r
    <3>1. x - r \notin Low /\ x - r + ChunkSize \in Low
      BY <1>1, <2>1, <2>7
    <3>2. (K + x) - offset = B + (x - r + ChunkSize)
      BY <1>1, <1>2, <1>3, <2>1
    <3> QED
      BY <1>5, <2>2, <2>3, <2>4, <2>5, <3>1, <3>2
  <2> QED
    BY <1>1, <2>1, <2>6, <2>7
<1>9. Chunk(MovedBy(V, offset), k) \subseteq Low /\ LowPart(S, r) \cup HighPart(T, r) \subseteq Low
  BY DEF Chunk, LowPart, HighPart
<1>10. Chunk(MovedBy(V, offset), k) = LowPart(S, r) \cup HighPart(T, r)
  BY <1>8, <1>9
<1> QED
  BY <1>10 DEF S, T

\* Nothing is moved from nothing.
LEMMA PartsOfNone == \A r : LowPart({}, r) = {} /\ HighPart({}, r) = {}
  BY DEF LowPart, HighPart

\* Without a rest the chunks are moved as they are.
LEMMA PartsWithoutRest ==
  ASSUME NEW S \in SUBSET Low
  PROVE  LowPart(S, 0) = S /\ HighPart(S, 0) = {}
<1>1. \A x \in Low : x \in Int /\ 0 <= x /\ x < ChunkSize /\ x + 0 = x /\ ChunkSize \in Int /\ x + 0 - ChunkSize < 0
  BY LowAreNumbers, ContainerConstants
<1>2. HighPart(S, 0) = {}
  <2> SUFFICES ASSUME NEW y \in HighPart(S, 0) PROVE FALSE
    OBVIOUS
  <2>1. y \in Low /\ \E x \in S : y = x + 0 - ChunkSize
    BY DEF HighPart
  <2> QED
    BY <1>1, <2>1
<1>3. LowPart(S, 0) = S
  BY <1>1 DEF LowPart
<1> QED
  BY <1>2, <1>3

\* The two parts that meet in a chunk.
LEMMA PartsMerged ==
  ASSUME NEW a, NEW S, ExactOrNull(a, S), NEW b, NEW T, ExactOrNull(b, T), a # NULL \/ b # NULL, NEW c,
         c = IF a = NULL THEN b ELSE IF b = NULL THEN a ELSE container_ior(a, b)
  PROVE  Lazy(c, S \cup T) /\ S \cup T # {}
<1>1. /\ a = NULL => S = {}
      /\ a # NULL => S # {} /\ Exact(a, S)
      /\ b = NULL => T = {}
      /\ b # NULL => T # {} /\ Exact(b, T)
  BY SoundIsThere DEF ExactOrNull
<1>2. CASE a = NULL
  <2>1. c = b /\ S \cup T = T /\ Exact(b, T) /\ T # {}
    BY <1>1, <1>2
  <2> QED
    BY <2>1 DEF Lazy
<1>3. CASE a # NULL /\ b = NULL
  <2>1. c = a /\ S \cup T = S /\ Exact(a, S) /\ S # {}
    BY <1>1, <1>3
  <2> QED
    BY <2>1 DEF Lazy
<1>4. CASE a # NULL /\ b # NULL
  <2>1. c = container_ior(a, b) /\ Exact(a, S) /\ Exact(b, T) /\ S # {}
    BY <1>1, <1>4
  <2>2. Kept(a, S, b, T, container_ior(a, b), S \cup T)
    BY <2>1, ContainersUnite
  <2>3. S \cup T # {}
    BY <2>1
  <2> QED
    BY <2>1, <2>2, <2>3 DEF Kept, Lazy
<1> QED
  BY <1>2, <1>3, <1>4

\* Every value is moved, and those that leave the range are lost.
THEOREM BitmapMoved ==
  ASSUME NEW bm, NEW V, Represents(bm, V), NEW offset \in Int
  PROVE  Represents(roaring_bitmap_add_offset(bm, offset), MovedBy(V, offset))
<1> DEFINE q == offset \div ChunkSize
           r == offset % ChunkSize
           W == MovedBy(V, offset)
<1>1. /\ ChunkSize \in Nat \ {0} /\ q \in Int /\ r \in Int /\ 0 <= r /\ r < ChunkSize
      /\ offset = q * ChunkSize + r /\ r \in Low
  <2>1. ChunkSize \in Nat \ {0} /\ \A x : x \in Low <=> x \in Int /\ 0 <= x /\ x < ChunkSize
    BY ContainerConstants DEF Low
  <2> QED
    BY <2>1, Dividing
<1>2. /\ V \in SUBSET Value
      /\ \A k \in DOMAIN bm : k \in Key /\ Sound(bm[k], Chunk(V, k)) /\ Chunk(V, k) # {}
      /\ \A k \in Key : k \notin DOMAIN bm => Chunk(V, k) = {}
  BY BitmapHas
<1>3. \A k \in Int : /\ k \notin DOMAIN bm => Chunk(V, k) = {}
                     /\ Chunk(V, k) \in SUBSET Low
  BY <1>2, NoChunkOutside, ChunkHas
<1>4. W \in SUBSET Value
  BY DEF MovedBy
<1>5. CASE offset = 0
  <2>1. W = V
    <3>1. \A v \in V : v + offset = v /\ v \in Value
      BY <1>2, <1>5, ValuesAreNumbers
    <3> QED
      BY <3>1 DEF MovedBy
  <2>2. roaring_bitmap_add_offset(bm, offset) = bm
    BY <1>5 DEF roaring_bitmap_add_offset
  <2> QED
    BY <2>1, <2>2
<1>6. CASE offset # 0 /\ r = 0
  <2> DEFINE K == {x \in Key : x - q \in DOMAIN bm}
             a == [k \in K |-> bm[k - q]]
  <2>1. roaring_bitmap_add_offset(bm, offset) = a
    BY <1>6 DEF roaring_bitmap_add_offset
  <2> HIDE DEF q, r
  <2>2. ASSUME NEW k \in Key PROVE Chunk(W, k) = Chunk(V, k - q)
    <3> DEFINE S == Chunk(V, k - q)
               T == Chunk(V, k - 1 - q)
    <3>1. Chunk(W, k) = LowPart(S, r) \cup HighPart(T, r)
      BY <1>1, <1>2, ChunkOfMoved
    <3>2. k - q \in Int /\ k - 1 - q \in Int
      BY <1>1, KeyConstants
    <3>3. S \in SUBSET Low /\ T \in SUBSET Low
      BY <1>3, <3>2
    <3> HIDE DEF S, T
    <3>4. LowPart(S, r) \cup HighPart(T, r) = S
      BY <1>6, <3>3, PartsWithoutRest
    <3> QED
      BY <3>1, <3>4 DEF S
  <2>3. \A k \in K : k \in Key /\ Sound(bm[k - q], Chunk(W, k)) /\ Chunk(W, k) # {}
    BY <1>2, <2>2
  <2>4. \A k \in Key : k \notin K => Chunk(W, k) = {}
    <3> TAKE k \in Key
    <3>1. k - q \in Int
      BY <1>1, KeyConstants
    <3> QED
      BY <1>3, <2>2, <3>1
  <2> HIDE DEF K, W
  <2>5. DOMAIN a = K /\ a = [k \in DOMAIN a |-> a[k]] /\ \A k \in K : a[k] = bm[k - q]
    OBVIOUS
  <2> HIDE DEF a
  <2>6. Represents(a, W)
    BY <1>4, <2>3, <2>4, <2>5, BitmapOf
  <2> QED
    BY <2>1, <2>6 DEF W
<1>7. CASE offset # 0 /\ r # 0
  <2> DEFINE lo(k) == IF k - q \in DOMAIN bm THEN container_add_offset(bm[k - q], r).lo ELSE NULL
             hi(k) == IF k - 1 - q \in DOMAIN bm THEN container_add_offset(bm[k - 1 - q], r).hi ELSE NULL
             merged(last, c) == IF last = NULL THEN c ELSE IF c = NULL THEN last ELSE container_ior(last, c)
             K == {x \in Key : lo(x) # NULL \/ hi(x) # NULL}
             a == [k \in K |-> merged(hi(k), lo(k))]
  <2>1. roaring_bitmap_add_offset(bm, offset) = roaring_bitmap_repair_after_lazy(a)
    BY <1>7 DEF roaring_bitmap_add_offset
  <2>2. r \in Nat /\ 0 < r /\ r < ChunkSize
    BY <1>1, <1>7
  <2> HIDE DEF q, r
  <2>3. ASSUME NEW k \in Int, k \in DOMAIN bm
        PROVE  /\ ExactOrNull(container_add_offset(bm[k], r).lo, LowPart(Chunk(V, k), r))
               /\ ExactOrNull(container_add_offset(bm[k], r).hi, HighPart(Chunk(V, k), r))
    <3> DEFINE c == bm[k]
               S == Chunk(V, k)
    <3>1. Exact(c, S)
      BY <1>2, <2>3, SoundIsLazy
    <3> HIDE DEF c, S
    <3>2. /\ ExactOrNull(container_add_offset(c, r).lo, LowPart(S, r))
          /\ ExactOrNull(container_add_offset(c, r).hi, HighPart(S, r))
      BY <2>2, <3>1, Moved
    <3> QED
      BY <3>2 DEF c, S
  <2>4. ASSUME NEW k \in Key
        PROVE  /\ ExactOrNull(lo(k), LowPart(Chunk(V, k - q), r))
               /\ ExactOrNull(hi(k), HighPart(Chunk(V, k - 1 - q), r))
    <3>1. k - q \in Int /\ k - 1 - q \in Int
      BY <1>1, KeyConstants
    <3>2. ExactOrNull(lo(k), LowPart(Chunk(V, k - q), r))
      <4>1. CASE k - q \in DOMAIN bm
        BY <2>3, <3>1, <4>1
      <4>2. CASE k - q \notin DOMAIN bm
        <5>1. LowPart(Chunk(V, k - q), r) = {} /\ lo(k) = NULL
          BY <1>3, <3>1, <4>2, PartsOfNone
        <5> QED
          BY <5>1 DEF ExactOrNull
      <4> QED
        BY <4>1, <4>2
    <3>3. ExactOrNull(hi(k), HighPart(Chunk(V, k - 1 - q), r))
      <4>1. CASE k - 1 - q \in DOMAIN bm
        BY <2>3, <3>1, <4>1
      <4>2. CASE k - 1 - q \notin DOMAIN bm
        <5>1. HighPart(Chunk(V, k - 1 - q), r) = {} /\ hi(k) = NULL
          BY <1>3, <3>1, <4>2, PartsOfNone
        <5> QED
          BY <5>1 DEF ExactOrNull
      <4> QED
        BY <4>1, <4>2
    <3> QED
      BY <3>2, <3>3
  <2> HIDE DEF lo, hi, W
  <2>5. ASSUME NEW k \in Key
        PROVE  /\ k \in K => Lazy(merged(hi(k), lo(k)), Chunk(W, k)) /\ Chunk(W, k) # {}
               /\ k \notin K => Chunk(W, k) = {}
    <3> DEFINE S == LowPart(Chunk(V, k - q), r)
               T == HighPart(Chunk(V, k - 1 - q), r)
    <3>1. Chunk(W, k) = T \cup S
      BY <1>1, <1>2, ChunkOfMoved DEF W
    <3>2. ExactOrNull(hi(k), T) /\ ExactOrNull(lo(k), S)
      BY <2>4
    <3> HIDE DEF S, T
    <3>3. ASSUME k \in K PROVE Lazy(merged(hi(k), lo(k)), T \cup S) /\ T \cup S # {}
      <4> DEFINE m == merged(hi(k), lo(k))
      <4>1. hi(k) # NULL \/ lo(k) # NULL
        BY <3>3
      <4>2. m = IF hi(k) = NULL THEN lo(k) ELSE IF lo(k) = NULL THEN hi(k) ELSE container_ior(hi(k), lo(k))
        OBVIOUS
      <4> HIDE DEF m
      <4>3. Lazy(m, T \cup S) /\ T \cup S # {}
        BY <3>2, <4>1, <4>2, PartsMerged
      <4> QED
        BY <4>3 DEF m
    <3>4. ASSUME k \notin K PROVE T \cup S = {}
      <4>1. hi(k) = NULL /\ lo(k) = NULL
        BY <3>4
      <4>2. T = {} /\ S = {}
        BY <3>2, <4>1, SoundIsThere DEF ExactOrNull
      <4> QED
        BY <4>2
    <3> HIDE DEF merged, K
    <3> QED
      BY <3>1, <3>3, <3>4
  <2>6. K \subseteq Key
    OBVIOUS
  <2> HIDE DEF K, merged
  <2>7. DOMAIN a = K /\ a = [k \in DOMAIN a |-> a[k]] /\ \A k \in K : a[k] = merged(hi(k), lo(k))
    OBVIOUS
  <2> HIDE DEF a
  <2>8. \A k \in DOMAIN a : k \in Key /\ Lazy(a[k], Chunk(W, k)) /\ Chunk(W, k) # {}
    BY <2>5, <2>6, <2>7
  <2>9. \A k \in Key : k \notin DOMAIN a => Chunk(W, k) = {}
    BY <2>5, <2>7
  <2>10. W \in SUBSET Value
    BY <1>4 DEF W
  <2>11. RepresentsLazily(a, W)
    BY <2>7, <2>8, <2>9, <2>10, LazyBitmapOf
  <2> QED
    BY <2>1, <2>11, BitmapRepaired DEF W
<1> QED
  BY <1>5, <1>6, <1>7

-----------------------------------------------------------------------------
(* The first and the last value.                                            *)

\* More values than an array takes do not fit in the first word of a bitset.
LEMMA NotInOneWord ==
  ASSUME NEW S \in SUBSET Low, Cardinality(S) > DEFAULT_MAX_SIZE
  PROVE  \E x \in S : x >= WordBits
<1>1. WordBits \in Nat \ {0} /\ DEFAULT_MAX_SIZE \in Nat /\ WordBits <= DEFAULT_MAX_SIZE
  BY ContainerAssumption DEF ContainerAssumption
<1>2. \A x \in S : x \in Int /\ 0 <= x
  BY LowAreNumbers
<1>3. SUFFICES ASSUME \A x \in S : x < WordBits
               PROVE  FALSE
  BY <1>1, <1>2
<1>4. S \subseteq 0 .. WordBits - 1
  BY <1>1, <1>2, <1>3
<1>5. IsFiniteSet(0 .. WordBits - 1) /\ Cardinality(0 .. WordBits - 1) = WordBits
  <2>1. 0 \in Int /\ WordBits - 1 \in Int /\ 0 <= WordBits - 1 /\ WordBits - 1 - 0 + 1 = WordBits
    BY <1>1
  <2> QED
    BY <2>1, FS_Interval
<1>6. Cardinality(S) <= WordBits
  BY <1>4, <1>5, FS_Subset
<1> QED
  BY <1>1, <1>6, CountOfSet

\* A container's ends are the least and the greatest of its values.
LEMMA EndsOfContainer ==
  ASSUME NEW c, NEW S, Sound(c, S), S # {}
  PROVE  /\ container_minimum(c) \in S /\ \A x \in S : container_minimum(c) <= x
         /\ container_maximum(c) \in S /\ \A x \in S : x <= container_maximum(c)
<1>0. S \in SUBSET Low /\ S \in SUBSET Int /\ \A x \in S : x \in Int /\ 0 <= x /\ x <= ChunkSize
  BY SoundIsLazy, LowAreNumbers, ContainerConstants
<1>1. Min(S) \in S /\ \A x \in S : Min(S) <= x
  BY <1>0, MinOfSome
<1>2. Max(S) \in S /\ \A x \in S : x <= Max(S)
  <2>1. ChunkSize \in Int
    BY ContainerConstants
  <2> QED
    BY <1>0, <2>1, MaxOfSome
<1>3. CASE IsArray(c, S)
  <2>1. c.type = "array" /\ c.values = S
    BY <1>3, ArrayHas
  <2>2. container_minimum(c) = Min(S) /\ container_maximum(c) = Max(S)
    BY <2>1 DEF container_minimum, container_maximum, array_container_minimum, array_container_maximum
  <2> QED
    BY <1>1, <1>2, <2>2
<1>4. CASE IsBitset(c, S) /\ Cardinality(S) > DEFAULT_MAX_SIZE
  <2> DEFINE L == {v \in S : v >= WordBits}
  <2>1. c.type = "bitset" /\ c.values = S
    BY <1>4, BitsetHas
  <2>2. L \in SUBSET Int /\ L # {} /\ ChunkSize \in Int /\ \A x \in L : x <= ChunkSize
    <3>1. L # {}
      BY <1>0, <1>4, NotInOneWord
    <3>2. \A x \in L : x \in S
      OBVIOUS
    <3> HIDE DEF L
    <3>3. \A x \in L : x \in Int /\ x <= ChunkSize
      BY <1>0, <3>2
    <3>4. ChunkSize \in Int
      BY ContainerConstants
    <3> QED
      BY <3>1, <3>3, <3>4
  <2>3. container_minimum(c) = Min(S) /\ container_maximum(c) = Max(L)
    BY <2>1, <2>2 DEF container_minimum, container_maximum, bitset_container_minimum, bitset_container_maximum
  <2>4. \A x : x \in L <=> x \in S /\ x >= WordBits
    OBVIOUS
  <2> HIDE DEF L
  <2>5. Max(L) \in L /\ \A x \in L : x <= Max(L)
    BY ONLY <2>2, MaxOfSome
  <2>6. \A x \in S : x <= Max(L)
    <3> TAKE x \in S
    <3>1. x \in Int /\ Max(L) \in Int /\ WordBits \in Int /\ Max(L) >= WordBits
      <4>1. x \in Int /\ WordBits \in Int
        BY <1>0, ContainerAssumption DEF ContainerAssumption
      <4>2. Max(L) \in S /\ Max(L) >= WordBits
        BY <2>4, <2>5
      <4> QED
        BY <1>0, <4>1, <4>2
    <3> QED
      BY <2>4, <2>5, <3>1
  <2> QED
    BY <1>1, <2>3, <2>4, <2>5, <2>6
<1>5. CASE IsRun(c, S)
  <2>1. c.type = "run"
    BY <1>5, RunHas
  <2>2. container_minimum(c) = run_container_minimum(c) /\ container_maximum(c) = run_container_maximum(c)
    BY <2>1 DEF container_minimum, container_maximum
  <2> QED
    BY <1>5, <2>2, EndsOfRuns
<1> QED
  BY <1>3, <1>4, <1>5, SoundIs

\* The ends of a bitmap are the least and the greatest of its values.
THEOREM EndsOfBitmap ==
  ASSUME NEW bm, NEW V, Represents(bm, V), V # {}
  PROVE  /\ roaring_bitmap_minimum(bm) \in V /\ \A v \in V : roaring_bitmap_minimum(bm) <= v
         /\ roaring_bitmap_maximum(bm) \in V /\ \A v \in V : v <= roaring_bitmap_maximum(bm)
<1> DEFINE D == DOMAIN bm
<1>1. /\ V \in SUBSET Value
      /\ \A k \in D : k \in Key /\ Sound(bm[k], Chunk(V, k)) /\ Chunk(V, k) # {}
      /\ \A k \in Key : k \notin D => Chunk(V, k) = {}
  BY BitmapHas
<1>2. \A v \in V : high(v) \in D /\ low(v) \in Chunk(V, high(v)) /\ v = high(v) * ChunkSize + low(v) /\ low(v) \in Low
  BY <1>1, ChunkHas, Halves
<1>3. D # {} /\ D \in SUBSET Int /\ KeyCount \in Int /\ \A k \in D : k \in Int /\ 0 <= k /\ k <= KeyCount
  BY <1>1, <1>2, KeyConstants
<1> HIDE DEF D
<1>4. Min(D) \in D /\ \A k \in D : Min(D) <= k
  BY <1>3, MinOfSome
<1>5. Max(D) \in D /\ \A k \in D : k <= Max(D)
  BY ONLY <1>3, MaxOfSome
<1>6. ASSUME NEW k \in D
      PROVE  /\ container_minimum(bm[k]) \in Chunk(V, k) /\ \A x \in Chunk(V, k) : container_minimum(bm[k]) <= x
             /\ container_maximum(bm[k]) \in Chunk(V, k) /\ \A x \in Chunk(V, k) : x <= container_maximum(bm[k])
  BY <1>1, EndsOfContainer
<1>7. \A k : Chunk(V, k) \in SUBSET Low /\ \A x \in Chunk(V, k) : k * ChunkSize + x \in V
  BY DEF Chunk
<1> DEFINE a == Min(D)
           b == Max(D)
           m == container_minimum(bm[a])
           n == container_maximum(bm[b])
<1>8. roaring_bitmap_minimum(bm) = a * ChunkSize + m /\ roaring_bitmap_maximum(bm) = b * ChunkSize + n
  BY <1>3 DEF roaring_bitmap_minimum, roaring_bitmap_maximum, D
<1>9. /\ m \in Chunk(V, a) /\ \A x \in Chunk(V, a) : m <= x
      /\ n \in Chunk(V, b) /\ \A x \in Chunk(V, b) : x <= n
  BY <1>4, <1>5, <1>6
<1>10. a \in D /\ b \in D /\ a \in Int /\ b \in Int /\ \A k \in D : a <= k /\ k <= b
  BY <1>3, <1>4, <1>5
<1> HIDE DEF a, b, m, n
<1>11. m \in Int /\ n \in Int /\ 0 <= m /\ m < ChunkSize /\ 0 <= n /\ n < ChunkSize /\ ChunkSize \in Nat \ {0}
  BY <1>7, <1>9, LowAreNumbers, ContainerConstants
<1>12. ASSUME NEW v \in V
       PROVE  a * ChunkSize + m <= v /\ v <= b * ChunkSize + n
  <2> DEFINE h == high(v)
             l == low(v)
  <2>1. h \in D /\ l \in Chunk(V, h) /\ v = h * ChunkSize + l /\ h \in Int /\ l \in Int /\ 0 <= l /\ l < ChunkSize
    BY <1>2, <1>3, LowAreNumbers
  <2>2. a <= h /\ h <= b
    BY <1>10, <2>1
  <2>3. h = a => m <= l
    BY <1>9, <2>1
  <2>4. h = b => l <= n
    BY <1>9, <2>1
  <2> HIDE DEF h, l
  <2>5. a < h => a * ChunkSize + ChunkSize <= h * ChunkSize
    <3>1. a < h => (a + 1) * ChunkSize <= h * ChunkSize
      BY <1>10, <1>11, <2>1
    <3> QED
      BY <1>10, <1>11, <3>1
  <2>6. h < b => h * ChunkSize + ChunkSize <= b * ChunkSize
    <3>1. h < b => (h + 1) * ChunkSize <= b * ChunkSize
      BY <1>10, <1>11, <2>1
    <3> QED
      BY <1>10, <1>11, <2>1, <3>1
  <2>7. a * ChunkSize \in Int /\ b * ChunkSize \in Int /\ h * ChunkSize \in Int
    BY <1>10, <1>11, <2>1
  <2>8. a * ChunkSize + m <= v
    BY <1>10, <1>11, <2>1, <2>2, <2>3, <2>5, <2>7
  <2>9. v <= b * ChunkSize + n
    BY <1>10, <1>11, <2>1, <2>2, <2>4, <2>6, <2>7
  <2> QED
    BY <2>8, <2>9
<1>13. a * ChunkSize + m \in V /\ b * ChunkSize + n \in V
  BY <1>7, <1>9
<1> QED
  BY <1>8, <1>12, <1>13

\* Of an empty bitmap they are what the library starts from.
LEMMA EndsOfNone ==
  ASSUME NEW bm, Represents(bm, {})
  PROVE  roaring_bitmap_minimum(bm) = UINT32_MAX /\ roaring_bitmap_maximum(bm) = 0 /\ DOMAIN bm = {}
<1>1. DOMAIN bm = {}
  <2>1. \A k : Chunk({}, k) = {}
    BY DEF Chunk
  <2> QED
    BY <2>1 DEF Represents
<1> QED
  BY <1>1 DEF roaring_bitmap_minimum, roaring_bitmap_maximum

-----------------------------------------------------------------------------
(* What the library accepts as a bitmap, and what stands for a set.         *)

\* The containers there are.
ContainerForms ==
    [type : {"array"}, values : SUBSET Low]
        \cup [type : {"bitset"}, values : SUBSET Low, cardinality : 0 .. ChunkSize]
        \cup [type : {"run"}, runs : SUBSET (Low \X Low)]

\* A container that stands for a set that is not empty is accepted.
LEMMA SoundIsValid ==
  ASSUME NEW c, NEW S, Sound(c, S), S # {}
  PROVE  c \in ContainerForms /\ container_internal_validate(c)
<1>1. CASE IsArray(c, S)
  <2>1. c.type = "array" /\ c.values = S /\ S \in SUBSET Low /\ c = Array(S) /\ Cardinality(S) \in Nat /\ Cardinality(S) <= DEFAULT_MAX_SIZE
    BY <1>1, ArrayHas
  <2>2. c \in [type : {"array"}, values : SUBSET Low]
    BY <2>1 DEF Array
  <2>3. Cardinality(S) # 0 /\ DEFAULT_MAX_SIZE \in Nat
    BY <2>1, CountOfSet, ContainerConstants
  <2>4. container_internal_validate(c)
    BY <2>1, <2>3 DEF container_internal_validate, array_container_validate
  <2> QED
    BY <2>2, <2>4 DEF ContainerForms
<1>2. CASE IsBitset(c, S) /\ Cardinality(S) > DEFAULT_MAX_SIZE
  <2>1. c.type = "bitset" /\ c.values = S /\ S \in SUBSET Low /\ c.cardinality = Cardinality(S) /\ c = Bitset(S, Cardinality(S)) /\ Cardinality(S) \in 0 .. ChunkSize
    BY <1>2, BitsetHas, CountOfSet
  <2>2. c \in [type : {"bitset"}, values : SUBSET Low, cardinality : 0 .. ChunkSize]
    BY <2>1 DEF Bitset
  <2>3. container_internal_validate(c)
    BY <1>2, <2>1 DEF container_internal_validate, bitset_container_validate
  <2> QED
    BY <2>2, <2>3 DEF ContainerForms
<1>3. CASE IsRun(c, S)
  <2> DEFINE R == c.runs
  <2>1. c.type = "run" /\ c = Run(R) /\ Apart(R) /\ S = RunValues(R)
    BY <1>3, RunHas
  <2>2. R # {} /\ R \in SUBSET (Low \X Low) /\ \A r \in R : r[1] <= r[2] /\ r[2] < ChunkSize
    <3>1. R # {}
      BY <2>1, ApartHaveValues
    <3>2. R \in SUBSET (Low \X Low)
      BY <2>1 DEF Apart
    <3>3. \A r \in R : r[1] <= r[2] /\ r[2] \in Low
      BY <2>1, ApartHaveValues
    <3> QED
      BY <3>1, <3>2, <3>3, LowAreNumbers
  <2>3. /\ \A r, s \in R : r[1] < s[1] => r[2] + 1 < s[1]
        /\ \A r, s \in R : r[1] = s[1] => r = s
    <3> HIDE DEF R
    <3>1. \A r \in R : r[1] \in Int /\ r[2] \in Int /\ r[1] <= r[2]
      BY <2>2, LowAreNumbers
    <3>2. \A r, s \in R : r # s => r[2] + 1 < s[1] \/ s[2] + 1 < r[1]
      BY <2>1 DEF Apart
    <3>3. ASSUME NEW r \in R, NEW s \in R
          PROVE  (r[1] < s[1] => r[2] + 1 < s[1]) /\ (r[1] = s[1] => r = s)
      <4>1. CASE r = s
        BY <3>1, <4>1
      <4>2. CASE r # s
        <5>1. r[2] + 1 < s[1] \/ s[2] + 1 < r[1]
          BY <3>2, <4>2
        <5>2. r[1] \in Int /\ r[2] \in Int /\ r[1] <= r[2] /\ s[1] \in Int /\ s[2] \in Int /\ s[1] <= s[2]
          BY <3>1
        <5> QED
          BY <5>1, <5>2
      <4> QED
        BY <4>1, <4>2
    <3> QED
      BY <3>3
  <2> HIDE DEF R
  <2>4. c \in [type : {"run"}, runs : SUBSET (Low \X Low)]
    BY <2>1, <2>2 DEF Run
  <2>5. container_internal_validate(c)
    BY <2>1, <2>2, <2>3 DEF container_internal_validate, run_container_validate, R
  <2> QED
    BY <2>4, <2>5 DEF ContainerForms
<1> QED
  BY <1>1, <1>2, <1>3, SoundIs

\* A container that is accepted stands for its values, and has some.
LEMMA ValidIsSound ==
  ASSUME NEW c, c \in ContainerForms, container_internal_validate(c)
  PROVE  Sound(c, container_to_uint32_array(c)) /\ container_to_uint32_array(c) # {}
<1>1. CASE c \in [type : {"array"}, values : SUBSET Low]
  <2>1. c.type = "array" /\ c.values \in SUBSET Low /\ c = Array(c.values)
    BY <1>1 DEF Array
  <2>2. container_to_uint32_array(c) = c.values /\ Cardinality(c.values) \in 1 .. DEFAULT_MAX_SIZE
    BY <2>1 DEF container_to_uint32_array, container_internal_validate, array_container_validate
  <2>3. c.values # {} /\ Cardinality(c.values) <= DEFAULT_MAX_SIZE
    BY <2>1, <2>2, CountOfSet, ContainerConstants
  <2> QED
    BY <2>1, <2>2, <2>3, ArrayOf
<1>2. CASE c \in [type : {"bitset"}, values : SUBSET Low, cardinality : 0 .. ChunkSize]
  <2>1. c.type = "bitset" /\ c.values \in SUBSET Low /\ c = Bitset(c.values, c.cardinality)
    BY <1>2 DEF Bitset
  <2>2. container_to_uint32_array(c) = c.values /\ c.cardinality = Cardinality(c.values) /\ c.cardinality > DEFAULT_MAX_SIZE
    BY <2>1 DEF container_to_uint32_array, container_internal_validate, bitset_container_validate
  <2>3. c.values # {}
    BY <2>1, <2>2, CountOfSet, ContainerConstants
  <2> QED
    BY <2>1, <2>2, <2>3, BitsetOf
<1>3. CASE c \in [type : {"run"}, runs : SUBSET (Low \X Low)]
  <2>1. c.type = "run" /\ c.runs \in SUBSET (Low \X Low) /\ c = Run(c.runs)
    BY <1>3 DEF Run
  <2>2. container_to_uint32_array(c) = RunValues(c.runs) /\ run_container_validate(c)
    BY <2>1 DEF container_to_uint32_array, container_internal_validate
  <2>3. Apart(c.runs) /\ c.runs # {}
    <3> DEFINE R == c.runs
    <3>1. /\ R # {} /\ R \in SUBSET (Low \X Low)
          /\ \A r \in R : r[1] <= r[2] /\ r[2] < ChunkSize
          /\ \A r, s \in R : r[1] < s[1] => r[2] + 1 < s[1]
          /\ \A r, s \in R : r[1] = s[1] => r = s
      BY <2>1, <2>2 DEF run_container_validate
    <3> HIDE DEF R
    <3>2. \A r \in R : r[1] \in Int
      BY <3>1, LowAreNumbers
    <3>3. ASSUME NEW r \in R, NEW s \in R, r # s
          PROVE  r[2] + 1 < s[1] \/ s[2] + 1 < r[1]
      <4>1. r[1] \in Int /\ s[1] \in Int /\ r[1] # s[1]
        BY <3>1, <3>2, <3>3
      <4>2. r[1] < s[1] \/ s[1] < r[1]
        BY <4>1
      <4> QED
        BY <3>1, <4>2
    <3>4. Apart(R)
      BY <3>1, <3>3 DEF Apart
    <3> QED
      BY <3>1, <3>4 DEF R
  <2>4. RunValues(c.runs) # {}
    BY <2>3, ApartHaveValues
  <2>5. Sound(Run(c.runs), RunValues(c.runs))
    BY <2>3, RunOf
  <2> QED
    BY <2>1, <2>2, <2>4, <2>5
<1> QED
  BY <1>1, <1>2, <1>3 DEF ContainerForms

\* A bitmap that stands for a set passes the library's validation.
THEOREM BitmapIsValid ==
  ASSUME NEW bm, NEW V, Represents(bm, V)
  PROVE  roaring_bitmap_internal_validate(bm) /\ \A k \in DOMAIN bm : k \in Key /\ bm[k] \in ContainerForms
<1>1. \A k \in DOMAIN bm : k \in Key /\ Sound(bm[k], Chunk(V, k)) /\ Chunk(V, k) # {}
  BY BitmapHas
<1>2. \A k \in DOMAIN bm : bm[k] \in ContainerForms /\ container_internal_validate(bm[k])
  BY <1>1, SoundIsValid
<1> QED
  BY <1>1, <1>2 DEF roaring_bitmap_internal_validate

\* And what passes it stands for its values.
THEOREM ValidIsBitmap ==
  ASSUME NEW bm, bm = [k \in DOMAIN bm |-> bm[k]], \A k \in DOMAIN bm : bm[k] \in ContainerForms,
         roaring_bitmap_internal_validate(bm)
  PROVE  Represents(bm, Values(bm))
<1> DEFINE V == Values(bm)
           array(k) == container_to_uint32_array(bm[k])
<1>1. \A k \in DOMAIN bm : k \in Key /\ Sound(bm[k], array(k)) /\ array(k) # {}
  BY ValidIsSound DEF roaring_bitmap_internal_validate
<1>2. \A k \in DOMAIN bm : array(k) \in SUBSET Low
  BY <1>1, SoundIsLazy
<1>3. \A v : v \in V <=> \E k \in DOMAIN bm : \E x \in array(k) : v = k * ChunkSize + x
  BY DEF Values
<1> HIDE DEF V, array
<1>4. V \in SUBSET Value
  BY <1>1, <1>2, <1>3, Whole
<1>5. ASSUME NEW k \in Key, NEW x \in Low
      PROVE  k * ChunkSize + x \in V <=> k \in DOMAIN bm /\ x \in array(k)
  <2> DEFINE v == k * ChunkSize + x
  <2>1. high(v) = k /\ low(v) = x
    BY Whole
  <2>2. k \in DOMAIN bm /\ x \in array(k) => v \in V
    BY <1>3
  <2>3. ASSUME v \in V PROVE k \in DOMAIN bm /\ x \in array(k)
    <3>1. PICK j \in DOMAIN bm : \E y \in array(j) : v = j * ChunkSize + y
      BY <1>3, <2>3
    <3>2. PICK y \in array(j) : v = j * ChunkSize + y
      BY <3>1
    <3>3. j \in Key /\ y \in Low
      BY <1>1, <1>2
    <3>4. high(j * ChunkSize + y) = j /\ low(j * ChunkSize + y) = y
      BY <3>3, Whole
    <3> QED
      BY <2>1, <3>2, <3>4
  <2> QED
    BY <2>2, <2>3
<1>6. \A k \in DOMAIN bm : Chunk(V, k) = array(k)
  BY <1>1, <1>2, <1>5 DEF Chunk
<1>7. \A k \in Key : k \notin DOMAIN bm => Chunk(V, k) = {}
  BY <1>5 DEF Chunk
<1>8. \A k \in DOMAIN bm : k \in Key /\ Sound(bm[k], Chunk(V, k)) /\ Chunk(V, k) # {}
  BY <1>1, <1>6 DEF array
<1>9. Represents(bm, V)
  BY <1>4, <1>7, <1>8, BitmapOf
<1> QED
  BY <1>9 DEF V

-----------------------------------------------------------------------------
(* Counting the values of a bitmap, chunk by chunk. *)

\* Sets of values are finite.
LEMMA ValuesAreFinite ==
  ASSUME NEW V \in SUBSET Value
  PROVE  IsFiniteSet(V) /\ Cardinality(V) \in Nat
<1>1. UINT32_MAX \in Int
  BY ContainerConstants, KeyConstants DEF UINT32_MAX
<1>2. IsFiniteSet(Value)
  BY <1>1, FS_Interval DEF Value
<1> QED
  BY <1>2, FS_Subset, FS_CardinalityType

\* Sets of keys are finite.
LEMMA KeysAreFinite == ASSUME NEW K \in SUBSET Key PROVE IsFiniteSet(K)
<1>1. IsFiniteSet(Key)
  <2>1. KeyCount - 1 \in Int
    BY KeyConstants
  <2> QED
    BY <2>1, FS_Interval DEF Key
<1> QED
  BY <1>1, FS_Subset

\* The values at a key are as many as those of its chunk.
LEMMA CountOfChunk ==
  ASSUME NEW V \in SUBSET Value, NEW k \in Key
  PROVE  LET W == {v \in V : high(v) = k}
         IN  IsFiniteSet(W) /\ Cardinality(W) = Cardinality(Chunk(V, k))
<1> DEFINE W == {v \in V : high(v) = k}
           C == Chunk(V, k)
           f == [v \in W |-> low(v)]
<1>1. \A v \in W : v \in V /\ low(v) \in C /\ v = k * ChunkSize + low(v)
  BY ChunkHas, Halves
<1>2. \A x \in C : x \in Low /\ k * ChunkSize + x \in V /\ high(k * ChunkSize + x) = k /\ low(k * ChunkSize + x) = x
  BY Whole DEF Chunk
<1>3. \A x \in C : k * ChunkSize + x \in W
  BY <1>2
<1>4. W \in SUBSET Value
  OBVIOUS
<1> HIDE DEF W, C
<1>5. f \in Injection(W, C)
  BY <1>1 DEF Injection, IsInjective
<1>6. f \in Surjection(W, C)
  <2>1. f \in [W -> C]
    BY <1>1
  <2>2. \A x \in C : \E v \in W : f[v] = x
    BY <1>2, <1>3
  <2> QED
    BY <2>1, <2>2 DEF Surjection
<1>7. IsFiniteSet(W)
  BY <1>4, ValuesAreFinite
<1> HIDE DEF f
<1>8. Cardinality(W) = Cardinality(C)
  BY <1>5, <1>6, <1>7, FS_Surjection
<1> QED
  BY <1>7, <1>8 DEF W, C

\* What is summed up are the sizes of the chunks: the sum is the size of the set.
LEMMA SumOverChunks ==
  ASSUME NEW V \in SUBSET Value, NEW f, DOMAIN f \in SUBSET Key,
         \A k \in DOMAIN f : f[k] = Cardinality(Chunk(V, k)),
         \A k \in Key : k \notin DOMAIN f => Chunk(V, k) = {}
  PROVE  SumFunction(f) = Cardinality(V)
<1> DEFINE At(k) == {v \in V : high(v) = k}
           P == [k \in DOMAIN f |-> At(k)]
<1>1. \A k \in DOMAIN f : IsFiniteSet(At(k)) /\ Cardinality(At(k)) = f[k]
  BY CountOfChunk
<1>2. \A k \in DOMAIN f : P[k] = At(k)
  OBVIOUS
<1>3. \A j, k : j # k => At(j) \cap At(k) = {}
  OBVIOUS
<1>4. \A v \in V : high(v) \in DOMAIN f /\ v \in At(high(v))
  BY ChunkHas
<1>5. \A k : At(k) \subseteq V
  OBVIOUS
<1>6. IsFiniteSet(DOMAIN f)
  BY KeysAreFinite
<1> HIDE DEF P, At
<1>7. SizesOf(f, P)
  BY <1>1, <1>2, <1>3, <1>6 DEF SizesOf
<1>8. \A v : v \in V <=> \E k \in DOMAIN f : v \in P[k]
  BY <1>2, <1>4, <1>5
<1> QED
  BY <1>7, <1>8, SumIsCount

\* Chunks of parts of a set.
LEMMA ChunkOfPartOf ==
  ASSUME NEW V \in SUBSET Value, NEW W \in SUBSET V, NEW k \in Key
  PROVE  /\ (\A v \in V : high(v) = k => v \in W) => Chunk(W, k) = Chunk(V, k)
         /\ (\A v \in W : high(v) # k) => Chunk(W, k) = {}
<1>1. \A x \in Low : high(k * ChunkSize + x) = k
  BY Whole
<1> QED
  BY <1>1 DEF Chunk

\* size: the cardinalities that the containers keep or count add up to the number of values
\* (roaring_bitmap_get_cardinality).
THEOREM CardinalityIsRight ==
  ASSUME NEW bm, NEW V, Represents(bm, V)
  PROVE  roaring_bitmap_get_cardinality(bm) = Cardinality(V)
<1> DEFINE f == [k \in DOMAIN bm |-> container_get_cardinality(bm[k])]
<1>1. /\ V \in SUBSET Value
      /\ \A k \in DOMAIN bm : k \in Key /\ Sound(bm[k], Chunk(V, k)) /\ Chunk(V, k) # {}
      /\ \A k \in Key : k \notin DOMAIN bm => Chunk(V, k) = {}
  BY BitmapHas
<1>2. \A k \in DOMAIN f : f[k] = Cardinality(Chunk(V, k))
  BY <1>1, SoundCount
<1>3. DOMAIN f = DOMAIN bm /\ DOMAIN f \in SUBSET Key
  BY <1>1
<1>4. roaring_bitmap_get_cardinality(bm) = SumFunction(f)
  BY DEF roaring_bitmap_get_cardinality
<1> HIDE DEF f
<1>5. SumFunction(f) = Cardinality(V)
  BY <1>1, <1>2, <1>3, SumOverChunks
<1> QED
  BY <1>4, <1>5

\* The containers below a key have the values below it.
LEMMA CountBelowKey ==
  ASSUME NEW bm, NEW V, Represents(bm, V), NEW key \in Int
  PROVE  CardinalityBelow(bm, key) = Cardinality({v \in V : high(v) < key})
<1> DEFINE W == {v \in V : high(v) < key}
           K == {x \in DOMAIN bm : x < key}
           f == [k \in K |-> container_get_cardinality(bm[k])]
<1>1. /\ V \in SUBSET Value
      /\ \A k \in DOMAIN bm : k \in Key /\ Sound(bm[k], Chunk(V, k)) /\ Chunk(V, k) # {}
      /\ \A k \in Key : k \notin DOMAIN bm => Chunk(V, k) = {}
  BY BitmapHas
<1>2. W \in SUBSET V /\ W \in SUBSET Value
  BY <1>1
<1>3. \A k \in Key : k < key => Chunk(W, k) = Chunk(V, k)
  BY <1>1, <1>2, ChunkOfPartOf
<1>4. \A k \in Key : ~(k < key) => Chunk(W, k) = {}
  BY <1>1, <1>2, ChunkOfPartOf
<1>5. \A k \in K : k \in Key /\ f[k] = Cardinality(Chunk(W, k))
  BY <1>1, <1>3, SoundCount
<1>6. \A k \in Key : k \notin K => Chunk(W, k) = {}
  BY <1>1, <1>3, <1>4
<1>7. DOMAIN f = K
  OBVIOUS
<1>8. CardinalityBelow(bm, key) = SumFunction(f)
  BY DEF CardinalityBelow
<1> HIDE DEF f, W, K
<1>9. SumFunction(f) = Cardinality(W)
  BY <1>2, <1>5, <1>6, <1>7, SumOverChunks
<1> QED
  BY <1>8, <1>9 DEF W

-----------------------------------------------------------------------------
(* Positions in a bitmap. *)

\* Values are ordered by their key first, then by their place in the container.
LEMMA OrderOfValues ==
  ASSUME NEW v \in Value, NEW w \in Value
  PROVE  /\ v <= w <=> high(v) < high(w) \/ (high(v) = high(w) /\ low(v) <= low(w))
         /\ v < w <=> high(v) < high(w) \/ (high(v) = high(w) /\ low(v) < low(w))
         /\ v \in Int /\ w \in Int
<1>1. /\ v = high(v) * ChunkSize + low(v) /\ high(v) \in Int /\ low(v) \in Low /\ v \in Int /\ low(v) \in Int
      /\ w = high(w) * ChunkSize + low(w) /\ high(w) \in Int /\ low(w) \in Low /\ w \in Int /\ low(w) \in Int
  BY Halves
<1>2. v <= w <=> high(v) < high(w) \/ (high(v) = high(w) /\ low(v) <= low(w))
  BY <1>1, OrderOfHalves
<1>3. w <= v <=> high(w) < high(v) \/ (high(w) = high(v) /\ low(w) <= low(v))
  BY <1>1, OrderOfHalves
<1>4. v < w <=> ~(w <= v)
  BY <1>1
<1> QED
  BY ONLY <1>1, <1>2, <1>3, <1>4

\* The values of the containers below a key, and those of its own, are the values up to it.
LEMMA CountUpToKey ==
  ASSUME NEW V \in SUBSET Value, NEW W \in SUBSET V, NEW k \in Key,
         \A v \in V : high(v) < k => v \in W, \A v \in W : high(v) <= k
  PROVE  Cardinality(W) = Cardinality({v \in V : high(v) < k}) + Cardinality(Chunk(W, k))
<1> DEFINE A == {v \in V : high(v) < k}
           B == {v \in W : high(v) = k}
<1>1. \A v \in V : high(v) \in Int /\ k \in Int
  BY Halves, KeyConstants
<1>2. W = A \cup B /\ A \cap B = {}
  <2>1. \A v \in W : high(v) < k \/ high(v) = k
    BY <1>1
  <2>2. \A v \in V : ~(high(v) < k /\ high(v) = k)
    BY <1>1
  <2> QED
    BY <2>1, <2>2
<1>3. IsFiniteSet(B) /\ Cardinality(B) = Cardinality(Chunk(W, k))
  <2>1. W \in SUBSET Value
    OBVIOUS
  <2> QED
    BY <2>1, CountOfChunk
<1>4. A \in SUBSET Value /\ B \in SUBSET Value
  OBVIOUS
<1> HIDE DEF A, B
<1>5. IsFiniteSet(A) /\ Cardinality(A) \in Nat /\ Cardinality(B) \in Nat
  BY <1>4, ValuesAreFinite
<1>6. Cardinality(W) = Cardinality(A) + Cardinality(B) - Cardinality(A \cap B)
  BY <1>2, <1>3, <1>5, FS_Union
<1>7. Cardinality(A \cap B) = 0
  BY <1>2, FS_EmptySet
<1>8. Cardinality(W) = Cardinality(A) + Cardinality(B)
  BY <1>5, <1>6, <1>7
<1> QED
  BY <1>3, <1>8 DEF A

\* The values up to a value are those of the containers below, and those up to it in its own.
LEMMA PositionInBitmap ==
  ASSUME NEW bm, NEW V, Represents(bm, V), NEW v \in Value
  PROVE  /\ Cardinality(Before(V, v)) = CardinalityBelow(bm, high(v)) + Cardinality(Before(Chunk(V, high(v)), low(v)))
         /\ Cardinality(UpTo(V, v)) = CardinalityBelow(bm, high(v)) + Cardinality(UpTo(Chunk(V, high(v)), low(v)))
         /\ CardinalityBelow(bm, high(v)) \in Nat
<1> DEFINE k == high(v)
           A == {w \in V : high(w) < k}
<1>1. V \in SUBSET Value
  BY BitmapHas
<1>2. k \in Key /\ k \in Int /\ low(v) \in Low /\ \A w \in V : high(w) \in Int
  BY <1>1, Halves
<1>3. CardinalityBelow(bm, k) = Cardinality(A)
  BY <1>2, CountBelowKey
<1>4. \A w \in V : /\ w < v <=> high(w) < k \/ (high(w) = k /\ low(w) < low(v))
                   /\ w <= v <=> high(w) < k \/ (high(w) = k /\ low(w) <= low(v))
  BY <1>1, OrderOfValues
<1>5. \A x \in Low : high(k * ChunkSize + x) = k /\ low(k * ChunkSize + x) = x
  BY <1>2, Whole
<1>6. Chunk(Before(V, v), k) = Before(Chunk(V, k), low(v))
  <2>1. ~(k < k)
    BY <1>2
  <2>2. \A x \in Low : k * ChunkSize + x \in V => (k * ChunkSize + x < v <=> x < low(v))
    BY <1>4, <1>5, <2>1
  <2> QED
    BY <2>2 DEF Chunk, Before
<1>7. Chunk(UpTo(V, v), k) = UpTo(Chunk(V, k), low(v))
  <2>1. ~(k < k)
    BY <1>2
  <2>2. \A x \in Low : k * ChunkSize + x \in V => (k * ChunkSize + x <= v <=> x <= low(v))
    BY <1>4, <1>5, <2>1
  <2> QED
    BY <2>2 DEF Chunk, UpTo
<1>8. /\ Before(V, v) \in SUBSET V /\ UpTo(V, v) \in SUBSET V
      /\ \A w \in V : high(w) < k => w \in Before(V, v) /\ w \in UpTo(V, v)
      /\ \A w \in Before(V, v) : high(w) <= k
      /\ \A w \in UpTo(V, v) : high(w) <= k
  BY <1>2, <1>4 DEF Before, UpTo
<1>9. A \in SUBSET Value
  BY <1>1
<1>10. Cardinality(A) \in Nat
  BY <1>9, ValuesAreFinite
<1> HIDE DEF k
<1>11. Cardinality(Before(V, v)) = Cardinality(A) + Cardinality(Chunk(Before(V, v), k))
  BY <1>1, <1>2, <1>8, CountUpToKey
<1>12. Cardinality(UpTo(V, v)) = Cardinality(A) + Cardinality(Chunk(UpTo(V, v), k))
  BY <1>1, <1>2, <1>8, CountUpToKey
<1> QED
  BY <1>3, <1>6, <1>7, <1>10, <1>11, <1>12 DEF k

\* roaring_bitmap_contains finds the values that are there, and only those.
THEOREM ContainsIsRight ==
  ASSUME NEW bm, NEW V, Represents(bm, V), NEW v \in Value
  PROVE  roaring_bitmap_contains(bm, v) <=> v \in V
<1> DEFINE k == high(v)
<1>1. /\ V \in SUBSET Value
      /\ \A j \in DOMAIN bm : j \in Key /\ Sound(bm[j], Chunk(V, j)) /\ Chunk(V, j) # {}
      /\ \A j \in Key : j \notin DOMAIN bm => Chunk(V, j) = {}
  BY BitmapHas
<1>2. k \in Key /\ low(v) \in Low
  BY Halves
<1>3. v \in V <=> low(v) \in Chunk(V, k)
  BY <1>1, ChunkHas
<1>4. roaring_bitmap_contains(bm, v) <=> k \in DOMAIN bm /\ container_contains(bm[k], low(v))
  BY DEF roaring_bitmap_contains
<1> HIDE DEF k
<1>5. k \in DOMAIN bm => (container_contains(bm[k], low(v)) <=> low(v) \in Chunk(V, k))
  BY <1>1, <1>2, ContainsValue
<1>6. k \notin DOMAIN bm => low(v) \notin Chunk(V, k)
  BY <1>1, <1>2
<1> QED
  BY <1>3, <1>4, <1>5, <1>6

\* roaring_bitmap_rank counts the values up to a value, and roaring_bitmap_get_index is the position
\* of a value, across containers of all types, -1 for a value that is not there.
THEOREM RankIsRight ==
  ASSUME NEW bm, NEW V, Represents(bm, V), NEW v \in Value
  PROVE  /\ roaring_bitmap_rank(bm, v) = Cardinality(UpTo(V, v))
         /\ roaring_bitmap_get_index(bm, v) = IF v \in V THEN Cardinality(Before(V, v)) ELSE -1
<1> DEFINE k == high(v)
           x == low(v)
           C == Chunk(V, k)
           n == CardinalityBelow(bm, k)
<1>1. /\ V \in SUBSET Value
      /\ \A j \in DOMAIN bm : j \in Key /\ Sound(bm[j], Chunk(V, j)) /\ Chunk(V, j) # {}
      /\ \A j \in Key : j \notin DOMAIN bm => Chunk(V, j) = {}
  BY BitmapHas
<1>2. k \in Key /\ x \in Low
  BY Halves
<1>3. v \in V <=> x \in C
  BY <1>1, ChunkHas
<1>4. /\ Cardinality(Before(V, v)) = n + Cardinality(Before(C, x))
      /\ Cardinality(UpTo(V, v)) = n + Cardinality(UpTo(C, x))
      /\ n \in Nat
  BY PositionInBitmap
<1>5. /\ roaring_bitmap_rank(bm, v) = n + IF k \in DOMAIN bm THEN container_rank(bm[k], x) ELSE 0
      /\ roaring_bitmap_get_index(bm, v) =
            IF k \notin DOMAIN bm THEN -1
            ELSE IF container_get_index(bm[k], x) < 0 THEN -1 ELSE n + container_get_index(bm[k], x)
  BY DEF roaring_bitmap_rank, roaring_bitmap_get_index
<1>6. C \in SUBSET Low
  BY DEF Chunk
<1> HIDE DEF k, x, n
<1>7. CASE k \in DOMAIN bm
  <2>1. Sound(bm[k], C) /\ Exact(bm[k], C)
    BY <1>1, <1>7, SoundIsLazy
  <2> HIDE DEF C
  <2>2. container_rank(bm[k], x) = Cardinality(UpTo(C, x))
    BY <1>2, <2>1, ContainerRank
  <2>3. container_get_index(bm[k], x) = IF x \in C THEN Cardinality(Before(C, x)) ELSE -1
    BY <1>2, <2>1, ContainerIndex
  <2>4. Cardinality(Before(C, x)) \in Nat
    BY <1>6, BeforeHas
  <2> QED
    BY <1>3, <1>4, <1>5, <1>7, <2>2, <2>3, <2>4
<1>8. CASE k \notin DOMAIN bm
  <2>1. C = {}
    BY <1>1, <1>2, <1>8
  <2>2. UpTo(C, x) = {}
    BY <2>1 DEF UpTo
  <2>3. Cardinality(UpTo(C, x)) = 0
    BY <2>2, FS_EmptySet
  <2> HIDE DEF C
  <2> QED
    BY <1>3, <1>4, <1>5, <1>8, <2>1, <2>3
<1> QED
  BY <1>7, <1>8

\* roaring_bitmap_select finds the value at a position, and none behind the last one.
THEOREM SelectIsRight ==
  ASSUME NEW bm, NEW V, Represents(bm, V), NEW rank \in Nat
  PROVE  roaring_bitmap_select(bm, rank) = {v \in V : Cardinality(Before(V, v)) = rank}
<1> DEFINE D == DOMAIN bm
           n(k) == CardinalityBelow(bm, k)
           C(k) == Chunk(V, k)
           Hit(k) == n(k) <= rank /\ rank < n(k) + container_get_cardinality(bm[k])
           chosen(k) == container_select(bm[k], n(k), rank)
<1>1. /\ V \in SUBSET Value
      /\ \A j \in D : j \in Key /\ Sound(bm[j], Chunk(V, j)) /\ Chunk(V, j) # {}
      /\ \A j \in Key : j \notin D => Chunk(V, j) = {}
  BY BitmapHas
<1>2. \A v : v \in roaring_bitmap_select(bm, rank) <=> \E k \in D : Hit(k) /\ v = k * ChunkSize + chosen(k)
  BY DEF roaring_bitmap_select
<1>3. \A v \in V : /\ high(v) \in D /\ low(v) \in C(high(v)) /\ v = high(v) * ChunkSize + low(v)
                   /\ n(high(v)) \in Nat /\ Cardinality(Before(V, v)) = n(high(v)) + Cardinality(Before(C(high(v)), low(v)))
  <2>1. \A v \in V : /\ high(v) \in D /\ low(v) \in C(high(v)) /\ v = high(v) * ChunkSize + low(v)
    BY <1>1, ChunkHas, Halves
  <2>2. \A v \in V : /\ n(high(v)) \in Nat
                     /\ Cardinality(Before(V, v)) = n(high(v)) + Cardinality(Before(C(high(v)), low(v)))
    BY <1>1, PositionInBitmap
  <2> QED
    BY <2>1, <2>2
<1>4. \A k \in D : \A x \in C(k) : k * ChunkSize + x \in V /\ high(k * ChunkSize + x) = k /\ low(k * ChunkSize + x) = x
  BY <1>1, Whole DEF Chunk
<1>5. \A k \in D : C(k) \in SUBSET Low /\ Exact(bm[k], C(k)) /\ container_get_cardinality(bm[k]) = Cardinality(C(k)) /\ C(k) # {}
  BY <1>1, SoundCount, SoundIsLazy
<1>6. \A k \in D : n(k) \in Nat
  <2> TAKE k \in D
  <2>1. PICK x : x \in C(k)
    BY <1>5
  <2>2. k * ChunkSize + x \in V /\ high(k * ChunkSize + x) = k
    BY <1>4, <2>1
  <2> HIDE DEF n
  <2> QED
    BY <1>3, <2>2
<1> HIDE DEF D, n, C
<1>7. ASSUME NEW k \in D, Hit(k) PROVE chosen(k) \in C(k) /\ n(k) + Cardinality(Before(C(k), chosen(k))) = rank
  BY <1>5, <1>6, <1>7, ContainerSelect
<1> HIDE DEF chosen
<1>8. ASSUME NEW v \in roaring_bitmap_select(bm, rank) PROVE v \in V /\ Cardinality(Before(V, v)) = rank
  <2>1. PICK k \in D : Hit(k) /\ v = k * ChunkSize + chosen(k)
    BY <1>2
  <2>2. chosen(k) \in C(k) /\ n(k) + Cardinality(Before(C(k), chosen(k))) = rank
    BY <1>7, <2>1
  <2>3. v \in V /\ high(v) = k /\ low(v) = chosen(k)
    BY <1>4, <2>1, <2>2
  <2> QED
    BY <1>3, <2>2, <2>3
<1>9. ASSUME NEW v \in V, Cardinality(Before(V, v)) = rank PROVE v \in roaring_bitmap_select(bm, rank)
  <2> DEFINE k == high(v)
             x == low(v)
  <2>1. k \in D /\ x \in C(k) /\ v = k * ChunkSize + x /\ n(k) \in Nat /\ rank = n(k) + Cardinality(Before(C(k), x))
    BY <1>3, <1>9
  <2> HIDE DEF k, x
  <2>2. Cardinality(Before(C(k), x)) < Cardinality(C(k)) /\ Cardinality(Before(C(k), x)) \in Nat /\ Cardinality(C(k)) \in Nat
    <3> DEFINE S == C(k)
    <3>1. S \in SUBSET Low /\ x \in S
      BY <1>5, <2>1
    <3> HIDE DEF S
    <3>2. Cardinality(Before(S, x)) < Cardinality(S)
      BY <3>1, PositionsGrow
    <3>3. Cardinality(Before(S, x)) \in Nat
      BY <3>1, BeforeHas
    <3>4. IsFiniteSet(S)
      BY <3>1, CountOfSet
    <3>5. Cardinality(S) \in Nat
      BY <3>4, FS_CardinalityType
    <3> QED
      BY <3>2, <3>3, <3>5 DEF S
  <2>3. Hit(k)
    BY <1>5, <2>1, <2>2
  <2>4. chosen(k) \in C(k) /\ n(k) + Cardinality(Before(C(k), chosen(k))) = rank
    BY <1>7, <2>1, <2>3
  <2>5. Cardinality(Before(C(k), chosen(k))) \in Nat
    BY <1>5, <2>1, BeforeHas
  <2>6. Cardinality(Before(C(k), chosen(k))) = Cardinality(Before(C(k), x))
    <3> DEFINE a == Cardinality(Before(C(k), chosen(k)))
               b == Cardinality(Before(C(k), x))
               m == n(k)
    <3>1. a \in Nat /\ b \in Nat /\ m \in Nat /\ m + a = rank /\ m + b = rank
      BY <2>1, <2>2, <2>4, <2>5
    <3> HIDE DEF a, b, m
    <3>2. a = b
      BY <3>1
    <3> QED
      BY <3>2 DEF a, b
  <2>7. chosen(k) = x
    BY <1>5, <2>1, <2>4, <2>6, PositionsGrow
  <2> QED
    BY <1>2, <2>1, <2>3, <2>7
<1> QED
  BY <1>8, <1>9

-----------------------------------------------------------------------------
(* Two bitmaps. *)

\* The keys of a bitmap are those of the chunks that have values.
LEMMA KeysOfChunks ==
  ASSUME NEW bm, NEW V, Represents(bm, V)
  PROVE  /\ V \in SUBSET Value
         /\ \A k : Chunk(V, k) \in SUBSET Low
         /\ \A k : k \in DOMAIN bm <=> k \in Key /\ Chunk(V, k) # {}
         /\ \A k \in DOMAIN bm : Sound(bm[k], Chunk(V, k))
         /\ \A v \in V : high(v) \in DOMAIN bm
<1>1. /\ V \in SUBSET Value
      /\ \A k \in DOMAIN bm : k \in Key /\ Sound(bm[k], Chunk(V, k)) /\ Chunk(V, k) # {}
      /\ \A k \in Key : k \notin DOMAIN bm => Chunk(V, k) = {}
  BY BitmapHas
<1>2. \A k : Chunk(V, k) \in SUBSET Low
  BY DEF Chunk
<1>3. \A v \in V : high(v) \in Key /\ Chunk(V, high(v)) # {}
  BY <1>1, ChunkHas
<1> QED
  BY <1>1, <1>2, <1>3

\* Two sets are compared, and meet, chunk by chunk.
LEMMA IncludedByChunks ==
  ASSUME NEW V \in SUBSET Value, NEW W \in SUBSET Value
  PROVE  /\ V \subseteq W <=> \A k \in Key : Chunk(V, k) \subseteq Chunk(W, k)
         /\ V \cap W # {} <=> \E k \in Key : Chunk(V, k) \cap Chunk(W, k) # {}
         /\ \A k : Chunk(V \cap W, k) = Chunk(V, k) \cap Chunk(W, k)
<1>1. \A v \in Value : high(v) \in Key
  BY Halves
<1>2. /\ \A v : v \in V <=> v \in Value /\ low(v) \in Chunk(V, high(v))
      /\ \A v : v \in W <=> v \in Value /\ low(v) \in Chunk(W, high(v))
  BY ChunkHas
<1>3. V \subseteq W => \A k \in Key : Chunk(V, k) \subseteq Chunk(W, k)
  BY DEF Chunk
<1>4. (\A k \in Key : Chunk(V, k) \subseteq Chunk(W, k)) => V \subseteq W
  BY <1>1, <1>2
<1>5. V \cap W # {} => \E k \in Key : Chunk(V, k) \cap Chunk(W, k) # {}
  <2> SUFFICES ASSUME NEW v \in V, v \in W PROVE \E k \in Key : Chunk(V, k) \cap Chunk(W, k) # {}
    OBVIOUS
  <2>1. high(v) \in Key /\ low(v) \in Chunk(V, high(v)) \cap Chunk(W, high(v))
    BY <1>1, <1>2
  <2> QED
    BY <2>1
<1>6. (\E k \in Key : Chunk(V, k) \cap Chunk(W, k) # {}) => V \cap W # {}
  BY DEF Chunk
<1>7. \A k : Chunk(V \cap W, k) = Chunk(V, k) \cap Chunk(W, k)
  BY DEF Chunk
<1> QED
  BY <1>3, <1>4, <1>5, <1>6, <1>7

\* roaring_bitmap_equals compares sets of values, however the two bitmaps are stored.
THEOREM BitmapsEqual ==
  ASSUME NEW bm1, NEW V, Represents(bm1, V), NEW bm2, NEW W, Represents(bm2, W)
  PROVE  roaring_bitmap_equals(bm1, bm2) <=> V = W
<1>1. /\ V \in SUBSET Value
      /\ \A k : k \in DOMAIN bm1 <=> k \in Key /\ Chunk(V, k) # {}
      /\ \A k \in DOMAIN bm1 : Sound(bm1[k], Chunk(V, k))
  BY KeysOfChunks
<1>2. /\ W \in SUBSET Value
      /\ \A k : k \in DOMAIN bm2 <=> k \in Key /\ Chunk(W, k) # {}
      /\ \A k \in DOMAIN bm2 : Sound(bm2[k], Chunk(W, k))
  BY KeysOfChunks
<1>3. \A k \in DOMAIN bm1 \cap DOMAIN bm2 : container_equals(bm1[k], bm2[k]) <=> Chunk(V, k) = Chunk(W, k)
  BY <1>1, <1>2, ContainersEqual
<1>4. ASSUME V = W PROVE roaring_bitmap_equals(bm1, bm2)
  <2>1. DOMAIN bm1 = DOMAIN bm2
    BY <1>1, <1>2, <1>4
  <2> QED
    BY <1>3, <1>4, <2>1 DEF roaring_bitmap_equals
<1>5. ASSUME roaring_bitmap_equals(bm1, bm2) PROVE V = W
  <2>1. DOMAIN bm1 = DOMAIN bm2 /\ \A k \in DOMAIN bm1 : container_equals(bm1[k], bm2[k])
    BY <1>5 DEF roaring_bitmap_equals
  <2>2. \A k \in Key : Chunk(V, k) = Chunk(W, k)
    <3> TAKE k \in Key
    <3>1. CASE k \in DOMAIN bm1
      BY <1>3, <2>1, <3>1
    <3>2. CASE k \notin DOMAIN bm1
      BY <1>1, <1>2, <2>1, <3>2
    <3> QED
      BY <3>1, <3>2
  <2> QED
    BY <1>1, <1>2, <2>2, SameChunks
<1> QED
  BY <1>4, <1>5

\* roaring_bitmap_is_subset and roaring_bitmap_is_strict_subset compare sets of values, too.
THEOREM BitmapsIncluded ==
  ASSUME NEW bm1, NEW V, Represents(bm1, V), NEW bm2, NEW W, Represents(bm2, W)
  PROVE  /\ roaring_bitmap_is_subset(bm1, bm2) <=> V \subseteq W
         /\ roaring_bitmap_is_strict_subset(bm1, bm2) <=> V \subseteq W /\ V # W
<1>1. /\ V \in SUBSET Value
      /\ \A k : k \in DOMAIN bm1 <=> k \in Key /\ Chunk(V, k) # {}
      /\ \A k \in DOMAIN bm1 : Sound(bm1[k], Chunk(V, k))
  BY KeysOfChunks
<1>2. /\ W \in SUBSET Value
      /\ \A k : k \in DOMAIN bm2 <=> k \in Key /\ Chunk(W, k) # {}
      /\ \A k \in DOMAIN bm2 : Sound(bm2[k], Chunk(W, k))
  BY KeysOfChunks
<1>3. \A k \in DOMAIN bm1 \cap DOMAIN bm2 : container_is_subset(bm1[k], bm2[k]) <=> Chunk(V, k) \subseteq Chunk(W, k)
  BY <1>1, <1>2, ContainersIncluded
<1>4. roaring_bitmap_is_subset(bm1, bm2) <=> \A k \in Key : Chunk(V, k) \subseteq Chunk(W, k)
  <2>1. ASSUME roaring_bitmap_is_subset(bm1, bm2), NEW k \in Key PROVE Chunk(V, k) \subseteq Chunk(W, k)
    <3>1. DOMAIN bm1 \subseteq DOMAIN bm2 /\ \A j \in DOMAIN bm1 : container_is_subset(bm1[j], bm2[j])
      BY <2>1 DEF roaring_bitmap_is_subset
    <3> QED
      BY <1>1, <1>3, <3>1
  <2>2. ASSUME \A k \in Key : Chunk(V, k) \subseteq Chunk(W, k) PROVE roaring_bitmap_is_subset(bm1, bm2)
    <3>1. DOMAIN bm1 \subseteq DOMAIN bm2
      BY <1>1, <1>2, <2>2
    <3>2. \A k \in DOMAIN bm1 : container_is_subset(bm1[k], bm2[k])
      BY <1>1, <1>3, <2>2, <3>1
    <3> QED
      BY <3>1, <3>2 DEF roaring_bitmap_is_subset
  <2> QED
    BY <2>1, <2>2
<1>5. roaring_bitmap_is_subset(bm1, bm2) <=> V \subseteq W
  BY <1>1, <1>2, <1>4, IncludedByChunks
<1>6. /\ IsFiniteSet(V) /\ Cardinality(V) \in Nat
      /\ IsFiniteSet(W) /\ Cardinality(W) \in Nat
  BY <1>1, <1>2, ValuesAreFinite
<1>7. V \subseteq W => Cardinality(V) <= Cardinality(W) /\ (Cardinality(V) = Cardinality(W) => V = W)
  BY <1>6, FS_Subset
<1>8. /\ roaring_bitmap_get_cardinality(bm1) = Cardinality(V)
      /\ roaring_bitmap_get_cardinality(bm2) = Cardinality(W)
  BY CardinalityIsRight
<1>9. roaring_bitmap_is_strict_subset(bm1, bm2) <=> Cardinality(W) > Cardinality(V) /\ V \subseteq W
  BY <1>5, <1>8 DEF roaring_bitmap_is_strict_subset
<1>10. roaring_bitmap_is_strict_subset(bm1, bm2) <=> V \subseteq W /\ V # W
  BY <1>6, <1>7, <1>9
<1> QED
  BY <1>5, <1>10

\* The sizes of union, difference and symmetric difference follow from that of the
\* intersection.
LEMMA CountsOfTwoSets ==
  ASSUME NEW V, NEW W, IsFiniteSet(V), IsFiniteSet(W)
  PROVE  /\ Cardinality(V \cup W) = Cardinality(V) + Cardinality(W) - Cardinality(V \cap W)
         /\ Cardinality(V \ W) = Cardinality(V) - Cardinality(V \cap W)
         /\ Cardinality(SymDiff(V, W)) = Cardinality(V) + Cardinality(W) - 2 * Cardinality(V \cap W)
<1> DEFINE I == V \cap W
           A == V \ W
           B == W \ V
<1>1. I \in SUBSET V /\ A \in SUBSET V /\ B \in SUBSET W
  OBVIOUS
<1>2. V = I \cup A /\ I \cap A = {} /\ W = I \cup B /\ I \cap B = {} /\ A \cap B = {} /\ SymDiff(V, W) = A \cup B
  BY DEF SymDiff
<1>3. V \cap W = I /\ V \ W = A
  OBVIOUS
<1> HIDE DEF I, A, B
<1>4. IsFiniteSet(I) /\ IsFiniteSet(A) /\ IsFiniteSet(B)
  BY <1>1, FS_Subset
<1>5. /\ Cardinality(I) \in Nat /\ Cardinality(A) \in Nat /\ Cardinality(B) \in Nat
      /\ Cardinality(V) \in Nat /\ Cardinality(W) \in Nat
  BY <1>4, FS_CardinalityType
<1>6. \A S, T : IsFiniteSet(S) /\ IsFiniteSet(T) /\ S \cap T = {} => Cardinality(S \cup T) = Cardinality(S) + Cardinality(T)
  <2> TAKE S, T
  <2> SUFFICES ASSUME IsFiniteSet(S), IsFiniteSet(T), S \cap T = {} PROVE Cardinality(S \cup T) = Cardinality(S) + Cardinality(T)
    OBVIOUS
  <2>1. Cardinality(S \cup T) = Cardinality(S) + Cardinality(T) - Cardinality(S \cap T)
    BY FS_Union
  <2>2. Cardinality(S \cap T) = 0 /\ Cardinality(S) \in Nat /\ Cardinality(T) \in Nat
    BY FS_EmptySet, FS_CardinalityType
  <2> QED
    BY <2>1, <2>2
<1>7. /\ Cardinality(V) = Cardinality(I) + Cardinality(A)
      /\ Cardinality(W) = Cardinality(I) + Cardinality(B)
      /\ Cardinality(SymDiff(V, W)) = Cardinality(A) + Cardinality(B)
  BY <1>2, <1>4, <1>6
<1>8. Cardinality(V \cup W) = Cardinality(V) + Cardinality(W) - Cardinality(I)
  BY <1>3, FS_Union
<1>9. Cardinality(A) = Cardinality(V) - Cardinality(I)
  BY <1>5, <1>7
<1>10. Cardinality(SymDiff(V, W)) = Cardinality(V) + Cardinality(W) - 2 * Cardinality(I)
  <2> DEFINE i == Cardinality(I)
             a == Cardinality(A)
             b == Cardinality(B)
             v == Cardinality(V)
             w == Cardinality(W)
  <2>1. i \in Nat /\ a \in Nat /\ b \in Nat /\ v = i + a /\ w = i + b /\ Cardinality(SymDiff(V, W)) = a + b
    BY <1>5, <1>7
  <2> HIDE DEF i, a, b, v, w
  <2>2. a + b = v + w - 2 * i
    BY <2>1
  <2> QED
    BY <2>1, <2>2 DEF i, v, w
<1> QED
  BY <1>3, <1>8, <1>9, <1>10

\* roaring_bitmap_intersect says whether two bitmaps share a value, and
\* roaring_bitmap_and_cardinality how many they share.
THEOREM BitmapsShare ==
  ASSUME NEW bm1, NEW V, Represents(bm1, V), NEW bm2, NEW W, Represents(bm2, W)
  PROVE  /\ roaring_bitmap_intersect(bm1, bm2) <=> V \cap W # {}
         /\ roaring_bitmap_and_cardinality(bm1, bm2) = Cardinality(V \cap W)
<1> DEFINE K == DOMAIN bm1 \cap DOMAIN bm2
           f == [k \in K |-> container_and_cardinality(bm1[k], bm2[k])]
<1>1. /\ V \in SUBSET Value
      /\ \A k : Chunk(V, k) \in SUBSET Low
      /\ \A k : k \in DOMAIN bm1 <=> k \in Key /\ Chunk(V, k) # {}
      /\ \A k \in DOMAIN bm1 : Sound(bm1[k], Chunk(V, k))
  BY KeysOfChunks
<1>2. /\ W \in SUBSET Value
      /\ \A k : k \in DOMAIN bm2 <=> k \in Key /\ Chunk(W, k) # {}
      /\ \A k \in DOMAIN bm2 : Sound(bm2[k], Chunk(W, k))
  BY KeysOfChunks
<1>3. \A k \in K : /\ container_and_cardinality(bm1[k], bm2[k]) = Cardinality(Chunk(V, k) \cap Chunk(W, k))
                   /\ container_intersect(bm1[k], bm2[k]) <=> Chunk(V, k) \cap Chunk(W, k) # {}
  BY <1>1, <1>2, ContainersShare
<1>4. /\ V \cap W # {} <=> \E k \in Key : Chunk(V, k) \cap Chunk(W, k) # {}
      /\ \A k : Chunk(V \cap W, k) = Chunk(V, k) \cap Chunk(W, k)
  BY <1>1, <1>2, IncludedByChunks
<1>5. roaring_bitmap_intersect(bm1, bm2) <=> V \cap W # {}
  <2>1. \A k \in Key : Chunk(V, k) \cap Chunk(W, k) # {} => k \in K
    BY <1>1, <1>2
  <2>2. \A k \in K : k \in Key
    BY <1>1
  <2> QED
    BY <1>3, <1>4, <2>1, <2>2 DEF roaring_bitmap_intersect
<1>6. roaring_bitmap_and_cardinality(bm1, bm2) = Cardinality(V \cap W)
  <2>1. roaring_bitmap_and_cardinality(bm1, bm2) = SumFunction(f)
    BY DEF roaring_bitmap_and_cardinality
  <2>2. DOMAIN f = K /\ K \in SUBSET Key
    BY <1>1
  <2>3. \A k \in K : f[k] = Cardinality(Chunk(V \cap W, k))
    BY <1>3, <1>4
  <2>4. \A k \in Key : k \notin K => Chunk(V \cap W, k) = {}
    BY <1>1, <1>2, <1>4
  <2>5. V \cap W \in SUBSET Value
    BY <1>1
  <2> HIDE DEF f, K
  <2>6. SumFunction(f) = Cardinality(V \cap W)
    BY <2>2, <2>3, <2>4, <2>5, SumOverChunks
  <2> QED
    BY <2>1, <2>6
<1> QED
  BY <1>5, <1>6

\* The size of a union, and the Jaccard index, are right without the union.
THEOREM UnionsCounted ==
  ASSUME NEW bm1, NEW V, Represents(bm1, V), NEW bm2, NEW W, Represents(bm2, W)
  PROVE  /\ roaring_bitmap_or_cardinality(bm1, bm2) = Cardinality(V \cup W)
         /\ roaring_bitmap_jaccard_index(bm1, bm2) = <<Cardinality(V \cap W), Cardinality(V \cup W)>>
<1>1. roaring_bitmap_and_cardinality(bm1, bm2) = Cardinality(V \cap W)
  BY BitmapsShare
<1>2. /\ roaring_bitmap_get_cardinality(bm1) = Cardinality(V)
      /\ roaring_bitmap_get_cardinality(bm2) = Cardinality(W)
  BY CardinalityIsRight
<1>3. IsFiniteSet(V) /\ IsFiniteSet(W)
  BY BitmapHas, ValuesAreFinite
<1>4. /\ Cardinality(V \cup W) = Cardinality(V) + Cardinality(W) - Cardinality(V \cap W)
      /\ Cardinality(V \ W) = Cardinality(V) - Cardinality(V \cap W)
      /\ Cardinality(SymDiff(V, W)) = Cardinality(V) + Cardinality(W) - 2 * Cardinality(V \cap W)
  BY <1>3, CountsOfTwoSets
<1> QED
  BY <1>1, <1>2, <1>4 DEF roaring_bitmap_or_cardinality, roaring_bitmap_jaccard_index

\* So are the sizes of the two differences.
THEOREM DifferencesCounted ==
  ASSUME NEW bm1, NEW V, Represents(bm1, V), NEW bm2, NEW W, Represents(bm2, W)
  PROVE  /\ roaring_bitmap_xor_cardinality(bm1, bm2) = Cardinality(SymDiff(V, W))
         /\ roaring_bitmap_andnot_cardinality(bm1, bm2) = Cardinality(V \ W)
<1>1. roaring_bitmap_and_cardinality(bm1, bm2) = Cardinality(V \cap W)
  BY BitmapsShare
<1>2. /\ roaring_bitmap_get_cardinality(bm1) = Cardinality(V)
      /\ roaring_bitmap_get_cardinality(bm2) = Cardinality(W)
  BY CardinalityIsRight
<1>3. IsFiniteSet(V) /\ IsFiniteSet(W)
  BY BitmapHas, ValuesAreFinite
<1>4. /\ Cardinality(V \cup W) = Cardinality(V) + Cardinality(W) - Cardinality(V \cap W)
      /\ Cardinality(V \ W) = Cardinality(V) - Cardinality(V \cap W)
      /\ Cardinality(SymDiff(V, W)) = Cardinality(V) + Cardinality(W) - 2 * Cardinality(V \cap W)
  BY <1>3, CountsOfTwoSets
<1> QED
  BY <1>1, <1>2, <1>4 DEF roaring_bitmap_xor_cardinality, roaring_bitmap_andnot_cardinality

-----------------------------------------------------------------------------
(* Ranges of values. *)

Within(V, first, last) == {v \in V : first <= v /\ v <= last}

\* The values of a range in one chunk: all of them, or those up to the last value.
LEMMA CountUpToInChunks ==
  ASSUME NEW V \in SUBSET Value, NEW first \in Value, NEW last \in Value, first <= last, NEW k \in Key
  PROVE  LET W == {v \in V : high(first) <= high(v) /\ v <= last}
         IN  Chunk(W, k) = IF high(first) <= k /\ k <= high(last)
                           THEN IF k = high(last) THEN UpTo(Chunk(V, k), low(last)) ELSE Chunk(V, k)
                           ELSE {}
<1> DEFINE W == {v \in V : high(first) <= high(v) /\ v <= last}
<1>1. k \in Int /\ high(first) \in Int /\ high(last) \in Int /\ low(last) \in Low
  BY Halves, KeyConstants
<1>2. \A x \in Low : /\ k * ChunkSize + x \in Value
                     /\ high(k * ChunkSize + x) = k /\ low(k * ChunkSize + x) = x
  BY Whole
<1>3. \A x \in Low : k * ChunkSize + x <= last <=> k < high(last) \/ (k = high(last) /\ x <= low(last))
  BY <1>2, OrderOfValues
<1>4. \A x \in Low : x \in Chunk(W, k) <=> /\ x \in Chunk(V, k) /\ high(first) <= k
                                           /\ k < high(last) \/ (k = high(last) /\ x <= low(last))
  BY <1>2, <1>3 DEF Chunk
<1>5. Chunk(W, k) \subseteq Low /\ Chunk(V, k) \subseteq Low
  BY DEF Chunk
<1> HIDE DEF W
<1>6. Chunk(W, k) = IF high(first) <= k /\ k <= high(last)
                    THEN IF k = high(last) THEN UpTo(Chunk(V, k), low(last)) ELSE Chunk(V, k)
                    ELSE {}
  <2>1. CASE high(first) <= k /\ k = high(last)
    <3>1. Chunk(W, k) = UpTo(Chunk(V, k), low(last))
      BY <1>1, <1>4, <1>5, <2>1 DEF UpTo
    <3> QED
      BY <1>1, <2>1, <3>1
  <2>2. CASE high(first) <= k /\ k < high(last)
    <3>1. Chunk(W, k) = Chunk(V, k)
      BY <1>4, <1>5, <2>2
    <3> QED
      BY <1>1, <2>2, <3>1
  <2>3. CASE ~(high(first) <= k /\ k <= high(last))
    <3>1. Chunk(W, k) = {}
      BY <1>1, <1>4, <1>5, <2>3
    <3> QED
      BY <2>3, <3>1
  <2> QED
    BY <1>1, <2>1, <2>2, <2>3
<1> QED
  BY <1>6 DEF W

\* What is taken back is what comes before the range in its first container.
LEMMA CountTakenBack ==
  ASSUME NEW bm, NEW V, Represents(bm, V), NEW first \in Value
  PROVE  Cardinality({v \in V : high(first) = high(v) /\ v < first}) =
            IF high(first) \in DOMAIN bm /\ low(first) # 0
            THEN container_rank(bm[high(first)], low(first) - 1)
            ELSE 0
<1> DEFINE k == high(first)
           x == low(first)
           C == Chunk(V, k)
           B == {v \in V : k = high(v) /\ v < first}
<1>1. /\ V \in SUBSET Value
      /\ \A j \in DOMAIN bm : j \in Key /\ Sound(bm[j], Chunk(V, j)) /\ Chunk(V, j) # {}
      /\ \A j \in Key : j \notin DOMAIN bm => Chunk(V, j) = {}
  BY BitmapHas
<1>2. k \in Key /\ x \in Low /\ x \in Int /\ 0 <= x /\ C \in SUBSET Low /\ k \in Int
  BY Halves, LowAreNumbers DEF Chunk
<1>3. B \in SUBSET Value /\ \A v \in B : high(v) = k
  BY <1>1
<1>4. Cardinality(B) = Cardinality(Chunk(B, k))
  <2>1. {v \in B : high(v) = k} = B
    BY <1>3
  <2>2. Cardinality({v \in B : high(v) = k}) = Cardinality(Chunk(B, k))
    BY <1>2, <1>3, CountOfChunk
  <2> QED
    BY <2>1, <2>2
<1>5. Chunk(B, k) = Before(C, x)
  <2>1. \A y \in Low : k * ChunkSize + y \in Value /\ high(k * ChunkSize + y) = k /\ low(k * ChunkSize + y) = y
    BY <1>2, Whole
  <2>2. \A y \in Low : k * ChunkSize + y < first <=> y < x
    BY <1>2, <2>1, OrderOfValues
  <2>3. \A y \in Low : y \in Chunk(B, k) <=> y \in C /\ y < x
    BY <2>1, <2>2 DEF Chunk
  <2>4. Chunk(B, k) \subseteq Low /\ C \subseteq Low
    BY DEF Chunk
  <2> QED
    BY <2>3, <2>4 DEF Before
<1>6. CASE k \in DOMAIN bm /\ x # 0
  <2>1. x - 1 \in Low
    BY <1>2, <1>6, ContainerConstants DEF Low
  <2>2. Exact(bm[k], C)
    BY <1>1, <1>6, SoundIsLazy
  <2>3. UpTo(C, x - 1) = Before(C, x)
    <3>1. \A y \in C : y \in Int
      BY <1>2, LowAreNumbers
    <3> QED
      BY <1>2, <3>1 DEF UpTo, Before
  <2> HIDE DEF k, x, C
  <2>4. container_rank(bm[k], x - 1) = Cardinality(UpTo(C, x - 1))
    BY <2>1, <2>2, ContainerRank
  <2> QED
    BY <1>4, <1>5, <1>6, <2>3, <2>4 DEF k, x
<1>7. CASE ~(k \in DOMAIN bm /\ x # 0)
  <2>1. Before(C, x) = {}
    <3>1. \A y \in C : y \in Int /\ 0 <= y
      BY <1>2, LowAreNumbers
    <3>2. C = {} \/ x = 0
      BY <1>1, <1>2, <1>7
    <3> QED
      BY <3>1, <3>2 DEF Before
  <2>2. Cardinality(Before(C, x)) = 0
    BY <2>1, FS_EmptySet
  <2> QED
    BY <1>4, <1>5, <1>7, <2>2
<1> QED
  BY <1>6, <1>7

\* roaring_bitmap_range_cardinality_closed counts the values from the first to the last one.
LEMMA ClosedRangeCounted ==
  ASSUME NEW bm, NEW V, Represents(bm, V), NEW first \in Value, NEW last \in Value
  PROVE  roaring_bitmap_range_cardinality_closed(bm, first, last) = Cardinality(Within(V, first, last))
<1> DEFINE W == {v \in V : high(first) <= high(v) /\ v <= last}
           B == {v \in V : high(first) = high(v) /\ v < first}
           K == {x \in DOMAIN bm : high(first) <= x /\ x <= high(last)}
           upTo(k) == IF k = high(last)
                      THEN container_rank(bm[k], low(last))
                      ELSE container_get_cardinality(bm[k])
           f == [k \in K |-> upTo(k)]
           before == IF high(first) \in DOMAIN bm /\ low(first) # 0
                     THEN container_rank(bm[high(first)], low(first) - 1)
                     ELSE 0
<1>1. /\ V \in SUBSET Value
      /\ \A j \in DOMAIN bm : j \in Key /\ Sound(bm[j], Chunk(V, j)) /\ Chunk(V, j) # {}
      /\ \A j \in Key : j \notin DOMAIN bm => Chunk(V, j) = {}
  BY BitmapHas
<1>2. /\ first \in Int /\ last \in Int /\ \A v \in V : v \in Int
      /\ high(first) \in Key /\ high(last) \in Key /\ low(last) \in Low
  BY <1>1, Halves
<1>3. CASE first > last
  <2>1. Within(V, first, last) = {}
    BY <1>2, <1>3 DEF Within
  <2>2. Cardinality(Within(V, first, last)) = 0
    BY <2>1, FS_EmptySet
  <2> QED
    BY <1>3, <2>2 DEF roaring_bitmap_range_cardinality_closed
<1>4. CASE first <= last
  <2>1. roaring_bitmap_range_cardinality_closed(bm, first, last) = SumFunction(f) - before
    <3>1. ~(first > last)
      BY <1>2, <1>4
    <3> QED
      BY <3>1 DEF roaring_bitmap_range_cardinality_closed
  <2>2. before = Cardinality(B)
    BY CountTakenBack
  <2>3. \A k \in Key : Chunk(W, k) = IF high(first) <= k /\ k <= high(last)
                                     THEN IF k = high(last) THEN UpTo(Chunk(V, k), low(last)) ELSE Chunk(V, k)
                                     ELSE {}
    <3> TAKE k \in Key
    <3>1. V \in SUBSET Value /\ first <= last
      BY <1>1, <1>4
    <3> QED
      BY ONLY <3>1, CountUpToInChunks, first \in Value, last \in Value, k \in Key
  <2>4. W \in SUBSET Value /\ B \in SUBSET Value
    BY <1>1
  <2>5. B \subseteq W
    <3>1. \A v \in B : v \in Int /\ v <= last
      BY <1>2, <1>4
    <3>2. \A v \in V : high(first) = high(v) => high(first) <= high(v)
      BY <1>2, KeyConstants
    <3> QED
      BY <3>1, <3>2
  <2>6. W \ B = Within(V, first, last)
    <3>1. \A v \in V : first <= v => high(first) <= high(v)
      <4>1. \A v \in V : high(v) \in Int /\ high(first) \in Int /\ (first <= v <=> high(first) < high(v) \/ (high(first) = high(v) /\ low(first) <= low(v)))
        BY <1>1, OrderOfValues, Halves
      <4> QED
        BY <4>1
    <3>2. \A v \in V : high(first) <= high(v) /\ high(first) # high(v) => first <= v
      <4>1. \A v \in V : high(v) \in Int /\ high(first) \in Int /\ (first <= v <=> high(first) < high(v) \/ (high(first) = high(v) /\ low(first) <= low(v)))
        BY <1>1, OrderOfValues, Halves
      <4> QED
        BY <4>1
    <3>3. \A v \in V : v < first <=> ~(first <= v)
      BY <1>2
    <3> QED
      BY <3>1, <3>2, <3>3 DEF Within
  <2>7. \A k \in K : k \in Key /\ f[k] = Cardinality(Chunk(W, k))
    <3> TAKE k \in K
    <3>1. k \in Key /\ k \in DOMAIN bm /\ high(first) <= k /\ k <= high(last) /\ Sound(bm[k], Chunk(V, k))
      BY <1>1
    <3>2. CASE k = high(last)
      <4>1. container_rank(bm[k], low(last)) = Cardinality(UpTo(Chunk(V, k), low(last)))
        BY <1>2, <3>1, SoundIsLazy, ContainerRank
      <4> QED
        BY <2>3, <3>1, <3>2, <4>1
    <3>3. CASE k # high(last)
      BY <2>3, <3>1, <3>3, SoundCount
    <3> QED
      BY <3>2, <3>3
  <2>8. \A k \in Key : k \notin K => Chunk(W, k) = {}
    <3> TAKE k \in Key
    <3>1. CASE k \notin DOMAIN bm
      BY <1>1, <2>3, <3>1 DEF UpTo
    <3>2. CASE ~(high(first) <= k /\ k <= high(last))
      BY <2>3, <3>2
    <3> QED
      BY <3>1, <3>2
  <2>9. DOMAIN f = K
    OBVIOUS
  <2> HIDE DEF f, W, B, K, before
  <2>10. SumFunction(f) = Cardinality(W)
    BY <2>4, <2>7, <2>8, <2>9, SumOverChunks
  <2>11. IsFiniteSet(W) /\ IsFiniteSet(B) /\ Cardinality(W) \in Nat /\ Cardinality(B) \in Nat
    BY <2>4, ValuesAreFinite
  <2>12. Cardinality(W \ B) = Cardinality(W) - Cardinality(B)
    <3>1. W \cap B = B
      BY <2>5
    <3>2. Cardinality(W \ B) = Cardinality(W) - Cardinality(W \cap B)
      BY <2>11, FS_Difference
    <3> QED
      BY <3>1, <3>2
  <2> QED
    BY <2>1, <2>2, <2>6, <2>10, <2>12
<1> QED
  BY <1>2, <1>3, <1>4

\* roaring_bitmap_range_cardinality counts the values of a range within one container, in
\* neighbours and across several.
THEOREM RangeCounted ==
  ASSUME NEW bm, NEW V, Represents(bm, V), NEW first \in Value, NEW end \in 0 .. UINT32_MAX + 1
  PROVE  roaring_bitmap_range_cardinality(bm, first, end) = Cardinality({v \in V : first <= v /\ v < end})
<1>1. V \in SUBSET Value
  BY BitmapHas
<1>2. /\ first \in Int /\ first <= UINT32_MAX /\ UINT32_MAX \in Int /\ end \in Int /\ 0 <= first /\ end <= UINT32_MAX + 1
      /\ \A v \in V : v \in Int
  BY <1>1, ValuesAreNumbers
<1>3. CASE first >= end
  <2>1. {v \in V : first <= v /\ v < end} = {}
    BY <1>2, <1>3
  <2>2. Cardinality({v \in V : first <= v /\ v < end}) = 0
    BY <2>1, FS_EmptySet
  <2> QED
    BY <1>3, <2>2 DEF roaring_bitmap_range_cardinality
<1>4. CASE first < end
  <2>1. end - 1 \in Value
    BY <1>2, <1>4 DEF Value
  <2>2. ~(first >= end \/ first > UINT32_MAX + 1)
    BY <1>2, <1>4
  <2>3. roaring_bitmap_range_cardinality(bm, first, end) = roaring_bitmap_range_cardinality_closed(bm, first, end - 1)
    BY <2>2 DEF roaring_bitmap_range_cardinality
  <2>4. Within(V, first, end - 1) = {v \in V : first <= v /\ v < end}
    BY <1>2 DEF Within
  <2>5. roaring_bitmap_range_cardinality_closed(bm, first, end - 1) = Cardinality(Within(V, first, end - 1))
    BY <2>1, ClosedRangeCounted
  <2> QED
    BY <2>3, <2>4, <2>5
<1> QED
  BY <1>2, <1>3, <1>4

\* A container with all values of its chunk is full, of whatever type it is.
LEMMA FullWhenAll == ASSUME NEW c, Sound(c, Low) PROVE container_is_full(c)
<1>1. Exact(c, Low) /\ container_get_cardinality(c) = ChunkSize
  BY SoundIsLazy, SoundCount, LowIsFinite
<1>2. \/ c.type = "array" \/ c.type = "bitset"
      \/ c.type = "run" /\ c = Run(c.runs) /\ Apart(c.runs) /\ Low = RunValues(c.runs)
  BY <1>1, CountedKinds
<1>3. CASE c.type = "run" /\ c = Run(c.runs) /\ Apart(c.runs) /\ Low = RunValues(c.runs)
  <2>1. c.runs = {rle16(0, ChunkSize - 1)}
    BY <1>3, FullRun, RunsAreUnique
  <2> QED
    BY <1>3, <2>1 DEF container_is_full, run_container_is_full
<1> QED
  BY <1>1, <1>2, <1>3 DEF container_is_full

\* Keys that are as many as those of an interval they belong to are all of it.
LEMMA AllKeysBetween ==
  ASSUME NEW K, NEW a \in Int, NEW b \in Int, a <= b, K \subseteq a .. b
  PROVE  Cardinality(K) = b - a + 1 <=> K = a .. b
<1>1. b - a + 1 \in Nat
  OBVIOUS
<1> DEFINE n == b - a + 1
<1> HIDE DEF n
<1>2. n \in Nat /\ n = b - a + 1
  BY <1>1 DEF n
<1>3. IsFiniteSet(a .. b) /\ Cardinality(a .. b) = n
  BY <1>2, CountOfNumbers
<1>4. Cardinality(K) = Cardinality(a .. b) => K = a .. b
  BY <1>3, FS_Subset
<1> QED
  BY <1>3, <1>4 DEF n

\* roaring_bitmap_contains_range_closed looks into the containers at both ends, and for full
\* ones in between.
LEMMA ClosedRangeContained ==
  ASSUME NEW bm, NEW V, Represents(bm, V), NEW first \in Value, NEW last \in Value, first <= last
  PROVE  roaring_bitmap_contains_range_closed(bm, first, last) <=> first .. last \subseteq V
<1> DEFINE kf == high(first)
           kl == high(last)
           between == {k \in DOMAIN bm : kf <= k /\ k <= kl}
           C(k) == Chunk(V, k)
           R == first .. last
           lo(k) == ContainerMin(k, first)
           hi(k) == ContainerMax(k, last)
<1>1. /\ V \in SUBSET Value
      /\ \A j \in DOMAIN bm : j \in Key /\ Sound(bm[j], C(j)) /\ Exact(bm[j], C(j)) /\ Lazy(bm[j], C(j)) /\ C(j) # {}
      /\ \A j \in Key : j \notin DOMAIN bm => C(j) = {}
  BY BitmapHas, SoundIsLazy
<1>2. /\ first \in Int /\ last \in Int /\ R \in SUBSET Value
      /\ kf \in Key /\ kl \in Key /\ low(first) \in Low /\ low(last) \in Low /\ kf \in Int /\ kl \in Int
      /\ \A k \in Key : k \in Int
  BY Halves, RangeOfValues, KeyConstants
<1>3. kf <= kl /\ (kf = kl => low(first) <= low(last))
  BY <1>2, OrderOfValues
<1>4. CASE first = last
  <2>1. R = {first}
    BY <1>2, <1>4
  <2>2. roaring_bitmap_contains_range_closed(bm, first, last) <=> roaring_bitmap_contains(bm, first)
    <3>1. ~(first > last) /\ ~(first < last) /\ first = last
      BY <1>2, <1>4
    <3> QED
      BY ONLY <3>1 DEF roaring_bitmap_contains_range_closed
  <2>3. roaring_bitmap_contains(bm, first) <=> first \in V
    BY ContainsIsRight
  <2> QED
    BY <2>1, <2>2, <2>3
<1>5. CASE first # last
  <2>1. first < last
    BY <1>2, <1>5
  <2> DEFINE inside == IF kf = kl
                       THEN container_contains_range(bm[kf], low(first), low(last) + 1)
                       ELSE /\ container_contains_range(bm[kf], low(first), ChunkSize)
                            /\ container_contains_range(bm[kl], 0, low(last) + 1)
                            /\ \A k \in between \ {kf, kl} : container_is_full(bm[k])
  <2>2. roaring_bitmap_contains_range_closed(bm, first, last) <=>
          {kf, kl} \subseteq DOMAIN bm /\ Cardinality(between) = kl - kf + 1 /\ inside
    BY <1>2, <2>1 DEF roaring_bitmap_contains_range_closed
  <2>3. \A k \in kf .. kl : /\ k \in Key /\ Chunk(R, k) = lo(k) .. hi(k) /\ lo(k) .. hi(k) # {}
                            /\ lo(k) = (IF k = kf THEN low(first) ELSE 0)
                            /\ hi(k) = (IF k = kl THEN low(last) ELSE ChunkSize - 1)
                            /\ C(k) \in SUBSET Low
    <3> TAKE k \in kf .. kl
    <3>1. k \in Key /\ kf <= k /\ k <= kl
      <4>1. k \in Int /\ kf <= k /\ k <= kl
        BY <1>2
      <4>2. 0 <= kf /\ kl < KeyCount /\ KeyCount \in Nat
        BY <1>2, KeyConstants
      <4>3. 0 <= k /\ k <= KeyCount - 1
        BY <1>2, <4>1, <4>2
      <4> QED
        BY <4>1, <4>2, <4>3 DEF Key
    <3>2. Chunk(R, k) = lo(k) .. hi(k) /\ lo(k) <= hi(k) /\ lo(k) \in Low /\ hi(k) \in Low
      BY <1>2, <3>1, ChunkOfRange
    <3>3. lo(k) \in lo(k) .. hi(k)
      BY <3>2, LowAreNumbers
    <3>4. /\ lo(k) = (IF k = kf THEN low(first) ELSE 0)
          /\ hi(k) = (IF k = kl THEN low(last) ELSE ChunkSize - 1)
      BY DEF ContainerMin, ContainerMax
    <3>5. C(k) \in SUBSET Low
      BY DEF Chunk
    <3> QED
      BY <3>1, <3>2, <3>3, <3>4, <3>5
  <2>4. R \subseteq V <=> \A k \in kf .. kl : lo(k) .. hi(k) \subseteq C(k)
    <3>1. R \subseteq V <=> \A k \in Key : Chunk(R, k) \subseteq C(k)
      BY <1>1, <1>2, IncludedByChunks
    <3>2. \A k \in Key : k \notin kf .. kl => Chunk(R, k) = {}
      <4> TAKE k \in Key
      <4>1. k \in kf .. kl <=> kf <= k /\ k <= kl
        BY <1>2
      <4> QED
        BY <4>1, ChunkOfRange
    <3> QED
      BY <2>3, <3>1, <3>2
  <2>5. between \subseteq kf .. kl
    BY <1>1, <1>2
  <2>6. Cardinality(between) = kl - kf + 1 <=> between = kf .. kl
    <3> HIDE DEF between, kf, kl
    <3> QED
      BY <1>2, <1>3, <2>5, AllKeysBetween
  <2>7. ASSUME between = kf .. kl PROVE inside <=> \A k \in kf .. kl : lo(k) .. hi(k) \subseteq C(k)
    <3>1. kf \in between /\ kl \in between
      BY <1>2, <1>3, <2>7
    <3>2. Exact(bm[kf], C(kf)) /\ Exact(bm[kl], C(kl))
      BY <1>1, <3>1
    <3>3. /\ low(last) + 1 \in 0 .. ChunkSize /\ ChunkSize \in 0 .. ChunkSize /\ 0 \in Low /\ 0 < low(last) + 1
          /\ low(first) < ChunkSize /\ low(last) + 1 - 1 = low(last) /\ low(first) \in Int /\ low(last) \in Int
          /\ ChunkSize \in Nat
      BY <1>2, ContainerConstants DEF Low
    <3>4. CASE kf = kl
      <4>1. kf .. kl = {kf}
        BY <1>2, <3>4
      <4>2. low(first) < low(last) + 1
        BY <1>3, <3>3, <3>4
      <4>3. lo(kf) = low(first) /\ hi(kf) = low(last)
        BY <2>3, <3>4, <4>1
      <4>4. container_contains_range(bm[kf], low(first), low(last) + 1) <=> low(first) .. low(last) + 1 - 1 \subseteq C(kf)
        BY <1>2, <3>2, <3>3, <4>2, ContainerContainsRange
      <4> QED
        BY <3>3, <3>4, <4>1, <4>3, <4>4
    <3>5. CASE kf # kl
      <4>1. container_contains_range(bm[kf], low(first), ChunkSize) <=> low(first) .. ChunkSize - 1 \subseteq C(kf)
        BY <1>2, <3>2, <3>3, ContainerContainsRange
      <4>2. container_contains_range(bm[kl], 0, low(last) + 1) <=> 0 .. low(last) + 1 - 1 \subseteq C(kl)
        BY <1>2, <3>2, <3>3, ContainerContainsRange
      <4>3. \A k \in between \ {kf, kl} : container_is_full(bm[k]) <=> 0 .. ChunkSize - 1 \subseteq C(k)
        <5> TAKE k \in between \ {kf, kl}
        <5>1. Sound(bm[k], C(k)) /\ Lazy(bm[k], C(k)) /\ C(k) \in SUBSET Low /\ 0 .. ChunkSize - 1 = Low
          BY <1>1, <2>3, <2>7 DEF Low
        <5>2. container_is_full(bm[k]) => C(k) = Low
          BY <5>1, FullHasAll
        <5>3. C(k) = Low => container_is_full(bm[k])
          BY <5>1, FullWhenAll
        <5> QED
          BY <5>1, <5>2, <5>3
      <4>4. lo(kf) = low(first) /\ hi(kf) = ChunkSize - 1 /\ lo(kl) = 0 /\ hi(kl) = low(last)
        BY <2>3, <2>7, <3>1, <3>5
      <4>5. \A k \in between \ {kf, kl} : lo(k) = 0 /\ hi(k) = ChunkSize - 1
        BY <2>3, <2>7
      <4> QED
        BY <2>7, <3>1, <3>3, <3>5, <4>1, <4>2, <4>3, <4>4, <4>5
    <3> QED
      BY <3>4, <3>5
  <2>8. (\A k \in kf .. kl : lo(k) .. hi(k) \subseteq C(k)) => between = kf .. kl
    <3> SUFFICES ASSUME \A k \in kf .. kl : lo(k) .. hi(k) \subseteq C(k) PROVE between = kf .. kl
      OBVIOUS
    <3>1. \A k \in kf .. kl : C(k) # {} /\ k \in Key
      BY <2>3
    <3>2. \A k \in kf .. kl : k \in DOMAIN bm
      BY <1>1, <3>1
    <3>3. \A k \in kf .. kl : kf <= k /\ k <= kl
      BY <1>2
    <3> QED
      BY <2>5, <3>2, <3>3
  <2>9. between = kf .. kl => {kf, kl} \subseteq DOMAIN bm
    BY <1>2, <1>3
  <2> HIDE DEF inside, between
  <2> QED
    BY <2>2, <2>4, <2>6, <2>7, <2>8, <2>9
<1> QED
  BY <1>4, <1>5

\* roaring_bitmap_contains_range says whether all integers of a range are values.
THEOREM RangeContained ==
  ASSUME NEW bm, NEW V, Represents(bm, V), NEW first \in Value, NEW end \in 0 .. UINT32_MAX + 1
  PROVE  roaring_bitmap_contains_range(bm, first, end) <=> \A v \in Value : first <= v /\ v < end => v \in V
<1>1. V \in SUBSET Value
  BY BitmapHas
<1>2. /\ first \in Int /\ first <= UINT32_MAX /\ UINT32_MAX \in Int /\ end \in Int /\ 0 <= first /\ end <= UINT32_MAX + 1
      /\ \A v \in Value : v \in Int
  BY <1>1, ValuesAreNumbers
<1>3. CASE first >= end
  <2>1. \A v \in Value : ~(first <= v /\ v < end)
    BY <1>2, <1>3
  <2> QED
    BY <1>3, <2>1 DEF roaring_bitmap_contains_range
<1>4. CASE first < end
  <2>1. end - 1 \in Value /\ first <= end - 1
    BY <1>2, <1>4 DEF Value
  <2>2. ~(first >= end \/ first > UINT32_MAX + 1)
    BY <1>2, <1>4
  <2>3. roaring_bitmap_contains_range(bm, first, end) <=> roaring_bitmap_contains_range_closed(bm, first, end - 1)
    BY <2>2 DEF roaring_bitmap_contains_range
  <2>4. first .. end - 1 \subseteq Value
    BY <2>1, RangeOfValues
  <2>5. \A v \in Value : v \in first .. end - 1 <=> first <= v /\ v < end
    BY <1>2
  <2>6. roaring_bitmap_contains_range_closed(bm, first, end - 1) <=> first .. end - 1 \subseteq V
    BY <2>1, ClosedRangeContained
  <2> QED
    BY <2>3, <2>4, <2>5, <2>6
<1> QED
  BY <1>2, <1>3, <1>4

\* The iterator moves to the least value that is not less than a given one, if there is one.
LEMMA NextValue ==
  ASSUME NEW bm, NEW V, Represents(bm, V), NEW x \in Value
  PROVE  LET next == roaring_uint32_iterator_move_equalorlarger(bm, x)
         IN  /\ \A v \in next : v \in V /\ x <= v
             /\ \A w \in V : x <= w => \E v \in next : v <= w
<1> DEFINE here == high(x) \in DOMAIN bm /\ container_maximum(bm[high(x)]) >= low(x)
           later == {k \in DOMAIN bm : k > high(x)}
           C(k) == Chunk(V, k)
           first(k, y) == Min({z \in container_to_uint32_array(bm[k]) : z >= y})
           from(k, y) == k * ChunkSize + first(k, y)
           next == roaring_uint32_iterator_move_equalorlarger(bm, x)
<1>1. /\ V \in SUBSET Value
      /\ \A j \in DOMAIN bm : j \in Key /\ Sound(bm[j], C(j)) /\ C(j) # {} /\ C(j) \in SUBSET Low
      /\ \A j \in Key : j \notin DOMAIN bm => C(j) = {}
  BY BitmapHas, SoundIsLazy
<1>2. next = IF here THEN {from(high(x), low(x))} ELSE IF later # {} THEN {from(Min(later), 0)} ELSE {}
  BY DEF roaring_uint32_iterator_move_equalorlarger
<1>3. \A v \in V : /\ v \in Value /\ v = high(v) * ChunkSize + low(v) /\ high(v) \in DOMAIN bm /\ low(v) \in C(high(v))
                   /\ v \in Int /\ high(v) \in Int /\ low(v) \in Int
                   /\ x <= v <=> high(x) < high(v) \/ (high(x) = high(v) /\ low(x) <= low(v))
  <2> TAKE v \in V
  <2>1. v \in Value
    BY <1>1
  <2>2. x <= v <=> high(x) < high(v) \/ (high(x) = high(v) /\ low(x) <= low(v))
    BY <2>1, OrderOfValues
  <2>3. v = high(v) * ChunkSize + low(v) /\ v \in Int /\ high(v) \in Int /\ low(v) \in Int /\ high(v) \in Key
    BY <2>1, Halves
  <2>4. low(v) \in C(high(v))
    BY <1>1, ChunkHas
  <2>5. high(v) \in DOMAIN bm
    BY <1>1, <2>3, <2>4
  <2> QED
    BY <2>1, <2>2, <2>3, <2>4, <2>5
<1>4. \A k \in DOMAIN bm : \A y \in C(k) : /\ k * ChunkSize + y \in V
                                           /\ high(k * ChunkSize + y) = k /\ low(k * ChunkSize + y) = y
  BY <1>1, Whole DEF Chunk
<1>5. /\ x \in Int /\ high(x) \in Int /\ low(x) \in Int /\ low(x) \in Low /\ 0 <= low(x)
      /\ \A k \in DOMAIN bm : k \in Int /\ 0 <= k /\ \A y \in C(k) : y \in Int /\ 0 <= y
  BY <1>1, Halves, KeyConstants, LowAreNumbers
<1>6. ASSUME NEW k \in DOMAIN bm, NEW y \in Int, NEW z \in C(k), y <= z
      PROVE  first(k, y) \in C(k) /\ y <= first(k, y) /\ \A w \in C(k) : y <= w => first(k, y) <= w
  <2> DEFINE S == {w \in container_to_uint32_array(bm[k]) : w >= y}
  <2>1. C(k) = container_to_uint32_array(bm[k])
    BY <1>1, SoundIsLazy, LazyHasValues
  <2>2. S \in SUBSET Int /\ S # {} /\ \A w \in S : y <= w /\ w \in C(k)
    BY <1>5, <1>6, <2>1
  <2>3. \A w \in C(k) : y <= w => w \in S
    BY <1>5, <2>1
  <2> HIDE DEF S
  <2>4. Min(S) \in S /\ \A w \in S : Min(S) <= w
    BY <2>2, MinOfSome
  <2> QED
    BY <2>2, <2>3, <2>4 DEF S
<1> HIDE DEF first, C, next
<1>7. CASE here
  <2> DEFINE k == high(x)
             y == first(k, low(x))
  <2>1. k \in DOMAIN bm /\ container_maximum(bm[k]) \in C(k) /\ low(x) <= container_maximum(bm[k])
    <3>1. container_maximum(bm[k]) \in C(k)
      BY <1>1, <1>7, EndsOfContainer
    <3> QED
      BY <1>5, <1>7, <3>1
  <2>2. y \in C(k) /\ low(x) <= y /\ \A w \in C(k) : low(x) <= w => y <= w
    BY <1>5, <1>6, <2>1
  <2>3. next = {k * ChunkSize + y}
    BY <1>2, <1>7
  <2>4. k * ChunkSize + y \in V /\ high(k * ChunkSize + y) = k /\ low(k * ChunkSize + y) = y
    BY <1>4, <2>1, <2>2
  <2> DEFINE v == k * ChunkSize + y
  <2> HIDE DEF v, y
  <2>5. next = {v} /\ v \in V /\ high(v) = k /\ low(v) = y
    BY <2>3, <2>4 DEF v
  <2>6. x <= v
    BY <1>3, <2>2, <2>5
  <2>7. \A w \in V : x <= w => v <= w
    <3> TAKE w \in V
    <3>1. v <= w <=> high(v) < high(w) \/ (high(v) = high(w) /\ low(v) <= low(w))
      BY <1>3, <2>5, OrderOfValues
    <3>2. x <= w => high(x) < high(w) \/ (high(x) = high(w) /\ low(x) <= low(w))
      BY <1>3
    <3>3. high(x) = high(w) /\ low(x) <= low(w) => y <= low(w)
      BY <1>3, <2>2
    <3> QED
      BY <2>5, <3>1, <3>2, <3>3
  <2> QED
    BY <2>5, <2>6, <2>7 DEF next
<1>8. CASE ~here /\ later # {}
  <2> DEFINE k == Min(later)
             y == first(k, 0)
             v == k * ChunkSize + y
  <2>1. k \in later /\ \A j \in later : k <= j
    <3>1. later \in SUBSET Int /\ \A j \in later : 0 <= j
      BY <1>5
    <3> HIDE DEF later
    <3> QED
      BY <1>8, <3>1, MinOfSome
  <2>2. next = {v}
    BY <1>2, <1>8
  <2> HIDE DEF k
  <2>3. k \in DOMAIN bm /\ high(x) < k /\ k \in Int
    BY <1>5, <2>1
  <2>4. PICK z : z \in C(k)
    BY <1>1, <2>3
  <2>5. y \in C(k) /\ \A w \in C(k) : 0 <= w => y <= w
    BY <1>5, <1>6, <2>3, <2>4
  <2>6. v \in V /\ high(v) = k /\ low(v) = y
    BY <1>4, <2>3, <2>5
  <2> HIDE DEF v, y
  <2>7. x <= v
    BY <1>3, <2>3, <2>6
  <2>8. \A w \in V : x <= w => v <= w
    <3> TAKE w \in V
    <3>1. v <= w <=> high(v) < high(w) \/ (high(v) = high(w) /\ low(v) <= low(w))
      BY <1>3, <2>6, OrderOfValues
    <3>2. x <= w => high(x) < high(w) \/ (high(x) = high(w) /\ low(x) <= low(w))
      BY <1>3
    <3>3. ~(high(x) = high(w) /\ low(x) <= low(w))
      <4> SUFFICES ASSUME high(x) = high(w), low(x) <= low(w) PROVE FALSE
        OBVIOUS
      <4>1. high(x) \in DOMAIN bm /\ low(w) \in C(high(x))
        BY <1>3
      <4>2. low(w) <= container_maximum(bm[high(x)]) /\ container_maximum(bm[high(x)]) \in C(high(x))
        BY <1>1, <4>1, EndsOfContainer
      <4>3. container_maximum(bm[high(x)]) \in Int /\ low(w) \in Int
        BY <1>5, <4>1, <4>2
      <4>4. container_maximum(bm[high(x)]) >= low(x)
        BY <1>5, <4>2, <4>3
      <4> QED
        BY <1>8, <4>1, <4>4
    <3>4. high(x) < high(w) => k <= high(w)
      BY <1>3, <1>5, <2>1
    <3>5. k = high(w) => y <= low(w)
      BY <1>3, <1>5, <2>3, <2>5
    <3>6. high(w) \in Int
      BY <1>3
    <3> QED
      BY <2>3, <2>6, <3>1, <3>2, <3>3, <3>4, <3>5, <3>6
  <2> QED
    BY <2>2, <2>6, <2>7, <2>8 DEF next
<1>9. CASE ~here /\ later = {}
  <2>1. next = {}
    BY <1>2, <1>9
  <2>2. \A w \in V : ~(x <= w)
    <3> SUFFICES ASSUME NEW w \in V, x <= w PROVE FALSE
      OBVIOUS
    <3>1. high(w) \in DOMAIN bm /\ (high(x) < high(w) \/ (high(x) = high(w) /\ low(x) <= low(w)))
      BY <1>3
    <3>2. CASE high(x) < high(w)
      BY <1>3, <1>5, <1>9, <3>2
    <3>3. CASE high(x) = high(w) /\ low(x) <= low(w)
      <4>1. high(x) \in DOMAIN bm /\ low(w) \in C(high(x))
        BY <1>3, <3>3
      <4>2. low(w) <= container_maximum(bm[high(x)]) /\ container_maximum(bm[high(x)]) \in C(high(x))
        BY <1>1, <4>1, EndsOfContainer
      <4>3. container_maximum(bm[high(x)]) \in Int /\ low(w) \in Int
        BY <1>5, <4>1, <4>2
      <4>4. container_maximum(bm[high(x)]) >= low(x)
        BY <1>5, <3>3, <4>2, <4>3
      <4> QED
        BY <1>9, <4>1, <4>4
    <3> QED
      BY <3>1, <3>2, <3>3
  <2> QED
    BY <2>1, <2>2 DEF next
<1> QED
  BY <1>7, <1>8, <1>9

\* roaring_bitmap_intersect_with_range says whether a range, its end not included, has a value.
THEOREM RangeMet ==
  ASSUME NEW bm, NEW V, Represents(bm, V), NEW x \in Value, NEW y \in Int
  PROVE  roaring_bitmap_intersect_with_range(bm, x, y) <=> \E v \in V : x <= v /\ v < y
<1> DEFINE next == roaring_uint32_iterator_move_equalorlarger(bm, x)
<1>1. V \in SUBSET Value
  BY BitmapHas
<1>2. x \in Int /\ \A v \in V : v \in Int
  BY <1>1, ValuesAreNumbers
<1>3. /\ \A v \in next : v \in V /\ x <= v
      /\ \A w \in V : x <= w => \E v \in next : v <= w
  BY NextValue
<1>4. roaring_bitmap_intersect_with_range(bm, x, y) <=> x < y /\ \E v \in next : v < y
  BY DEF roaring_bitmap_intersect_with_range
<1> HIDE DEF next
<1>5. ASSUME roaring_bitmap_intersect_with_range(bm, x, y) PROVE \E v \in V : x <= v /\ v < y
  BY <1>3, <1>4, <1>5
<1>6. ASSUME NEW w \in V, x <= w, w < y PROVE roaring_bitmap_intersect_with_range(bm, x, y)
  <2>1. PICK v \in next : v <= w
    BY <1>3, <1>6
  <2>2. v \in Int /\ w \in Int
    BY <1>2, <1>3
  <2> QED
    BY <1>2, <1>4, <1>6, <2>1, <2>2
<1> QED
  BY <1>5, <1>6

-----------------------------------------------------------------------------
(* Arrays of values in ascending order. *)

\* The numbers of a finite set have the positions from 0 on, each its own.
LEMMA PositionsOfNumbers ==
  ASSUME NEW S \in SUBSET Int, IsFiniteSet(S)
  PROVE  /\ \A v \in S : Cardinality(Before(S, v)) \in 0 .. Cardinality(S) - 1
         /\ \A v, w \in S : v < w => Cardinality(Before(S, v)) < Cardinality(Before(S, w))
         /\ \A v, w \in S : Cardinality(Before(S, v)) = Cardinality(Before(S, w)) => v = w
         /\ \A i \in 1 .. Cardinality(S) : \E v \in S : Cardinality(Before(S, v)) = i - 1
         /\ Cardinality(S) \in Nat
<1> DEFINE k == [v \in S |-> v]
<1>1. TellsApart(k, S)
  BY DEF TellsApart
<1>2. Cardinality(S) \in Nat
  BY FS_CardinalityType
<1>3. \A v \in S : KeyBelow(S, k, v) = Before(S, v)
  BY DEF KeyBelow, Before
<1>4. \A v, w \in S : v < w <=> k[v] < k[w]
  OBVIOUS
<1> HIDE DEF k
<1>5. \A v \in S : Cardinality(Before(S, v)) \in 0 .. Cardinality(S) - 1
  BY <1>1, <1>3, RankGrows
<1>6. \A v, w \in S : v < w => Cardinality(Before(S, v)) < Cardinality(Before(S, w))
  BY <1>1, <1>3, <1>4, RankGrows
<1>7. \A i \in 1 .. Cardinality(S) : \E v \in S : Cardinality(Before(S, v)) = i - 1
  BY <1>1, <1>3, RanksAreTaken
<1>8. \A v, w \in S : Cardinality(Before(S, v)) = Cardinality(Before(S, w)) => v = w
  <2> TAKE v \in S, w \in S
  <2>1. Cardinality(Before(S, v)) \in Int /\ Cardinality(Before(S, w)) \in Int
    BY <1>2, <1>5
  <2>2. v \in Int /\ w \in Int
    OBVIOUS
  <2> QED
    BY <1>6, <2>1, <2>2
<1> QED
  BY <1>2, <1>5, <1>6, <1>7, <1>8

\* s has every number of S at its position.
IsListOf(s, S) ==
  /\ s = [i \in 1 .. Cardinality(S) |-> s[i]]
  /\ \A i \in 1 .. Cardinality(S) : s[i] \in S /\ Cardinality(Before(S, s[i])) = i - 1

\* The ascending list of a set has each value at its position.
LEMMA AscendingLists ==
  ASSUME NEW S \in SUBSET Int, IsFiniteSet(S)
  PROVE  IsListOf(Ascending(S), S)
<1> DEFINE s == Ascending(S)
           n == Cardinality(S)
           pick(i) == CHOOSE x \in S : Cardinality({y \in S : y < x}) = i - 1
<1>1. s = [i \in 1 .. n |-> pick(i)]
  BY Zenon DEF Ascending, Sorted
<1>2. \A i \in 1 .. n : pick(i) \in S /\ Cardinality(Before(S, pick(i))) = i - 1
  <2> TAKE i \in 1 .. n
  <2>1. \E x \in S : Cardinality(Before(S, x)) = i - 1
    BY PositionsOfNumbers
  <2>2. \E x \in S : Cardinality({y \in S : y < x}) = i - 1
    BY <2>1 DEF Before
  <2>3. pick(i) \in S /\ Cardinality({y \in S : y < pick(i)}) = i - 1
    BY <2>2, Zenon
  <2> QED
    BY <2>3 DEF Before
<1> HIDE DEF pick, s
<1>3. s = [i \in 1 .. n |-> s[i]] /\ \A i \in 1 .. n : s[i] = pick(i)
  BY <1>1
<1> QED
  BY <1>2, <1>3 DEF IsListOf, s

\* What such a list has, and that there is only one.
LEMMA ListsHave ==
  ASSUME NEW S \in SUBSET Int, IsFiniteSet(S), NEW s, IsListOf(s, S)
  PROVE  /\ s \in Seq(S) /\ Len(s) = Cardinality(S) /\ DOMAIN s = 1 .. Cardinality(S) /\ Len(s) \in Nat
         /\ \A i \in 1 .. Cardinality(S) : s[i] \in S /\ Cardinality(Before(S, s[i])) = i - 1
         /\ \A v \in S : Cardinality(Before(S, v)) + 1 \in 1 .. Cardinality(S) /\ s[Cardinality(Before(S, v)) + 1] = v
         /\ \A i, j \in 1 .. Cardinality(S) : i < j => s[i] < s[j]
         /\ s = Ascending(S)
<1> DEFINE n == Cardinality(S)
           t == Ascending(S)
<1>1. n \in Nat
  BY FS_CardinalityType
<1>2. s = [i \in 1 .. n |-> s[i]] /\ \A i \in 1 .. n : s[i] \in S /\ Cardinality(Before(S, s[i])) = i - 1
  BY DEF IsListOf
<1>3. t = [i \in 1 .. n |-> t[i]] /\ \A i \in 1 .. n : t[i] \in S /\ Cardinality(Before(S, t[i])) = i - 1
  BY AscendingLists DEF IsListOf
<1> HIDE DEF n, t
<1>4. s \in [1 .. n -> S] /\ DOMAIN s = 1 .. n
  BY <1>2
<1>5. s \in Seq(S) /\ Len(s) = n
  BY <1>1, <1>4, FunctionIsSequence
<1>6. \A i \in 1 .. n : s[i] = t[i]
  BY <1>2, <1>3, PositionsOfNumbers
<1>7. s = t
  BY <1>2, <1>3, <1>6
<1>8. \A v \in S : Cardinality(Before(S, v)) + 1 \in 1 .. n /\ s[Cardinality(Before(S, v)) + 1] = v
  <2> TAKE v \in S
  <2> DEFINE i == Cardinality(Before(S, v)) + 1
  <2>1. i \in 1 .. n /\ Cardinality(Before(S, v)) = i - 1
    BY <1>1, PositionsOfNumbers DEF n
  <2> HIDE DEF i
  <2>2. s[i] \in S /\ Cardinality(Before(S, s[i])) = Cardinality(Before(S, v))
    BY <1>2, <2>1
  <2>3. \A w \in S : Cardinality(Before(S, w)) = Cardinality(Before(S, v)) => w = v
    BY PositionsOfNumbers
  <2>4. s[i] = v
    BY <2>2, <2>3
  <2> QED
    BY <2>1, <2>4 DEF i
<1>9. \A i, j \in 1 .. n : i < j => s[i] < s[j]
  <2> TAKE i \in 1 .. n, j \in 1 .. n
  <2>1. s[i] \in S /\ s[j] \in S /\ Cardinality(Before(S, s[i])) = i - 1 /\ Cardinality(Before(S, s[j])) = j - 1
    BY <1>2
  <2>0. \A v, w \in S : v < w => Cardinality(Before(S, v)) < Cardinality(Before(S, w))
    BY PositionsOfNumbers
  <2>2. s[j] < s[i] => j - 1 < i - 1
    BY <2>0, <2>1
  <2>3. i \in Int /\ j \in Int /\ s[i] \in Int /\ s[j] \in Int
    <3>1. \A x \in S : x \in Int
      OBVIOUS
    <3>2. i \in Int /\ j \in Int
      BY <1>1
    <3> QED
      BY <2>1, <3>1, <3>2
  <2>4. s[i] = s[j] => i - 1 = j - 1
    BY <2>1
  <2> QED
    BY <2>2, <2>3, <2>4
<1> QED
  BY <1>1, <1>2, <1>4, <1>5, <1>7, <1>8, <1>9 DEF n, t

\* The list of no values.
LEMMA AscendingOfNone == Ascending({}) = <<>>
<1>1. IsListOf(Ascending({}), {})
  BY AscendingLists, FS_EmptySet
<1>2. Ascending({}) \in Seq({}) /\ Len(Ascending({})) = 0
  BY <1>1, ListsHave, FS_EmptySet
<1> QED
  BY <1>2

\* The numbers of a set that come before those of another one are listed before them.
LEMMA AscendingOfTwo ==
  ASSUME NEW A \in SUBSET Int, IsFiniteSet(A), NEW B \in SUBSET Int, IsFiniteSet(B), \A a \in A : \A b \in B : a < b
  PROVE  Ascending(A) \o Ascending(B) = Ascending(A \cup B)
<1> DEFINE S == A \cup B
           p == Ascending(A)
           q == Ascending(B)
           m == Cardinality(A)
           n == Cardinality(B)
           s == p \o q
<1>1. S \in SUBSET Int /\ IsFiniteSet(S) /\ A \cap B = {}
  <2>1. IsFiniteSet(S)
    BY FS_Union
  <2>2. \A a \in A : a \notin B
    <3> SUFFICES ASSUME NEW a \in A, a \in B PROVE FALSE
      OBVIOUS
    <3>1. a < a /\ a \in Int
      OBVIOUS
    <3> QED
      BY <3>1
  <2> QED
    BY <2>1, <2>2
<1>2. /\ p \in Seq(A) /\ Len(p) = m /\ m \in Nat
      /\ \A i \in 1 .. m : p[i] \in A /\ Cardinality(Before(A, p[i])) = i - 1
  BY AscendingLists, ListsHave
<1>3. /\ q \in Seq(B) /\ Len(q) = n /\ n \in Nat
      /\ \A i \in 1 .. n : q[i] \in B /\ Cardinality(Before(B, q[i])) = i - 1
  BY AscendingLists, ListsHave
<1>4. \A T \in SUBSET A : \A U \in SUBSET B : Cardinality(T \cup U) = Cardinality(T) + Cardinality(U)
  <2> SUFFICES ASSUME NEW T \in SUBSET A, NEW U \in SUBSET B PROVE Cardinality(T \cup U) = Cardinality(T) + Cardinality(U)
    OBVIOUS
  <2>1. IsFiniteSet(T) /\ IsFiniteSet(U)
    BY FS_Subset
  <2>2. T \cap U = {}
    BY <1>1
  <2>3. Cardinality(T \cup U) = Cardinality(T) + Cardinality(U) - Cardinality(T \cap U)
    BY <2>1, FS_Union
  <2>4. Cardinality(T \cap U) = 0 /\ Cardinality(T) \in Nat /\ Cardinality(U) \in Nat
    BY <2>1, <2>2, FS_EmptySet, FS_CardinalityType
  <2> QED
    BY <2>3, <2>4
<1> HIDE DEF p, q
<1>5. /\ s \in Seq(S) /\ Len(s) = m + n
      /\ \A i \in 1 .. m + n : s[i] = IF i <= m THEN p[i] ELSE q[i - m]
  <2>1. p \in Seq(S) /\ q \in Seq(S)
    BY <1>2, <1>3
  <2> HIDE DEF S, m, n
  <2> QED
    BY <1>2, <1>3, <2>1, ConcatProperties
<1>6. Cardinality(S) = m + n
  BY <1>4
<1> HIDE DEF s, m, n
<1>7. ASSUME NEW i \in 1 .. m + n PROVE s[i] \in S /\ Cardinality(Before(S, s[i])) = i - 1
  <2>1. CASE i <= m
    <3>1. i \in 1 .. m /\ s[i] = p[i] /\ p[i] \in A /\ Cardinality(Before(A, p[i])) = i - 1
      BY <1>2, <1>3, <1>5, <1>7, <2>1
    <3>2. Before(S, p[i]) = Before(A, p[i])
      <4>1. \A b \in B : ~(b < p[i])
        <5> SUFFICES ASSUME NEW b \in B, b < p[i] PROVE FALSE
          OBVIOUS
        <5>1. p[i] < b /\ b \in Int /\ p[i] \in Int
          BY <3>1
        <5> QED
          BY <5>1
      <4> QED
        BY <4>1 DEF Before
    <3> QED
      BY <3>1, <3>2
  <2>2. CASE ~(i <= m)
    <3> DEFINE j == i - m
    <3>1. j \in 1 .. n /\ s[i] = q[j] /\ i = m + j
      BY <1>2, <1>3, <1>5, <1>7, <2>2
    <3> HIDE DEF j
    <3>2. q[j] \in B /\ Cardinality(Before(B, q[j])) = j - 1
      BY <1>3, <3>1
    <3>3. Before(S, q[j]) = A \cup Before(B, q[j])
      BY <3>2 DEF Before
    <3>4. Before(B, q[j]) \in SUBSET B /\ A \in SUBSET A
      BY DEF Before
    <3>5. Cardinality(Before(S, q[j])) = m + (j - 1)
      BY <1>4, <3>2, <3>3, <3>4 DEF m
    <3>6. m + (j - 1) = i - 1
      BY <1>2, <1>3, <3>1
    <3> QED
      BY <3>1, <3>2, <3>5, <3>6
  <2> QED
    BY <2>1, <2>2
<1>8. s = [i \in 1 .. m + n |-> s[i]]
  BY <1>2, <1>3, <1>5
<1>9. IsListOf(s, S)
  BY <1>6, <1>7, <1>8 DEF IsListOf
<1>10. s = Ascending(S)
  <2> HIDE DEF S
  <2> QED
    BY <1>1, <1>9, ListsHave
<1> QED
  BY <1>10 DEF s, p, q

ChunkValues(bm, k) == {k * ChunkSize + v : v \in container_to_uint32_array(bm[k])}
ArrayFrom(bm, start, seq) ==
    LET chunk(k) == Ascending({k * ChunkSize + v : v \in container_to_uint32_array(bm[k])})
        extended(values, k) == values \o chunk(k)
    IN  Loop(extended, start, seq)
IsChaining(f, bm, start, seq) ==
    /\ f[0] = start
    /\ \A n \in 1 .. Len(seq) : f[n] = f[n - 1] \o Ascending(ChunkValues(bm, seq[n]))
    /\ ArrayFrom(bm, start, seq) = f[Len(seq)]

\* The same for the loop that puts the chunks behind each other.
LEMMA LoopOfChunks ==
  ASSUME NEW bm, NEW start, NEW seq, Len(seq) \in Nat
  PROVE  \E f : IsChaining(f, bm, start, seq)
<1> DEFINE Next(a, n) == a \o Ascending(ChunkValues(bm, seq[n]))
           Is(f, m) == f = [n \in 0 .. m |-> IF n = 0 THEN start ELSE Next(f[n - 1], n)]
           T == {m \in Nat : \E f : Is(f, m)}
<1>1. 0 \in T
  <2> HIDE DEF Next
  <2>1. Is([n \in 0 .. 0 |-> start], 0)
    OBVIOUS
  <2> QED
    BY <2>1
<1>2. ASSUME NEW m \in T PROVE m + 1 \in T
  <2> HIDE DEF Next
  <2>1. PICK f : Is(f, m)
    BY <1>2
  <2> DEFINE g == [n \in 0 .. m + 1 |-> IF n \in 0 .. m THEN f[n] ELSE Next(f[m], m + 1)]
  <2>2. \A n \in 0 .. m : f[n] = IF n = 0 THEN start ELSE Next(f[n - 1], n)
    BY <2>1
  <2>3. ASSUME NEW n \in 0 .. m + 1 PROVE g[n] = IF n = 0 THEN start ELSE Next(g[n - 1], n)
    <3>1. CASE n = 0
      BY <2>2, <3>1
    <3>2. CASE n \in 1 .. m
      BY <2>2, <3>2
    <3>3. CASE n = m + 1
      BY <3>3
    <3> QED
      BY <3>1, <3>2, <3>3
  <2>4. g = [n \in 0 .. m + 1 |-> g[n]]
    OBVIOUS
  <2>5. Is(g, m + 1)
    <3> HIDE DEF g
    <3> QED
      BY <2>3, <2>4
  <2>6. m + 1 \in Nat
    OBVIOUS
  <2> HIDE DEF Is, g
  <2> QED
    BY <2>5, <2>6
<1>3. T = Nat
  <2> HIDE DEF T
  <2>1. T \in SUBSET Nat
    BY DEF T
  <2> QED
    BY <1>1, <1>2, <2>1, NumbersByInduction
<1> DEFINE h == CHOOSE f : Is(f, Len(seq))
<1>4. Is(h, Len(seq))
  <2>1. \E f : Is(f, Len(seq))
    BY <1>3
  <2> HIDE DEF Is
  <2> QED
    BY <2>1
<1>5. ArrayFrom(bm, start, seq) = h[Len(seq)]
  BY Zenon DEF ArrayFrom, ChunkValues, Loop
<1>6. h[0] = start /\ \A n \in 1 .. Len(seq) : h[n] = Next(h[n - 1], n)
  <2> HIDE DEF h, Next
  <2> QED
    BY <1>4
<1> HIDE DEF h
<1> QED
  BY <1>5, <1>6 DEF IsChaining

\* The array of a bitmap has the values in ascending order.
\* roaring_bitmap_to_uint32_array writes all values in ascending order, container by container.
THEOREM ArrayIsAscending ==
  ASSUME NEW bm, NEW V, Represents(bm, V)
  PROVE  roaring_bitmap_to_uint32_array(bm) = Ascending(V)
<1> DEFINE K == DOMAIN bm
           keys == Ascending(K)
           m == Cardinality(K)
           U(n) == {v \in V : Cardinality(Before(K, high(v))) < n}
<1>1. /\ V \in SUBSET Value
      /\ \A j \in K : j \in Key /\ Sound(bm[j], Chunk(V, j)) /\ Chunk(V, j) # {}
      /\ \A j \in Key : j \notin K => Chunk(V, j) = {}
  BY BitmapHas
<1>2. K \in SUBSET Key /\ K \in SUBSET Int /\ IsFiniteSet(K)
  BY <1>1, KeysAreFinite, KeyConstants
<1>3. /\ Len(keys) = m /\ m \in Nat
      /\ \A i \in 1 .. m : keys[i] \in K /\ Cardinality(Before(K, keys[i])) = i - 1
  BY <1>2, AscendingLists, ListsHave
<1>4. roaring_bitmap_to_uint32_array(bm) = ArrayFrom(bm, <<>>, keys)
  BY Zenon DEF roaring_bitmap_to_uint32_array, ArrayFrom
<1> HIDE DEF keys
<1>a. Len(keys) \in Nat
  BY <1>3
<1>b. PICK f : IsChaining(f, bm, <<>>, keys)
  BY ONLY <1>a, LoopOfChunks, Zenon
<1>5. /\ f[0] = <<>>
      /\ \A n \in 1 .. m : f[n] = f[n - 1] \o Ascending(ChunkValues(bm, keys[n]))
      /\ ArrayFrom(bm, <<>>, keys) = f[m]
  BY <1>3, <1>b DEF IsChaining
<1>6. \A v \in V : v \in Int /\ high(v) \in K /\ Cardinality(Before(K, high(v))) \in 0 .. m - 1
  <2> TAKE v \in V
  <2>1. high(v) \in K /\ v \in Int
    BY <1>1, ChunkHas, Halves
  <2> QED
    BY <1>2, <2>1, PositionsOfNumbers
<1>7. \A k \in K : ChunkValues(bm, k) = {v \in V : high(v) = k}
  <2> TAKE k \in K
  <2>1. container_to_uint32_array(bm[k]) = Chunk(V, k)
    BY <1>1, SoundIsLazy, LazyHasValues
  <2>2. \A x \in Chunk(V, k) : k * ChunkSize + x \in V /\ high(k * ChunkSize + x) = k
    BY <1>1, Whole DEF Chunk
  <2>3. \A v \in V : high(v) = k => low(v) \in Chunk(V, k) /\ v = k * ChunkSize + low(v)
    BY <1>1, ChunkHas, Halves
  <2> QED
    BY <2>1, <2>2, <2>3 DEF ChunkValues
<1>8. \A n : U(n) \in SUBSET Int /\ IsFiniteSet(U(n))
  <2> TAKE n
  <2>1. U(n) \in SUBSET Value
    BY <1>1
  <2>2. U(n) \in SUBSET Int
    BY <1>6
  <2> QED
    BY <2>1, <2>2, ValuesAreFinite
<1>9. U(0) = {} /\ U(m) = V
  BY <1>3, <1>6
<1>10. \A n \in 1 .. m : /\ U(n) = U(n - 1) \cup {v \in V : high(v) = keys[n]}
                         /\ \A a \in U(n - 1) : \A b \in {v \in V : high(v) = keys[n]} : a < b
  <2> TAKE n \in 1 .. m
  <2>1. keys[n] \in K /\ Cardinality(Before(K, keys[n])) = n - 1 /\ n \in Int
    BY <1>3
  <2>2. \A v \in V : Cardinality(Before(K, high(v))) < n <=> Cardinality(Before(K, high(v))) < n - 1 \/ Cardinality(Before(K, high(v))) = n - 1
    BY <1>3, <1>6, <2>1
  <2>3. \A v \in V : Cardinality(Before(K, high(v))) = n - 1 <=> high(v) = keys[n]
    BY <1>2, <1>6, <2>1, PositionsOfNumbers
  <2>4. \A a \in V : Cardinality(Before(K, high(a))) < n - 1 => high(a) < keys[n]
    <3> SUFFICES ASSUME NEW a \in V, Cardinality(Before(K, high(a))) < n - 1 PROVE high(a) < keys[n]
      OBVIOUS
    <3>1. high(a) \in K /\ high(a) \in Int /\ keys[n] \in Int /\ Cardinality(Before(K, high(a))) \in Int
      BY <1>2, <1>3, <1>6, <2>1
    <3>2. keys[n] < high(a) => n - 1 < Cardinality(Before(K, high(a)))
      BY <1>2, <2>1, <3>1, PositionsOfNumbers
    <3>3. keys[n] # high(a)
      BY <2>1, <3>1
    <3> QED
      BY <2>1, <3>1, <3>2, <3>3
  <2>5. \A a, b \in V : high(a) < high(b) => a < b
    BY <1>1, OrderOfValues
  <2> QED
    BY <2>2, <2>3, <2>4, <2>5
<1> DEFINE T == {n \in 0 .. m : f[n] = Ascending(U(n))}
<1> HIDE DEF U
<1>11. \A n \in Nat : n \in 0 .. m => f[n] = Ascending(U(n))
  <2> DEFINE G == {n \in Nat : n \in 0 .. m => f[n] = Ascending(U(n))}
  <2>1. 0 \in G
    BY <1>5, <1>9, AscendingOfNone
  <2>2. ASSUME NEW n \in G PROVE n + 1 \in G
    <3>1. n \in Nat /\ n + 1 \in Nat
      OBVIOUS
    <3>2. ASSUME n + 1 \in 0 .. m PROVE f[n + 1] = Ascending(U(n + 1))
      <4>1. n + 1 \in 1 .. m /\ n \in 0 .. m /\ (n + 1) - 1 = n
        BY <1>3, <3>1, <3>2
      <4>2. f[n] = Ascending(U(n))
        BY <4>1
      <4> DEFINE l == n + 1
                 B == {v \in V : high(v) = keys[l]}
      <4>3. l \in 1 .. m /\ l - 1 = n
        BY <4>1
      <4> HIDE DEF l
      <4>4. f[l] = f[n] \o Ascending(ChunkValues(bm, keys[l]))
        BY <1>5, <4>3
      <4>5. ChunkValues(bm, keys[l]) = B
        BY <1>3, <1>7, <4>3
      <4>6. U(l) = U(n) \cup B /\ \A a \in U(n) : \A b \in B : a < b
        BY <1>10, <4>3
      <4>7. B \in SUBSET Value /\ B \in SUBSET Int
        BY <1>1, <1>6
      <4> HIDE DEF B
      <4>8. IsFiniteSet(B)
        BY <4>7, ValuesAreFinite
      <4>9. Ascending(U(n)) \o Ascending(B) = Ascending(U(n) \cup B)
        BY <1>8, <4>6, <4>7, <4>8, AscendingOfTwo
      <4> QED
        BY <4>2, <4>4, <4>5, <4>6, <4>9 DEF l
    <3> QED
      BY <3>1, <3>2
  <2>3. G \in SUBSET Nat
    OBVIOUS
  <2> HIDE DEF G
  <2>4. G = Nat
    BY <2>1, <2>2, <2>3, NumbersByInduction
  <2> QED
    BY <2>4 DEF G
<1>12. f[m] = Ascending(U(m))
  BY <1>3, <1>11
<1> QED
  BY <1>4, <1>5, <1>9, <1>12

-----------------------------------------------------------------------------
(* Statistics. *)

\* Three sets that share nothing have as many values as their union.
LEMMA CountOfThree ==
  ASSUME NEW S, IsFiniteSet(S), NEW A, NEW B, NEW C, S = A \cup B \cup C,
         A \cap B = {}, A \cap C = {}, B \cap C = {}
  PROVE  Cardinality(S) = Cardinality(A) + Cardinality(B) + Cardinality(C)
<1>1. IsFiniteSet(A) /\ IsFiniteSet(B) /\ IsFiniteSet(C) /\ IsFiniteSet(A \cup B)
  <2>1. A \in SUBSET S /\ B \in SUBSET S /\ C \in SUBSET S /\ A \cup B \in SUBSET S
    OBVIOUS
  <2> QED
    BY <2>1, FS_Subset
<1>2. /\ Cardinality(A) \in Nat /\ Cardinality(B) \in Nat /\ Cardinality(C) \in Nat
      /\ Cardinality(A \cup B) \in Nat
  BY <1>1, FS_CardinalityType
<1>3. Cardinality(A \cup B) = Cardinality(A) + Cardinality(B) - Cardinality(A \cap B)
  BY <1>1, FS_Union
<1>4. Cardinality((A \cup B) \cup C) = Cardinality(A \cup B) + Cardinality(C) - Cardinality((A \cup B) \cap C)
  BY <1>1, FS_Union
<1>5. A \cap B = {} /\ (A \cup B) \cap C = {} /\ Cardinality({}) = 0
  BY FS_EmptySet
<1> DEFINE a == Cardinality(A)
           b == Cardinality(B)
           c == Cardinality(C)
           ab == Cardinality(A \cup B)
<1>6. Cardinality(S) = ab + c - 0 /\ ab = a + b - 0 /\ a \in Nat /\ b \in Nat /\ c \in Nat /\ ab \in Nat
  BY <1>2, <1>3, <1>4, <1>5
<1> HIDE DEF a, b, c, ab
<1>7. Cardinality(S) = a + b + c
  BY <1>6
<1> QED
  BY <1>7 DEF a, b, c

\* The least and the greatest value, and what stands for them when there are no values.
LEMMA LeastAndGreatest ==
  ASSUME NEW bm, NEW V, Represents(bm, V)
  PROVE  /\ roaring_bitmap_minimum(bm) = Min(V \cup {UINT32_MAX})
         /\ roaring_bitmap_maximum(bm) = Max(V \cup {0})
<1> DEFINE r == roaring_bitmap_minimum(bm)
           s == roaring_bitmap_maximum(bm)
           S == V \cup {UINT32_MAX}
           T == V \cup {0}
<1>1. V \in SUBSET Value
  BY BitmapHas
<1>2. UINT32_MAX \in Int /\ 0 <= UINT32_MAX /\ \A v \in V : v \in Int /\ 0 <= v /\ v <= UINT32_MAX
  BY <1>1, ValuesAreNumbers, ContainerConstants, KeyConstants DEF UINT32_MAX
<1>3. /\ r \in S /\ \A v \in S : r <= v
      /\ s \in T /\ \A v \in T : v <= s
  <2>1. CASE V = {}
    <3>1. r = UINT32_MAX /\ s = 0
      BY <2>1, EndsOfNone
    <3> QED
      BY <1>2, <2>1, <3>1
  <2>2. CASE V # {}
    <3>1. /\ r \in V /\ \A v \in V : r <= v
          /\ s \in V /\ \A v \in V : v <= s
      BY <2>2, EndsOfBitmap
    <3> QED
      BY <1>2, <3>1
  <2> QED
    BY <2>1, <2>2
<1>4. S \in SUBSET Int /\ S # {} /\ \A v \in S : 0 <= v
  BY <1>2
<1>5. T \in SUBSET Int /\ T # {} /\ \A v \in T : v <= UINT32_MAX
  BY <1>2
<1> HIDE DEF r, s, S, T
<1>6. Min(S) \in S /\ \A v \in S : Min(S) <= v
  BY <1>4, MinOfSome
<1>7. Max(T) \in T /\ \A v \in T : v <= Max(T)
  BY <1>2, <1>5, MaxOfSome
<1>8. r = Min(S)
  <2>1. r <= Min(S) /\ Min(S) <= r /\ r \in Int /\ Min(S) \in Int
    BY <1>3, <1>4, <1>6
  <2> QED
    BY <2>1
<1>9. s = Max(T)
  <2>1. s <= Max(T) /\ Max(T) <= s /\ s \in Int /\ Max(T) \in Int
    BY <1>3, <1>5, <1>7
  <2> QED
    BY <2>1
<1> QED
  BY <1>8, <1>9 DEF r, s, S, T

\* The statistics add up: containers and values by type, the ends and the cardinality.
THEOREM StatisticsAddUp ==
  ASSUME NEW bm, NEW V, Represents(bm, V)
  PROVE  LET stats == roaring_bitmap_statistics(bm)
         IN  /\ stats.n_of["array"] + stats.n_of["bitset"] + stats.n_of["run"] = stats.n_containers
             /\ stats.n_values["array"] + stats.n_values["bitset"] + stats.n_values["run"] = Cardinality(V)
             /\ stats.cardinality = Cardinality(V)
             /\ stats.min_value = Min(V \cup {UINT32_MAX})
             /\ stats.max_value = Max(V \cup {0})
<1> DEFINE D == DOMAIN bm
           of(type) == {k \in D : bm[k].type = type}
           f(type) == [k \in of(type) |-> container_get_cardinality(bm[k])]
           W(type) == {v \in V : high(v) \in of(type)}
           Types == {"array", "bitset", "run"}
           stats == roaring_bitmap_statistics(bm)
<1>1. /\ V \in SUBSET Value
      /\ \A j \in D : j \in Key /\ Sound(bm[j], Chunk(V, j)) /\ Exact(bm[j], Chunk(V, j)) /\ Chunk(V, j) # {}
      /\ \A j \in Key : j \notin D => Chunk(V, j) = {}
  BY BitmapHas, SoundIsLazy
<1>2. \A k \in D : bm[k].type \in Types
  <2> TAKE k \in D
  <2>1. Exact(bm[k], Chunk(V, k))
    BY <1>1
  <2> QED
    BY <2>1, CountedKinds
<1>3. /\ stats.n_containers = Cardinality(D)
      /\ stats.cardinality = roaring_bitmap_get_cardinality(bm)
      /\ stats.min_value = roaring_bitmap_minimum(bm)
      /\ stats.max_value = roaring_bitmap_maximum(bm)
      /\ \A t \in Types : stats.n_of[t] = Cardinality(of(t)) /\ stats.n_values[t] = SumFunction(f(t))
  BY DEF roaring_bitmap_statistics
<1>4. /\ D = of("array") \cup of("bitset") \cup of("run")
      /\ of("array") \cap of("bitset") = {} /\ of("array") \cap of("run") = {} /\ of("bitset") \cap of("run") = {}
  BY <1>2
<1>5. /\ V = W("array") \cup W("bitset") \cup W("run")
      /\ W("array") \cap W("bitset") = {} /\ W("array") \cap W("run") = {} /\ W("bitset") \cap W("run") = {}
  <2>1. \A v \in V : high(v) \in D
    BY KeysOfChunks
  <2> QED
    BY <1>4, <2>1
<1>6. \A t : SumFunction(f(t)) = Cardinality(W(t))
  <2> TAKE t
  <2> DEFINE g == f(t)
             X == W(t)
             K == of(t)
  <2>1. X \in SUBSET V /\ X \in SUBSET Value /\ K \in SUBSET Key
    BY <1>1
  <2>2. \A k \in K : Chunk(X, k) = Chunk(V, k)
    <3> TAKE k \in K
    <3>1. k \in Key /\ \A v \in V : high(v) = k => v \in X
      BY <2>1
    <3> HIDE DEF X, K
    <3> QED
      BY <1>1, <2>1, <3>1, ChunkOfPartOf
  <2>3. \A k \in Key : k \notin K => Chunk(X, k) = {}
    <3> TAKE k \in Key
    <3> SUFFICES ASSUME k \notin K PROVE Chunk(X, k) = {}
      OBVIOUS
    <3>1. \A v \in X : high(v) # k
      OBVIOUS
    <3> HIDE DEF X, K
    <3> QED
      BY <1>1, <2>1, <3>1, ChunkOfPartOf
  <2>4. DOMAIN g = K
    OBVIOUS
  <2>5. \A k \in K : g[k] = Cardinality(Chunk(X, k))
    <3> TAKE k \in K
    <3>1. k \in D /\ g[k] = container_get_cardinality(bm[k])
      OBVIOUS
    <3> HIDE DEF g, X, K
    <3> QED
      BY <1>1, <2>2, <3>1, SoundCount
  <2> HIDE DEF g, X, K
  <2>6. SumFunction(g) = Cardinality(X)
    BY <2>1, <2>3, <2>4, <2>5, SumOverChunks
  <2> QED
    BY <2>6 DEF g, X
<1>7. IsFiniteSet(D) /\ IsFiniteSet(V)
  BY <1>1, KeysAreFinite, ValuesAreFinite
<1> HIDE DEF of, W, f, stats
<1>8. Cardinality(D) = Cardinality(of("array")) + Cardinality(of("bitset")) + Cardinality(of("run"))
  BY ONLY <1>4, <1>7, CountOfThree
<1>9. Cardinality(V) = Cardinality(W("array")) + Cardinality(W("bitset")) + Cardinality(W("run"))
  BY ONLY <1>5, <1>7, CountOfThree
<1>10. "array" \in Types /\ "bitset" \in Types /\ "run" \in Types
  OBVIOUS
<1> HIDE DEF Types
<1>11. stats.n_of["array"] + stats.n_of["bitset"] + stats.n_of["run"] = stats.n_containers
  BY <1>3, <1>8, <1>10
<1>12. stats.n_values["array"] + stats.n_values["bitset"] + stats.n_values["run"] = Cardinality(V)
  BY <1>3, <1>6, <1>9, <1>10
<1> QED
  BY <1>3, <1>11, <1>12, CardinalityIsRight, LeastAndGreatest DEF stats

-----------------------------------------------------------------------------
(* Sums along a list.                                                       *)

\* The pairs of an element and one of so many numbers.
Copies(x, n) == {<<x, j>> : j \in 1 .. n}
CopiesOf(e, K) == UNION {Copies(k, e[k]) : k \in K}

\* There are as many as the number says.
LEMMA CountOfCopies ==
  ASSUME NEW x, NEW n \in Nat
  PROVE  IsFiniteSet(Copies(x, n)) /\ Cardinality(Copies(x, n)) = n
<1> DEFINE C == Copies(x, n)
           f == [j \in 1 .. n |-> <<x, j>>]
<1>1. f \in Surjection(1 .. n, C)
  BY DEF Surjection, Copies
<1>2. f \in Injection(1 .. n, C)
  BY DEF Injection, IsInjective, Copies
<1>3. IsFiniteSet(1 .. n) /\ Cardinality(1 .. n) = n
  BY FS_Interval
<1> HIDE DEF f, C
<1> QED
  BY <1>1, <1>2, <1>3, FS_Surjection DEF C

\* A sum is the number of the copies of what is summed up.
LEMMA SumIsCopies ==
  ASSUME NEW e, NEW K, IsFiniteSet(K), \A k \in K : e[k] \in Nat
  PROVE  IsFiniteSet(CopiesOf(e, K)) /\ SumFunction([k \in K |-> e[k]]) = Cardinality(CopiesOf(e, K))
<1> DEFINE f == [k \in K |-> e[k]]
           P == [k \in K |-> Copies(k, e[k])]
<1>1. DOMAIN f = K /\ \A k \in K : f[k] = e[k] /\ P[k] = Copies(k, e[k])
  OBVIOUS
<1>2. \A k \in K : IsFiniteSet(P[k]) /\ Cardinality(P[k]) = f[k]
  BY <1>1, CountOfCopies
<1>3. \A j, k : j # k => Copies(j, e[j]) \cap Copies(k, e[k]) = {}
  BY DEF Copies
<1>4. \A v : v \in CopiesOf(e, K) <=> \E k \in K : v \in P[k]
  BY DEF CopiesOf
<1> HIDE DEF f, P
<1>5. SizesOf(f, P)
  BY <1>1, <1>2, <1>3 DEF SizesOf
<1>6. IsFiniteSet(CopiesOf(e, K)) /\ SumFunction(f) = Cardinality(CopiesOf(e, K))
  BY <1>1, <1>4, <1>5, SumIsCount
<1> QED
  BY <1>6 DEF f

\* The sum of those of the first n that are in I.
PartSum(e, I, n) == SumFunction([i \in I \cap 1 .. n |-> e[i]])

\* The sum of more of them has one summand more, or the same.
GrowsBySummands(e, I, N) ==
  /\ PartSum(e, I, 0) = 0
  /\ \A n \in 0 .. N : PartSum(e, I, n) \in Nat
  /\ \A n \in 1 .. N : PartSum(e, I, n) = PartSum(e, I, n - 1) + (IF n \in I THEN e[n] ELSE 0)

\* Sums of numbers are like that.
LEMMA SumsGrow ==
  ASSUME NEW N \in Nat, NEW I \in SUBSET (1 .. N), NEW e, \A i \in I : e[i] \in Nat
  PROVE  GrowsBySummands(e, I, N)
<1> DEFINE C(n) == CopiesOf(e, I \cap 1 .. n)
<1>1. ASSUME NEW n \in 0 .. N PROVE IsFiniteSet(C(n)) /\ PartSum(e, I, n) = Cardinality(C(n)) /\ Cardinality(C(n)) \in Nat
  <2> DEFINE K == I \cap 1 .. n
  <2>1. IsFiniteSet(K) /\ \A k \in K : e[k] \in Nat
    <3>1. IsFiniteSet(1 .. n) /\ K \in SUBSET (1 .. n)
      BY FS_Interval
    <3> QED
      BY <3>1, FS_Subset
  <2> HIDE DEF K
  <2>2. IsFiniteSet(CopiesOf(e, K)) /\ SumFunction([k \in K |-> e[k]]) = Cardinality(CopiesOf(e, K))
    BY <2>1, SumIsCopies
  <2>3. Cardinality(CopiesOf(e, K)) \in Nat
    BY <2>2, FS_CardinalityType
  <2> QED
    BY <2>2, <2>3 DEF K, PartSum
<1>2. PartSum(e, I, 0) = 0
  <2>1. C(0) = {}
    BY DEF CopiesOf
  <2>2. 0 \in 0 .. N
    OBVIOUS
  <2> HIDE DEF C
  <2> QED
    BY <1>1, <2>1, <2>2, FS_EmptySet
<1>3. ASSUME NEW n \in 1 .. N PROVE PartSum(e, I, n) = PartSum(e, I, n - 1) + (IF n \in I THEN e[n] ELSE 0)
  <2>1. n - 1 \in 0 .. N /\ n \in 0 .. N
    OBVIOUS
  <2>2. CASE n \notin I
    <3>1. I \cap 1 .. n = I \cap 1 .. n - 1
      BY <2>2
    <3>2. C(n) = C(n - 1)
      BY <3>1
    <3> HIDE DEF C
    <3> QED
      BY <1>1, <2>1, <2>2, <3>2
  <2>3. CASE n \in I
    <3>1. I \cap 1 .. n = (I \cap 1 .. n - 1) \cup {n} /\ n \notin I \cap 1 .. n - 1
      BY <2>3
    <3>2. C(n) = C(n - 1) \cup Copies(n, e[n]) /\ C(n - 1) \cap Copies(n, e[n]) = {}
      BY <3>1 DEF CopiesOf, Copies
    <3>3. IsFiniteSet(Copies(n, e[n])) /\ Cardinality(Copies(n, e[n])) = e[n] /\ e[n] \in Nat
      BY <2>3, CountOfCopies
    <3> DEFINE A == C(n)
               B == C(n - 1)
               D == Copies(n, e[n])
    <3>4. A = B \cup D /\ B \cap D = {} /\ IsFiniteSet(B) /\ IsFiniteSet(D) /\ Cardinality(D) = e[n]
          /\ PartSum(e, I, n) = Cardinality(A) /\ PartSum(e, I, n - 1) = Cardinality(B) /\ Cardinality(B) \in Nat
      BY <1>1, <2>1, <3>2, <3>3
    <3> HIDE DEF A, B, C, D
    <3>5. Cardinality(A) = Cardinality(B) + Cardinality(D) - Cardinality(B \cap D)
      BY <3>4, FS_Union
    <3> QED
      <4>1. Cardinality(B \cap D) = 0
        BY <3>4, FS_EmptySet
      <4>2. PartSum(e, I, n) = PartSum(e, I, n - 1) + e[n]
        BY <3>3, <3>4, <3>5, <4>1
      <4> QED
        BY <2>3, <4>2
  <2> QED
    BY <2>2, <2>3
<1> HIDE DEF C
<1> QED
  BY <1>1, <1>2, <1>3 DEF GrowsBySummands

\* Sums of some keys of a set are sums along its list.
LEMMA SumInOrder ==
  ASSUME NEW S \in SUBSET Int, IsFiniteSet(S), NEW s, IsListOf(s, S), NEW K \in SUBSET S, NEW e, \A k \in K : e[k] \in Nat,
         NEW N, N = Cardinality(S), NEW g, NEW I, I = {i \in 1 .. N : s[i] \in K}, \A i \in I : g[i] = e[s[i]]
  PROVE  SumFunction([k \in K |-> e[k]]) = PartSum(g, I, N)
<1>1. /\ N \in Nat /\ \A i \in 1 .. N : s[i] \in S
      /\ \A v \in S : \E i \in 1 .. N : s[i] = v
      /\ \A i, j \in 1 .. N : i < j => s[i] < s[j]
  <2>1. /\ Len(s) = Cardinality(S) /\ Len(s) \in Nat
        /\ \A i \in 1 .. Cardinality(S) : s[i] \in S
        /\ \A v \in S : Cardinality(Before(S, v)) + 1 \in 1 .. Cardinality(S) /\ s[Cardinality(Before(S, v)) + 1] = v
        /\ \A i, j \in 1 .. Cardinality(S) : i < j => s[i] < s[j]
    BY ListsHave
  <2> QED
    BY <2>1, Zenon
<1>2. \A i, j \in 1 .. N : i # j => s[i] # s[j]
  <2> TAKE i, j \in 1 .. N
  <2>1. i # j => i < j \/ j < i
    BY <1>1
  <2>2. s[i] \in Int /\ s[j] \in Int
    BY <1>1
  <2> QED
    BY <1>1, <2>1, <2>2
<1>3. IsFiniteSet(K)
  BY FS_Subset
<1> DEFINE f == [i \in I |-> g[i]]
           P == [i \in I |-> Copies(s[i], e[s[i]])]
<1>4. DOMAIN f = I /\ \A i \in I : f[i] = e[s[i]] /\ P[i] = Copies(s[i], e[s[i]]) /\ s[i] \in K /\ i \in 1 .. N
  OBVIOUS
<1>5. \A i \in I : IsFiniteSet(P[i]) /\ Cardinality(P[i]) = f[i]
  BY <1>4, CountOfCopies
<1>6. \A i, j \in I : i # j => P[i] \cap P[j] = {}
  <2> TAKE i, j \in I
  <2>1. i # j => s[i] # s[j]
    BY <1>2, <1>4
  <2> QED
    BY <1>4, <2>1 DEF Copies
<1>7. \A v : v \in CopiesOf(e, K) <=> \E i \in I : v \in P[i]
  <2> TAKE v
  <2>1. ASSUME NEW k \in K, v \in Copies(k, e[k]) PROVE \E i \in I : v \in P[i]
    <3>1. PICK i \in 1 .. N : s[i] = k
      BY <1>1
    <3>2. i \in I
      BY <3>1
    <3> QED
      BY <1>4, <2>1, <3>1, <3>2
  <2>2. ASSUME NEW i \in I, v \in P[i] PROVE \E k \in K : v \in Copies(k, e[k])
    BY <1>4, <2>2
  <2> QED
    BY <2>1, <2>2 DEF CopiesOf
<1>8. IsFiniteSet(I)
  <2>1. IsFiniteSet(1 .. N) /\ I \in SUBSET (1 .. N)
    BY <1>1, FS_Interval
  <2> QED
    BY <2>1, FS_Subset
<1>9. I \cap 1 .. N = I
  OBVIOUS
<1> HIDE DEF f, P
<1>10. SizesOf(f, P)
  BY <1>4, <1>5, <1>6, <1>8 DEF SizesOf
<1>11. SumFunction(f) = Cardinality(CopiesOf(e, K))
  <2>1. \A v : v \in CopiesOf(e, K) <=> \E i \in DOMAIN f : v \in P[i]
    BY <1>4, <1>7
  <2> QED
    BY <1>10, <2>1, SumIsCount
<1>12. SumFunction([k \in K |-> e[k]]) = Cardinality(CopiesOf(e, K))
  BY <1>3, SumIsCopies
<1>13. PartSum(g, I, N) = SumFunction(f)
  BY <1>9 DEF PartSum, f
<1> QED
  BY <1>11, <1>12, <1>13

-----------------------------------------------------------------------------
(* The containers of a bitmap in the order of their keys.                   *)

\* What is known of the lists of keys and containers of a bitmap.
LEMMA ContainersInOrder ==
  ASSUME NEW bm, NEW V, Represents(bm, V), NEW N, N = Cardinality(DOMAIN bm)
  PROVE  /\ N \in Nat /\ DOMAIN bm \in SUBSET Int /\ IsFiniteSet(DOMAIN bm) /\ IsListOf(SortedKeys(bm), DOMAIN bm)
         /\ SortedKeys(bm) \in Seq(Int) /\ Len(SortedKeys(bm)) = N /\ DOMAIN SortedKeys(bm) = 1 .. N
         /\ Containers(bm) = [i \in 1 .. N |-> bm[SortedKeys(bm)[i]]] /\ Len(Containers(bm)) = N
         /\ \A i \in 1 .. N : /\ SortedKeys(bm)[i] \in DOMAIN bm
                              /\ Containers(bm)[i] = bm[SortedKeys(bm)[i]]
                              /\ Sound(Containers(bm)[i], Chunk(V, SortedKeys(bm)[i]))
                              /\ Chunk(V, SortedKeys(bm)[i]) # {}
         /\ \A k \in DOMAIN bm : \E i \in 1 .. N : SortedKeys(bm)[i] = k
         /\ \A i, j \in 1 .. N : SortedKeys(bm)[i] = SortedKeys(bm)[j] => i = j
<1> DEFINE K == DOMAIN bm
           keys == SortedKeys(bm)
           cs == Containers(bm)
<1>1. \A k \in K : k \in Key /\ Sound(bm[k], Chunk(V, k)) /\ Chunk(V, k) # {}
  BY BitmapHas
<1>2. K \in SUBSET Key /\ K \in SUBSET Int
  BY <1>1, KeyConstants
<1>3. IsFiniteSet(K)
  BY <1>2, KeysAreFinite
<1> HIDE DEF K
<1>4. IsListOf(Ascending(K), K)
  BY <1>2, <1>3, AscendingLists
<1>5. keys = Ascending(K)
  BY DEF SortedKeys, K
<1> HIDE DEF keys
<1>6. /\ keys \in Seq(K) /\ Len(keys) = Cardinality(K) /\ DOMAIN keys = 1 .. Cardinality(K) /\ Len(keys) \in Nat
      /\ \A i \in 1 .. Cardinality(K) : keys[i] \in K
      /\ \A v \in K : Cardinality(Before(K, v)) + 1 \in 1 .. Cardinality(K) /\ keys[Cardinality(Before(K, v)) + 1] = v
      /\ \A i, j \in 1 .. Cardinality(K) : i < j => keys[i] < keys[j]
  BY <1>2, <1>3, <1>4, <1>5, ListsHave
<1>7. N = Cardinality(K)
  BY DEF K
<1>8. keys \in Seq(Int)
  BY <1>2, <1>6, SeqMonotonic
<1>9. cs = [i \in 1 .. N |-> bm[keys[i]]]
  BY <1>7 DEF Containers, K, keys
<1> HIDE DEF cs
<1>10. Len(cs) = N
  BY <1>6, <1>7, <1>9
<1>11. \A i \in 1 .. N : keys[i] \in K /\ cs[i] = bm[keys[i]] /\ Sound(cs[i], Chunk(V, keys[i])) /\ Chunk(V, keys[i]) # {}
  BY <1>1, <1>6, <1>7, <1>9
<1>12. \A k \in K : \E i \in 1 .. N : keys[i] = k
  BY <1>6, <1>7, Zenon
<1>13. \A i, j \in 1 .. N : keys[i] = keys[j] => i = j
  <2> TAKE i, j \in 1 .. N
  <2>1. i < j \/ j < i \/ i = j
    BY <1>6, <1>7
  <2>2. keys[i] \in Int /\ keys[j] \in Int
    BY <1>2, <1>6, <1>7
  <2>3. /\ i < j => keys[i] < keys[j]
        /\ j < i => keys[j] < keys[i]
    BY <1>6, <1>7
  <2> QED
    BY <2>1, <2>2, <2>3
<1>14. N \in Nat /\ Len(keys) = N /\ DOMAIN keys = 1 .. N /\ IsListOf(keys, K)
  BY <1>4, <1>5, <1>6, <1>7
<1> QED
  BY <1>2, <1>3, <1>8, <1>9, <1>10, <1>11, <1>12, <1>13, <1>14 DEF K, keys, cs

\* Whoever has read the containers one by one, and the keys, has the bitmap.
LEMMA BitmapFromContainers ==
  ASSUME NEW bm, NEW V, Represents(bm, V), NEW g, \A i \in 1 .. Cardinality(DOMAIN bm) : g[i] = Containers(bm)[i]
  PROVE  FromContainers(SortedKeys(bm), g) = bm
<1> DEFINE N == Cardinality(DOMAIN bm)
           keys == SortedKeys(bm)
<1>1. /\ keys \in Seq(Int) /\ Len(keys) = N /\ DOMAIN keys = 1 .. N
      /\ \A i \in 1 .. N : keys[i] \in DOMAIN bm /\ Containers(bm)[i] = bm[keys[i]]
      /\ \A k \in DOMAIN bm : \E i \in 1 .. N : keys[i] = k
      /\ \A i, j \in 1 .. N : keys[i] = keys[j] => i = j
  BY ContainersInOrder
<1>2. bm = [k \in DOMAIN bm |-> bm[k]]
  BY BitmapHas
<1> HIDE DEF keys
<1>3. ToSet(keys) = DOMAIN bm
  <2>1. ToSet(keys) = {keys[i] : i \in 1 .. N}
    BY <1>1 DEF ToSet
  <2>2. \A k : k \in {keys[i] : i \in 1 .. N} <=> k \in DOMAIN bm
    BY <1>1, Zenon
  <2> QED
    BY <2>1, <2>2
<1>4. ASSUME NEW k \in DOMAIN bm PROVE g[CHOOSE i \in DOMAIN keys : keys[i] = k] = bm[k]
  <2> DEFINE j == CHOOSE i \in DOMAIN keys : keys[i] = k
  <2>1. j \in DOMAIN keys /\ keys[j] = k
    BY <1>1
  <2> HIDE DEF j
  <2>2. g[j] = bm[k]
    BY <1>1, <2>1
  <2> QED
    BY <2>2 DEF j
<1>5. FromContainers(keys, g) = [k \in DOMAIN bm |-> g[CHOOSE i \in DOMAIN keys : keys[i] = k]]
  BY <1>3 DEF FromContainers
<1>6. [k \in DOMAIN bm |-> g[CHOOSE i \in DOMAIN keys : keys[i] = k]] = [k \in DOMAIN bm |-> bm[k]]
  BY <1>4
<1> QED
  BY <1>2, <1>5, <1>6 DEF keys

\* What is stored of a container, and that its cardinality fits when one is taken off.
LEMMA StoredContainer ==
  ASSUME NEW c, NEW S, Sound(c, S), S # {}
  PROVE  /\ S \in SUBSET Low /\ Cardinality(S) \in 1 .. ChunkSize
         /\ \/ c.type = "array" /\ c = Array(S) /\ Cardinality(S) <= DEFAULT_MAX_SIZE
            \/ c.type = "bitset" /\ c = Bitset(S, Cardinality(S)) /\ Cardinality(S) > DEFAULT_MAX_SIZE
            \/ c.type = "run" /\ c = Run(c.runs) /\ Apart(c.runs) /\ IsFiniteSet(c.runs)
         /\ ((container_get_cardinality(c) - 1) % ChunkSize) + 1 = Cardinality(S)
         /\ container_size_in_bytes(c) \in Nat /\ container_size_in_bytes(c) > 0
<1>1. container_get_cardinality(c) = Cardinality(S) /\ S \in SUBSET Low
  BY SoundCount
<1>2. Cardinality(S) \in 1 .. ChunkSize
  BY <1>1, CountOfSet
<1>3. ((container_get_cardinality(c) - 1) % ChunkSize) + 1 = Cardinality(S)
  <2>1. ChunkSize \in Nat \ {0}
    BY ContainerConstants
  <2> DEFINE n == Cardinality(S) - 1
  <2>2. n \in 0 .. ChunkSize - 1
    BY <1>2, <2>1
  <2> HIDE DEF n
  <2>3. n % ChunkSize = n
    BY <2>1, <2>2
  <2>4. n + 1 = Cardinality(S)
    BY <1>2, <2>1 DEF n
  <2> QED
    BY <1>1, <2>3, <2>4 DEF n
<1>4. \/ c.type = "array" /\ c = Array(S) /\ Cardinality(S) <= DEFAULT_MAX_SIZE
      \/ c.type = "bitset" /\ c = Bitset(S, Cardinality(S)) /\ Cardinality(S) > DEFAULT_MAX_SIZE
      \/ c.type = "run" /\ c = Run(c.runs) /\ Apart(c.runs) /\ IsFiniteSet(c.runs)
  <2>1. CASE IsArray(c, S)
    BY <2>1 DEF IsArray, Array
  <2>2. CASE IsBitset(c, S)
    BY <2>2 DEF IsBitset, Bitset, Sound
  <2>3. CASE IsRun(c, S)
    <3>1. c = Run(c.runs) /\ Apart(c.runs)
      BY <2>3 DEF IsRun
    <3>2. c.type = "run"
      <4> DEFINE R == c.runs
      <4>1. c = Run(R)
        BY <3>1
      <4> HIDE DEF R
      <4> QED
        BY <4>1 DEF Run
    <3> QED
      BY <3>1, <3>2, ApartIsFinite
  <2> QED
    BY <2>1, <2>2, <2>3 DEF Sound, Exact
<1>5. container_size_in_bytes(c) \in Nat /\ container_size_in_bytes(c) > 0
  <2>1. ValueBytes \in Nat \ {0} /\ DEFAULT_MAX_SIZE \in Nat \ {0} /\ RunHeaderBytes \in Nat \ {0} /\ RunBytes \in Nat \ {0}
    BY ContainerConstants
  <2>2. CASE c.type = "array" /\ c = Array(S)
    <3>1. container_size_in_bytes(c) = ValueBytes * Cardinality(S)
      <4>1. container_size_in_bytes(c) = array_container_serialized_size_in_bytes(Cardinality(c.values)) /\ c.values = S
        BY <2>2 DEF container_size_in_bytes, Array
      <4> QED
        BY <4>1 DEF array_container_serialized_size_in_bytes
    <3> DEFINE n == Cardinality(S)
    <3>2. n \in Nat \ {0}
      BY <1>2
    <3> HIDE DEF n
    <3>3. ValueBytes * n \in Nat /\ ValueBytes * n > 0
      BY <2>1, <3>2
    <3> QED
      BY <3>1, <3>3 DEF n
  <2>3. CASE c.type = "bitset"
    <3>1. container_size_in_bytes(c) = ValueBytes * DEFAULT_MAX_SIZE
      BY <2>3 DEF container_size_in_bytes, bitset_container_serialized_size_in_bytes
    <3>2. ValueBytes * DEFAULT_MAX_SIZE \in Nat /\ ValueBytes * DEFAULT_MAX_SIZE > 0
      BY <2>1
    <3> QED
      BY <3>1, <3>2
  <2>4. CASE c.type = "run" /\ IsFiniteSet(c.runs)
    <3>1. container_size_in_bytes(c) = RunHeaderBytes + RunBytes * Cardinality(c.runs)
      BY <2>4 DEF container_size_in_bytes, run_container_serialized_size_in_bytes
    <3> DEFINE n == Cardinality(c.runs)
    <3>2. n \in Nat
      BY <2>4, FS_CardinalityType
    <3> HIDE DEF n
    <3>3. RunHeaderBytes + RunBytes * n \in Nat /\ RunHeaderBytes + RunBytes * n > 0
      <4>1. RunBytes * n \in Nat
        BY <2>1, <3>2
      <4> QED
        BY <2>1, <4>1
    <3> QED
      BY <3>1, <3>3 DEF n
  <2> QED
    BY <1>4, <2>2, <2>3, <2>4
<1> QED
  BY <1>1, <1>2, <1>3, <1>4, <1>5

-----------------------------------------------------------------------------
(* The portable format.                                                     *)

\* The sizes of the containers, in the order of their keys, and where container i begins.
Sizes(bm) == [i \in 1 .. Cardinality(DOMAIN bm) |-> container_size_in_bytes(Containers(bm)[i])]
BeginsAt(bm, i) == ra_portable_header_size(bm) + SumOf(Sizes(bm), i - 1)

\* The header has a size.
LEMMA HeaderHasSize ==
  ASSUME NEW bm, NEW V, Represents(bm, V)
  PROVE  ra_portable_header_size(bm) \in Nat /\ ra_portable_header_size(bm) > 1
<1> DEFINE N == Cardinality(DOMAIN bm)
<1>1. N \in Nat
  BY ContainersInOrder
<1>2. ra_portable_header_size(bm) =
        IF HasRuns(bm) THEN 4 + (N + 7) \div 8 + (IF N < NO_OFFSET_THRESHOLD THEN 4 ELSE 8) * N ELSE 8 + 8 * N
  BY DEF ra_portable_header_size
<1> HIDE DEF N
<1>3. (N + 7) \div 8 \in Nat
  BY <1>1
<1>4. (IF N < NO_OFFSET_THRESHOLD THEN 4 ELSE 8) * N \in Nat
  BY <1>1
<1> QED
  BY <1>1, <1>2, <1>3, <1>4

\* Every container begins where the one before it ends, no two begin at the same place, and the last
\* one ends where roaring_bitmap_portable_size_in_bytes says.
LEMMA ContainersFollow ==
  ASSUME NEW bm, NEW V, Represents(bm, V), NEW N, N = Cardinality(DOMAIN bm)
  PROVE  /\ \A i \in 1 .. N + 1 : BeginsAt(bm, i) \in Nat
         /\ BeginsAt(bm, 1) = ra_portable_header_size(bm)
         /\ \A i \in 1 .. N : BeginsAt(bm, i + 1) = BeginsAt(bm, i) + Sizes(bm)[i]
         /\ \A i, j \in 1 .. N : BeginsAt(bm, i) = BeginsAt(bm, j) => i = j
         /\ BeginsAt(bm, N + 1) = roaring_bitmap_portable_size_in_bytes(bm)
         /\ roaring_bitmap_portable_size_in_bytes(bm) \in Nat /\ roaring_bitmap_portable_size_in_bytes(bm) > 1
<1> DEFINE H == ra_portable_header_size(bm)
           f == Sizes(bm)
           I == 1 .. N
<1>1. /\ N \in Nat /\ DOMAIN bm \in SUBSET Int /\ IsFiniteSet(DOMAIN bm) /\ IsListOf(SortedKeys(bm), DOMAIN bm)
      /\ \A i \in 1 .. N : /\ SortedKeys(bm)[i] \in DOMAIN bm
                           /\ Containers(bm)[i] = bm[SortedKeys(bm)[i]]
                           /\ Sound(Containers(bm)[i], Chunk(V, SortedKeys(bm)[i]))
                           /\ Chunk(V, SortedKeys(bm)[i]) # {}
  <2>1. /\ DOMAIN bm \in SUBSET Int /\ IsFiniteSet(DOMAIN bm) /\ IsListOf(SortedKeys(bm), DOMAIN bm)
        /\ N \in Nat
    BY ContainersInOrder
  <2>2. \A i \in 1 .. N : /\ SortedKeys(bm)[i] \in DOMAIN bm
                          /\ Containers(bm)[i] = bm[SortedKeys(bm)[i]]
                          /\ Sound(Containers(bm)[i], Chunk(V, SortedKeys(bm)[i]))
                          /\ Chunk(V, SortedKeys(bm)[i]) # {}
    BY ContainersInOrder
  <2> QED
    BY <2>1, <2>2
<1>2. \A i \in I : f[i] = container_size_in_bytes(Containers(bm)[i])
  BY DEF Sizes
<1> HIDE DEF f
<1>3. \A i \in I : f[i] \in Nat /\ f[i] > 0
  BY <1>1, <1>2, StoredContainer
<1>4. \A n \in 0 .. N : SumOf(f, n) = PartSum(f, I, n)
  <2> TAKE n \in 0 .. N
  <2>1. I \cap 1 .. n = 1 .. n
    BY <1>1
  <2> QED
    BY <2>1 DEF SumOf, PartSum
<1>5. /\ PartSum(f, I, 0) = 0
      /\ \A n \in 0 .. N : PartSum(f, I, n) \in Nat
      /\ \A n \in 1 .. N : PartSum(f, I, n) = PartSum(f, I, n - 1) + (IF n \in I THEN f[n] ELSE 0)
  <2>1. N \in Nat /\ I \in SUBSET (1 .. N) /\ \A i \in I : f[i] \in Nat
    BY <1>1, <1>3
  <2> HIDE DEF I
  <2>2. GrowsBySummands(f, I, N)
    BY ONLY <2>1, SumsGrow
  <2> QED
    BY <2>2 DEF GrowsBySummands
<1>6. H \in Nat /\ H > 1
  BY HeaderHasSize
<1> DEFINE B(i) == BeginsAt(bm, i)
<1>7. \A i \in 1 .. N + 1 : B(i) = H + PartSum(f, I, i - 1)
  <2> TAKE i \in 1 .. N + 1
  <2>1. i - 1 \in 0 .. N
    BY <1>1
  <2> QED
    BY <1>4, <2>1 DEF BeginsAt, f
<1> HIDE DEF B, H
<1>8. \A i \in 1 .. N + 1 : B(i) \in Nat /\ B(i) > 1
  <2> TAKE i \in 1 .. N + 1
  <2>1. i - 1 \in 0 .. N
    BY <1>1
  <2>2. PartSum(f, I, i - 1) \in Nat
    BY <1>5, <2>1
  <2> QED
    BY <1>6, <1>7, <2>2
<1>9. B(1) = H
  <2>1. 1 \in 1 .. N + 1 /\ 1 - 1 = 0
    BY <1>1
  <2> QED
    BY <1>5, <1>6, <1>7, <2>1
<1>10. ASSUME NEW i \in 1 .. N PROVE B(i + 1) = B(i) + f[i]
  <2>1. i \in 1 .. N + 1 /\ i + 1 \in 1 .. N + 1 /\ (i + 1) - 1 = i /\ i - 1 \in 0 .. N
    BY <1>1
  <2>2. PartSum(f, I, i) = PartSum(f, I, i - 1) + f[i]
    BY <1>5
  <2>3. PartSum(f, I, i - 1) \in Nat /\ f[i] \in Nat
    BY <1>3, <1>5, <2>1
  <2>4. B(i) = H + PartSum(f, I, i - 1) /\ B(i + 1) = H + PartSum(f, I, i)
    BY <1>7, <2>1
  <2> QED
    BY <1>6, <2>2, <2>3, <2>4
<1>11. \A i, j \in 1 .. N : i < j => B(i) < B(j)
  <2> DEFINE T == {n \in Nat : \A i \in 1 .. N : i + n + 1 \in 1 .. N + 1 => B(i) < B(i + n + 1)}
  <2>1. 0 \in T
    <3>1. ASSUME NEW i \in 1 .. N PROVE B(i) < B(i + 0 + 1)
      <4>1. i + 0 + 1 = i + 1 /\ i \in 1 .. N + 1
        BY <1>1
      <4>2. f[i] \in Nat /\ f[i] > 0 /\ B(i) \in Nat
        BY <1>3, <1>8, <4>1
      <4> QED
        BY <1>10, <4>1, <4>2
    <3> QED
      BY <3>1
  <2>2. ASSUME NEW n \in T PROVE n + 1 \in T
    <3>1. ASSUME NEW i \in 1 .. N, i + (n + 1) + 1 \in 1 .. N + 1 PROVE B(i) < B(i + (n + 1) + 1)
      <4>1. n \in Nat
        BY <2>2
      <4> DEFINE m == i + n + 1
      <4>2. m \in 1 .. N /\ m \in 1 .. N + 1 /\ m + 1 = i + (n + 1) + 1 /\ m = i + n + 1 /\ i \in 1 .. N + 1
        BY <1>1, <3>1, <4>1
      <4>3. B(i) < B(m)
        BY <2>2, <4>2
      <4> HIDE DEF m
      <4>4. B(m + 1) = B(m) + f[m] /\ f[m] \in Nat
        BY <1>3, <1>10, <4>2
      <4>5. B(i) \in Nat /\ B(m) \in Nat
        BY <1>8, <4>2
      <4> QED
        BY <4>2, <4>3, <4>4, <4>5
    <3> QED
      BY <2>2, <3>1
  <2>3. T = Nat
    <3>1. T \in SUBSET Nat
      OBVIOUS
    <3> HIDE DEF T
    <3> QED
      BY <2>1, <2>2, <3>1, NumbersByInduction
  <2> TAKE i, j \in 1 .. N
  <2> HAVE i < j
  <2> DEFINE n == j - i - 1
  <2>4. n \in Nat /\ i + n + 1 = j /\ j \in 1 .. N + 1
    BY <1>1
  <2> HIDE DEF n
  <2>5. n \in T
    BY <2>3, <2>4
  <2> QED
    BY <2>4, <2>5
<1>12. \A i, j \in 1 .. N : B(i) = B(j) => i = j
  <2> TAKE i, j \in 1 .. N
  <2>1. i < j \/ j < i \/ i = j
    BY <1>1
  <2>2. i \in 1 .. N + 1 /\ j \in 1 .. N + 1
    BY <1>1
  <2>3. B(i) \in Nat /\ B(j) \in Nat
    BY <1>8, <2>2
  <2> QED
    BY <1>11, <2>1, <2>3
<1>13. B(N + 1) = roaring_bitmap_portable_size_in_bytes(bm)
  <2> DEFINE e == [k \in DOMAIN bm |-> container_size_in_bytes(bm[k])]
             s == SortedKeys(bm)
             K == DOMAIN bm
             J == {i \in 1 .. N : s[i] \in K}
  <2>1. J = I
    BY <1>1
  <2>2. \A i \in J : f[i] = e[s[i]] /\ e[s[i]] = f[i]
    BY <1>1, <1>2, <2>1
  <2>3. \A k \in K : e[k] \in Nat
    <3> TAKE k \in K
    <3>1. PICK i \in 1 .. N : s[i] = k
      BY ContainersInOrder
    <3> QED
      BY <1>3, <2>1, <2>2, <3>1
  <2>4. e = [k \in K |-> e[k]]
    OBVIOUS
  <2>5. K \in SUBSET Int /\ IsFiniteSet(K) /\ IsListOf(s, K) /\ K \in SUBSET K /\ N = Cardinality(K)
    BY <1>1
  <2>6. roaring_bitmap_portable_size_in_bytes(bm) = H + SumFunction(e)
    BY DEF roaring_bitmap_portable_size_in_bytes, H
  <2>7. J = {i \in 1 .. N : s[i] \in K}
    OBVIOUS
  <2> HIDE DEF e, s, J, K
  <2>8. SumFunction([k \in K |-> e[k]]) = PartSum(f, J, N)
    BY <2>2, <2>3, <2>5, <2>7, SumInOrder
  <2>9. N + 1 \in 1 .. N + 1 /\ (N + 1) - 1 = N
    BY <1>1
  <2> QED
    BY <1>7, <2>1, <2>4, <2>6, <2>8, <2>9
<1>14. roaring_bitmap_portable_size_in_bytes(bm) \in Nat /\ roaring_bitmap_portable_size_in_bytes(bm) > 1
  <2>1. N + 1 \in 1 .. N + 1
    BY <1>1
  <2> QED
    BY <1>8, <1>13, <2>1
<1> QED
  BY <1>8, <1>9, <1>10, <1>12, <1>13, <1>14 DEF B, H, f

\* A table of offsets is there unless there are runs and few containers.
HasOffsets(bm) == ~ HasRuns(bm) \/ Cardinality(DOMAIN bm) >= NO_OFFSET_THRESHOLD

\* The fields of what is written.
IsPortable(img, bm, N) ==
  /\ img.cookie = (IF HasRuns(bm) THEN "SERIAL_COOKIE" ELSE "SERIAL_COOKIE_NO_RUNCONTAINER")
  /\ img.size = N
  /\ img.run_flags = (IF HasRuns(bm) THEN {i \in 1 .. N : Containers(bm)[i].type = "run"} ELSE {})
  /\ img.keys = SortedKeys(bm)
  /\ \A i \in 1 .. N : img.cards[i] = (container_get_cardinality(Containers(bm)[i]) - 1) % ChunkSize
  /\ \A i \in 1 .. N : HasOffsets(bm) => img.offsets[i] = BeginsAt(bm, i)
  /\ \A i \in 1 .. N : /\ BeginsAt(bm, i) \in DOMAIN img.body
                       /\ img.body[BeginsAt(bm, i)] = container_write(Containers(bm)[i])
  /\ img.bytes = roaring_bitmap_portable_size_in_bytes(bm)

\* ra_portable_serialize writes them.
LEMMA PortableFields ==
  ASSUME NEW bm, NEW V, Represents(bm, V), NEW N, N = Cardinality(DOMAIN bm)
  PROVE  IsPortable(ra_portable_serialize(bm), bm, N)
<1> DEFINE img == ra_portable_serialize(bm)
           cs == Containers(bm)
           M == Len(cs)
           sizes == [i \in 1 .. M |-> container_size_in_bytes(cs[i])]
           hasrun == HasRuns(bm)
           flagBytes == (M + 7) \div 8
           startOffset == CASE hasrun /\ M < NO_OFFSET_THRESHOLD  -> 4 + 4 * M + flagBytes
                            [] hasrun /\ M >= NO_OFFSET_THRESHOLD -> 4 + 8 * M + flagBytes
                            [] ~hasrun -> 4 + 4 + 4 * M + 4 * M
           offsets == IF ~hasrun \/ M >= NO_OFFSET_THRESHOLD
                      THEN [i \in 1 .. M |-> startOffset + SumOf(sizes, i - 1)]
                      ELSE <<>>
           header == 4 + (IF hasrun THEN flagBytes ELSE 4) + 4 * M + 4 * Len(offsets)
           body == [at \in {header + SumOf(sizes, i - 1) : i \in 1 .. M} |->
                      container_write(cs[CHOOSE i \in 1 .. M : header + SumOf(sizes, i - 1) = at])]
           H == ra_portable_header_size(bm)
<1>1. N \in Nat /\ M = N
  BY ContainersInOrder
<1>2. img = [cookie |-> IF hasrun THEN "SERIAL_COOKIE" ELSE "SERIAL_COOKIE_NO_RUNCONTAINER",
             size |-> M,
             run_flags |-> IF hasrun THEN {i \in 1 .. M : cs[i].type = "run"} ELSE {},
             keys |-> SortedKeys(bm),
             cards |-> [i \in 1 .. M |-> (container_get_cardinality(cs[i]) - 1) % ChunkSize],
             offsets |-> offsets,
             body |-> body,
             bytes |-> header + SumOf(sizes, M)]
  BY DEF ra_portable_serialize
<1> HIDE DEF img
<1>3. sizes = Sizes(bm)
  <2> HIDE DEF M
  <2>1. Sizes(bm) = [i \in 1 .. M |-> container_size_in_bytes(cs[i])]
    BY <1>1 DEF Sizes
  <2> QED
    BY <2>1
<1> HIDE DEF M
<1>4. H = IF hasrun THEN 4 + flagBytes + (IF M < NO_OFFSET_THRESHOLD THEN 4 ELSE 8) * M ELSE 8 + 8 * M
  BY <1>1 DEF ra_portable_header_size
<1> HIDE DEF hasrun, sizes, cs, flagBytes, H
<1>5. NO_OFFSET_THRESHOLD \in Nat /\ flagBytes \in Nat
  BY <1>1, KeyAssumption DEF KeyAssumption, flagBytes
<1>6. HasOffsets(bm) <=> ~hasrun \/ M >= NO_OFFSET_THRESHOLD
  BY <1>1 DEF HasOffsets, hasrun
<1>7. HasOffsets(bm) => startOffset = H
  <2>1. CASE ~hasrun
    BY <1>1, <1>4, <2>1
  <2>2. CASE hasrun /\ M >= NO_OFFSET_THRESHOLD
    <3>1. startOffset = 4 + 8 * M + flagBytes
      BY <1>1, <1>5, <2>2
    <3>2. H = 4 + flagBytes + 8 * M
      BY <1>1, <1>4, <1>5, <2>2
    <3> HIDE DEF startOffset
    <3> QED
      BY <1>1, <1>5, <3>1, <3>2
  <2> QED
    BY <1>6, <2>1, <2>2
<1> HIDE DEF startOffset
<1>8. Len(offsets) = IF HasOffsets(bm) THEN M ELSE 0
  BY <1>1, <1>6
<1>9. HasOffsets(bm) => \A i \in 1 .. M : offsets[i] = H + SumOf(sizes, i - 1)
  BY <1>6, <1>7
<1> HIDE DEF offsets
<1>10. header = H
  <2>1. CASE ~hasrun
    BY <1>1, <1>4, <1>6, <1>8, <2>1
  <2>2. CASE hasrun /\ M >= NO_OFFSET_THRESHOLD
    <3>1. header = 4 + flagBytes + 4 * M + 4 * M
      BY <1>6, <1>8, <2>2
    <3>2. H = 4 + flagBytes + 8 * M
      BY <1>1, <1>4, <1>5, <2>2
    <3> HIDE DEF header
    <3> QED
      BY <1>1, <1>5, <3>1, <3>2
  <2>3. CASE hasrun /\ M < NO_OFFSET_THRESHOLD
    BY <1>1, <1>4, <1>5, <1>6, <1>8, <2>3
  <2> QED
    BY <1>1, <1>5, <2>1, <2>2, <2>3
<1> HIDE DEF header
<1>11. \A i : BeginsAt(bm, i) = header + SumOf(sizes, i - 1)
  BY <1>3, <1>10 DEF BeginsAt, H
<1>12. \A i, j \in 1 .. M : BeginsAt(bm, i) = BeginsAt(bm, j) => i = j
  BY <1>1, ContainersFollow
<1>13. ASSUME NEW i \in 1 .. M PROVE BeginsAt(bm, i) \in DOMAIN body /\ body[BeginsAt(bm, i)] = container_write(cs[i])
  <2> DEFINE j == CHOOSE j \in 1 .. M : header + SumOf(sizes, j - 1) = BeginsAt(bm, i)
  <2>1. j \in 1 .. M /\ header + SumOf(sizes, j - 1) = BeginsAt(bm, i)
    BY <1>11
  <2> HIDE DEF j
  <2>2. j = i
    BY <1>11, <1>12, <2>1
  <2>3. BeginsAt(bm, i) \in DOMAIN body
    BY <1>11
  <2>4. body[BeginsAt(bm, i)] = container_write(cs[j])
    BY <2>3 DEF j
  <2> QED
    BY <2>2, <2>3, <2>4
<1> HIDE DEF body
<1>14. header + SumOf(sizes, M) = roaring_bitmap_portable_size_in_bytes(bm)
  <2>1. BeginsAt(bm, M + 1) = roaring_bitmap_portable_size_in_bytes(bm)
    BY <1>1, ContainersFollow
  <2>2. (M + 1) - 1 = M
    BY <1>1
  <2> QED
    BY <1>11, <2>1, <2>2
<1>15. /\ img.cookie = (IF hasrun THEN "SERIAL_COOKIE" ELSE "SERIAL_COOKIE_NO_RUNCONTAINER") /\ img.size = M
       /\ img.run_flags = (IF hasrun THEN {i \in 1 .. M : cs[i].type = "run"} ELSE {})
       /\ img.keys = SortedKeys(bm)
  BY <1>2
<1>16. /\ img.cards = [i \in 1 .. M |-> (container_get_cardinality(cs[i]) - 1) % ChunkSize]
       /\ img.offsets = offsets /\ img.body = body /\ img.bytes = header + SumOf(sizes, M)
  BY <1>2
<1>17. \A i \in 1 .. M : img.cards[i] = (container_get_cardinality(cs[i]) - 1) % ChunkSize
  BY <1>16
<1>18. HasOffsets(bm) => \A i \in 1 .. M : img.offsets[i] = BeginsAt(bm, i)
  BY <1>9, <1>10, <1>11, <1>16
<1>19. /\ img.cookie = (IF HasRuns(bm) THEN "SERIAL_COOKIE" ELSE "SERIAL_COOKIE_NO_RUNCONTAINER")
       /\ img.size = N
       /\ img.run_flags = (IF HasRuns(bm) THEN {i \in 1 .. N : Containers(bm)[i].type = "run"} ELSE {})
       /\ img.keys = SortedKeys(bm)
  BY <1>1, <1>15 DEF cs, hasrun
<1>20. /\ \A i \in 1 .. N : img.cards[i] = (container_get_cardinality(Containers(bm)[i]) - 1) % ChunkSize
       /\ \A i \in 1 .. N : HasOffsets(bm) => img.offsets[i] = BeginsAt(bm, i)
       /\ \A i \in 1 .. N : /\ BeginsAt(bm, i) \in DOMAIN img.body
                            /\ img.body[BeginsAt(bm, i)] = container_write(Containers(bm)[i])
       /\ img.bytes = roaring_bitmap_portable_size_in_bytes(bm)
  BY <1>1, <1>13, <1>14, <1>16, <1>17, <1>18 DEF cs
<1>21. IsPortable(img, bm, N)
  BY ONLY <1>19, <1>20 DEF IsPortable
<1> QED
  BY <1>21 DEF img

\* A reader takes every container for what it is, expects as many bytes as were written, and reads it
\* where it begins.
LEMMA ContainerIsRead ==
  ASSUME NEW bm, NEW V, Represents(bm, V), NEW img, img = ra_portable_serialize(bm), NEW i \in 1 .. Cardinality(DOMAIN bm)
  PROVE  /\ BeginsAt(bm, i) \in DOMAIN img.body
         /\ ReadContainer(img, i, BeginsAt(bm, i)) = Containers(bm)[i]
         /\ StoredSize(img, i, BeginsAt(bm, i)) = Sizes(bm)[i]
<1> DEFINE c == Containers(bm)[i]
           k == SortedKeys(bm)[i]
           S == Chunk(V, k)
           at == BeginsAt(bm, i)
<1>1. k \in DOMAIN bm /\ c = bm[k] /\ Sound(c, S) /\ S # {}
  BY ContainersInOrder
<1>2. /\ img.run_flags = IF HasRuns(bm) THEN {j \in 1 .. Cardinality(DOMAIN bm) : Containers(bm)[j].type = "run"} ELSE {}
      /\ img.cards[i] = (container_get_cardinality(c) - 1) % ChunkSize
      /\ at \in DOMAIN img.body /\ img.body[at] = container_write(c)
  BY PortableFields DEF IsPortable
<1>3. Sizes(bm)[i] = container_size_in_bytes(c)
  BY DEF Sizes
<1>4. i \in img.run_flags <=> c.type = "run"
  BY <1>1, <1>2 DEF HasRuns
<1> HIDE DEF c, k, S, at
<1>5. /\ \/ c.type = "array" /\ c = Array(S) /\ Cardinality(S) <= DEFAULT_MAX_SIZE
         \/ c.type = "bitset" /\ c = Bitset(S, Cardinality(S)) /\ Cardinality(S) > DEFAULT_MAX_SIZE
         \/ c.type = "run" /\ c = Run(c.runs)
      /\ img.cards[i] + 1 = Cardinality(S)
      /\ Cardinality(S) \in 1 .. ChunkSize
  BY <1>1, <1>2, StoredContainer
<1>6. Cardinality(S) \in Int /\ DEFAULT_MAX_SIZE \in Int
  BY <1>5, ContainerConstants
<1> DEFINE stored == img.body[at]
           n == Cardinality(S)
<1> HIDE DEF stored, n
<1>7. CASE c.type = "array" /\ c = Array(S) /\ n <= DEFAULT_MAX_SIZE
  <2>1. i \notin img.run_flags /\ img.cards[i] + 1 <= DEFAULT_MAX_SIZE /\ ~ (img.cards[i] + 1 > DEFAULT_MAX_SIZE)
    BY <1>4, <1>5, <1>6, <1>7 DEF n
  <2>2. StoredType(img, i) = "array"
    BY <2>1 DEF StoredType
  <2>3. stored = [unit |-> "values", content |-> S]
    BY <1>2, <1>7 DEF stored, container_write, Array
  <2>4. stored.unit = "values" /\ stored.content = S /\ Unit["array"] = "values"
    BY <2>3 DEF Unit
  <2>5. ReadContainer(img, i, at) = c
    BY <1>2, <1>7, <2>2, <2>4 DEF ReadContainer, stored
  <2>6. StoredSize(img, i, at) = container_size_in_bytes(c)
    <3>1. StoredSize(img, i, at) = array_container_serialized_size_in_bytes(Cardinality(S))
      BY <1>5, <2>2 DEF StoredSize
    <3>2. c.values = S
      BY <1>7 DEF Array
    <3> QED
      BY <1>7, <3>1, <3>2 DEF container_size_in_bytes
  <2> QED
    BY <1>2, <1>3, <2>5, <2>6 DEF c, at
<1>8. CASE c.type = "bitset" /\ c = Bitset(S, n) /\ n > DEFAULT_MAX_SIZE
  <2>1. i \notin img.run_flags /\ img.cards[i] + 1 > DEFAULT_MAX_SIZE /\ ~ (img.cards[i] + 1 <= DEFAULT_MAX_SIZE)
    BY <1>4, <1>5, <1>6, <1>8 DEF n
  <2>2. StoredType(img, i) = "bitset"
    BY <2>1 DEF StoredType
  <2>3. stored = [unit |-> "words", content |-> S]
    BY <1>2, <1>8 DEF stored, container_write, Bitset
  <2>4. stored.unit = "words" /\ stored.content = S /\ Unit["bitset"] = "words"
    BY <2>3 DEF Unit
  <2>5. ReadContainer(img, i, at) = Bitset(S, img.cards[i] + 1)
    BY <1>2, <2>2, <2>4 DEF ReadContainer, stored
  <2>6. StoredSize(img, i, at) = container_size_in_bytes(c)
    BY <1>8, <2>2 DEF StoredSize, container_size_in_bytes
  <2> QED
    BY <1>2, <1>3, <1>5, <1>8, <2>5, <2>6 DEF c, at, n
<1>9. CASE c.type = "run" /\ c = Run(c.runs)
  <2> DEFINE R == c.runs
  <2>1. i \in img.run_flags /\ c = Run(R)
    BY <1>4, <1>9
  <2>2. StoredType(img, i) = "run"
    BY <2>1 DEF StoredType
  <2>3. stored = [unit |-> "runs", content |-> R]
    BY <1>2, <1>9 DEF stored, container_write
  <2> HIDE DEF R
  <2>4. stored.unit = "runs" /\ stored.content = R /\ Unit["run"] = "runs"
    BY <2>3 DEF Unit
  <2>5. ReadContainer(img, i, at) = c
    BY <1>2, <2>1, <2>2, <2>4 DEF ReadContainer, stored
  <2>6. StoredSize(img, i, at) = container_size_in_bytes(c)
    <3>1. StoredSize(img, i, at) = run_container_serialized_size_in_bytes(Cardinality(R))
      BY <2>2, <2>4 DEF StoredSize, stored
    <3> QED
      BY <1>9, <3>1 DEF container_size_in_bytes, R
  <2> QED
    BY <1>2, <1>3, <2>5, <2>6 DEF c, at
<1> QED
  BY <1>5, <1>7, <1>8, <1>9 DEF n

\* The positions a reader works out are those where the containers begin.
LEMMA PositionsAreRight ==
  ASSUME NEW bm, NEW V, Represents(bm, V), NEW img, img = ra_portable_serialize(bm)
  PROVE  \A i \in 1 .. Cardinality(DOMAIN bm) + 1 : Positions(img)[i] = BeginsAt(bm, i)
<1> DEFINE N == Cardinality(DOMAIN bm)
           body == img.body
           Next(at, i) == IF at \notin DOMAIN body THEN 0 ELSE at + StoredSize(img, i, at)
           Is(f) == f = [i \in 1 .. N + 1 |-> IF i = 1 THEN StartOfContainers(img) ELSE Next(f[i - 1], i - 1)]
           h == [i \in 1 .. N + 1 |-> BeginsAt(bm, i)]
<1>1. N \in Nat
  BY ContainersInOrder
<1>2. /\ img.cookie = (IF HasRuns(bm) THEN "SERIAL_COOKIE" ELSE "SERIAL_COOKIE_NO_RUNCONTAINER")
      /\ img.size = N
  BY PortableFields DEF IsPortable
<1>3. /\ BeginsAt(bm, 1) = ra_portable_header_size(bm)
      /\ \A i \in 1 .. N : BeginsAt(bm, i + 1) = BeginsAt(bm, i) + Sizes(bm)[i]
  BY ContainersFollow
<1>4. \A i \in 1 .. N : BeginsAt(bm, i) \in DOMAIN body /\ StoredSize(img, i, BeginsAt(bm, i)) = Sizes(bm)[i]
  BY ContainerIsRead
<1>5. StartOfContainers(img) = ra_portable_header_size(bm)
  <2> DEFINE hasrun == HasRuns(bm)
             flagBytes == (N + 7) \div 8
             far == N >= NO_OFFSET_THRESHOLD
  <2>1. img.cookie = "SERIAL_COOKIE" <=> hasrun
    BY <1>2
  <2>2. StartOfContainers(img) = 4 + (IF hasrun THEN flagBytes ELSE 4) + 4 * N + (IF ~hasrun \/ far THEN 4 * N ELSE 0)
    BY <1>2, <2>1 DEF StartOfContainers
  <2>3. ra_portable_header_size(bm) =
          IF hasrun THEN 4 + flagBytes + (IF N < NO_OFFSET_THRESHOLD THEN 4 ELSE 8) * N ELSE 8 + 8 * N
    BY DEF ra_portable_header_size
  <2>4. flagBytes \in Nat /\ NO_OFFSET_THRESHOLD \in Nat
    BY <1>1, KeyAssumption DEF KeyAssumption
  <2> HIDE DEF hasrun, flagBytes, N
  <2>5. CASE ~hasrun
    BY <1>1, <2>2, <2>3, <2>5
  <2>6. CASE hasrun /\ far
    <3>1. StartOfContainers(img) = 4 + flagBytes + 4 * N + 4 * N
      BY <2>2, <2>6
    <3>2. ra_portable_header_size(bm) = 4 + flagBytes + 8 * N
      BY <1>1, <2>3, <2>4, <2>6
    <3> QED
      BY <1>1, <2>4, <3>1, <3>2
  <2>7. CASE hasrun /\ ~far
    <3>1. StartOfContainers(img) = 4 + flagBytes + 4 * N + 0
      BY <2>2, <2>7
    <3>2. ra_portable_header_size(bm) = 4 + flagBytes + 4 * N
      BY <1>1, <2>3, <2>4, <2>7
    <3> QED
      BY <1>1, <2>4, <3>1, <3>2
  <2> QED
    BY <2>5, <2>6, <2>7
<1>6. Positions(img) = CHOOSE f : Is(f)
  BY <1>2 DEF Positions
<1> HIDE DEF N, body
<1>7. Is(h)
  <2>1. ASSUME NEW i \in 1 .. N + 1
        PROVE  BeginsAt(bm, i) = IF i = 1 THEN StartOfContainers(img) ELSE Next(h[i - 1], i - 1)
    <3>1. CASE i = 1
      BY <1>3, <1>5, <3>1
    <3>2. CASE i # 1
      <4>1. i - 1 \in 1 .. N /\ i - 1 \in 1 .. N + 1 /\ (i - 1) + 1 = i
        BY <1>1, <3>2
      <4>2. h[i - 1] = BeginsAt(bm, i - 1)
        BY <4>1
      <4> HIDE DEF h
      <4>3. BeginsAt(bm, i) = BeginsAt(bm, i - 1) + Sizes(bm)[i - 1]
        BY <1>3, <4>1
      <4> QED
        BY <1>4, <3>2, <4>1, <4>2, <4>3
    <3> QED
      BY <3>1, <3>2
  <2> HIDE DEF Next
  <2> QED
    BY <2>1
<1> DEFINE p == Positions(img)
<1>8. Is(p)
  <2> HIDE DEF Is, h
  <2> QED
    BY <1>6, <1>7
<1> HIDE DEF p
<1>9. \A i \in 1 .. N + 1 : p[i] = IF i = 1 THEN StartOfContainers(img) ELSE Next(p[i - 1], i - 1)
  <2> HIDE DEF Next
  <2> QED
    BY <1>8
<1> HIDE DEF Is, h
<1> DEFINE T == {n \in Nat : n + 1 \in 1 .. N + 1 => p[n + 1] = BeginsAt(bm, n + 1)}
<1>10. 0 \in T
  <2>1. 0 + 1 = 1 /\ 1 \in 1 .. N + 1 /\ 0 \in Nat
    BY <1>1
  <2>2. p[1] = BeginsAt(bm, 1)
    BY <1>3, <1>5, <1>9, <2>1
  <2> QED
    BY <2>1, <2>2
<1>11. ASSUME NEW n \in T PROVE n + 1 \in T
  <2>1. n \in Nat
    OBVIOUS
  <2>2. ASSUME (n + 1) + 1 \in 1 .. N + 1 PROVE p[(n + 1) + 1] = BeginsAt(bm, (n + 1) + 1)
    <3> DEFINE m == n + 1
    <3>1. m \in 1 .. N /\ m \in 1 .. N + 1 /\ m + 1 # 1 /\ (m + 1) - 1 = m /\ m + 1 \in 1 .. N + 1
      BY <1>1, <2>1, <2>2
    <3>2. p[m] = BeginsAt(bm, m)
      BY <3>1
    <3> HIDE DEF m
    <3>3. p[m + 1] = Next(p[m], m)
      <4> HIDE DEF Next
      <4> QED
        BY <1>9, <3>1
    <3>4. BeginsAt(bm, m + 1) = BeginsAt(bm, m) + Sizes(bm)[m]
      BY <1>3, <3>1
    <3>5. Next(BeginsAt(bm, m), m) = BeginsAt(bm, m) + Sizes(bm)[m]
      BY <1>4, <3>1
    <3>6. p[m + 1] = BeginsAt(bm, m + 1)
      BY <3>2, <3>3, <3>4, <3>5
    <3> QED
      BY <3>6 DEF m
  <2> QED
    BY <2>1, <2>2
<1>12. T = Nat
  <2>1. T \in SUBSET Nat
    OBVIOUS
  <2> HIDE DEF T
  <2> QED
    BY <1>10, <1>11, <2>1, NumbersByInduction
<1>13. ASSUME NEW i \in 1 .. N + 1 PROVE p[i] = BeginsAt(bm, i)
  <2> DEFINE n == i - 1
  <2>1. n \in Nat /\ n + 1 = i
    BY <1>1
  <2> HIDE DEF n
  <2>2. n \in T
    BY <1>12, <2>1
  <2> QED
    BY <2>1, <2>2
<1> QED
  BY <1>13 DEF N, p

\* A bitmap in the portable format is read back with the containers it had, through the table of
\* offsets or without it, and nothing is read when a byte is missing.
THEOREM PortableIsReadBack ==
  ASSUME NEW bm, NEW V, Represents(bm, V), NEW img, img = ra_portable_serialize(bm)
  PROVE  /\ \A maxbytes : ra_portable_deserialize(img, maxbytes) =
                            IF roaring_bitmap_portable_size_in_bytes(bm) > maxbytes THEN {} ELSE {bm}
         /\ roaring_bitmap_portable_deserialize_frozen(img) = {bm}
         /\ img.bytes = roaring_bitmap_portable_size_in_bytes(bm)
<1> DEFINE N == Cardinality(DOMAIN bm)
           at == Positions(img)
           offset(i) == IF img.cookie = "SERIAL_COOKIE_NO_RUNCONTAINER" \/ img.size >= NO_OFFSET_THRESHOLD
                        THEN img.offsets[i] ELSE at[i]
           g == [i \in 1 .. N |-> ReadContainer(img, i, at[i])]
           o == [i \in 1 .. N |-> ReadContainer(img, i, offset(i))]
<1>1. N \in Nat
  BY ContainersInOrder
<1>2. /\ img.cookie = (IF HasRuns(bm) THEN "SERIAL_COOKIE" ELSE "SERIAL_COOKIE_NO_RUNCONTAINER") /\ img.size = N
      /\ img.keys = SortedKeys(bm) /\ img.bytes = roaring_bitmap_portable_size_in_bytes(bm)
  BY PortableFields DEF IsPortable
<1>3. \A i \in 1 .. N : HasOffsets(bm) => img.offsets[i] = BeginsAt(bm, i)
  BY PortableFields DEF IsPortable
<1>4. \A i \in 1 .. N + 1 : at[i] = BeginsAt(bm, i)
  BY PositionsAreRight
<1>5. BeginsAt(bm, N + 1) = roaring_bitmap_portable_size_in_bytes(bm)
  BY ContainersFollow
<1>6. \A i \in 1 .. N : ReadContainer(img, i, BeginsAt(bm, i)) = Containers(bm)[i]
  BY ContainerIsRead
<1>8. \A maxbytes : ra_portable_deserialize(img, maxbytes) =
                      IF at[N + 1] > maxbytes THEN {} ELSE {FromContainers(img.keys, g)}
  BY <1>2 DEF ra_portable_deserialize
<1>9. roaring_bitmap_portable_deserialize_frozen(img) = {FromContainers(img.keys, o)}
  BY <1>2 DEF roaring_bitmap_portable_deserialize_frozen
<1>10. HasOffsets(bm) <=> img.cookie = "SERIAL_COOKIE_NO_RUNCONTAINER" \/ img.size >= NO_OFFSET_THRESHOLD
  BY <1>2 DEF HasOffsets
<1> HIDE DEF N, at
<1>11. \A i \in 1 .. N : i \in 1 .. N + 1
  BY <1>1
<1>12. \A i \in 1 .. N : offset(i) = BeginsAt(bm, i)
  BY <1>3, <1>4, <1>10, <1>11
<1>13. \A i \in 1 .. N : g[i] = Containers(bm)[i]
  BY <1>4, <1>6, <1>11
<1>14. \A i \in 1 .. N : o[i] = Containers(bm)[i]
  <2> HIDE DEF offset
  <2> QED
    BY <1>6, <1>12
<1> HIDE DEF g, o
<1>15. FromContainers(SortedKeys(bm), g) = bm /\ FromContainers(SortedKeys(bm), o) = bm
  BY <1>13, <1>14, BitmapFromContainers DEF N
<1>16. N + 1 \in 1 .. N + 1
  BY <1>1
<1>17. \A maxbytes : ra_portable_deserialize(img, maxbytes) =
                       IF roaring_bitmap_portable_size_in_bytes(bm) > maxbytes THEN {} ELSE {bm}
  BY <1>2, <1>4, <1>5, <1>8, <1>15, <1>16
<1> QED
  BY <1>2, <1>9, <1>15, <1>17

-----------------------------------------------------------------------------
(* The frozen format.                                                       *)

\* A sum of ones is a number of elements.
LEMMA OnesAddUp ==
  ASSUME NEW K, IsFiniteSet(K), NEW e, \A k \in K : e[k] = 1
  PROVE  SumFunction([k \in K |-> e[k]]) = Cardinality(K)
<1> DEFINE f == [k \in K |-> e[k]]
           P == [k \in K |-> {k}]
<1>1. DOMAIN f = K /\ \A k \in K : f[k] = 1 /\ P[k] = {k}
  OBVIOUS
<1>2. \A k \in K : IsFiniteSet(P[k]) /\ Cardinality(P[k]) = f[k]
  BY <1>1, FS_Singleton
<1> HIDE DEF f, P
<1>3. SizesOf(f, P)
  BY <1>1, <1>2 DEF SizesOf
<1>4. \A v : v \in K <=> \E x \in DOMAIN f : v \in P[x]
  BY <1>1
<1>5. SumFunction(f) = Cardinality(K)
  BY <1>3, <1>4, SumIsCount
<1> QED
  BY <1>5 DEF f

\* The parts L[1], ..., L[N] are put behind each other, f[n] and u[n] being the first n and their length.
PutTogether(f, u, L, N, X) ==
  /\ f[0] = <<>> /\ u[0] = 0
  /\ \A n \in 1 .. N : /\ L[n] \in Seq(X)
                       /\ f[n] = f[n - 1] \o L[n]
                       /\ u[n] = u[n - 1] + Len(L[n])

\* What is put behind each other in a zone is found again between the sums of the lengths.
LEMMA ZoneHasParts ==
  ASSUME NEW N \in Nat, NEW X, NEW L, NEW f, NEW u, PutTogether(f, u, L, N, X)
  PROVE  /\ f[N] \in Seq(X) /\ Len(f[N]) = u[N]
         /\ \A i \in 1 .. N : /\ u[i - 1] \in Nat /\ u[i] \in Nat
                              /\ \A j \in 1 .. Len(L[i]) : f[N][u[i - 1] + j] = L[i][j]
<1> DEFINE Holds(n) == /\ f[n] \in Seq(X) /\ Len(f[n]) = u[n] /\ u[n] \in Nat
                       /\ \A i \in 1 .. n : /\ u[i - 1] \in Nat /\ u[i] \in Nat
                                            /\ \A j \in 1 .. Len(L[i]) : /\ u[i - 1] + j \in 1 .. u[n]
                                                                         /\ f[n][u[i - 1] + j] = L[i][j]
           T == {n \in Nat : n <= N => Holds(n)}
<1>0. /\ f[0] = <<>> /\ u[0] = 0
      /\ \A n \in 1 .. N : L[n] \in Seq(X) /\ f[n] = f[n - 1] \o L[n] /\ u[n] = u[n - 1] + Len(L[n])
  BY DEF PutTogether
<1>1. 0 \in T
  <2>1. f[0] \in Seq(X) /\ Len(f[0]) = 0
    BY <1>0
  <2>2. \A i \in 1 .. 0 : FALSE
    OBVIOUS
  <2>3. Holds(0)
    BY <1>0, <2>1, <2>2
  <2> HIDE DEF Holds
  <2> QED
    BY <2>3
<1>2. ASSUME NEW n \in T PROVE n + 1 \in T
  <2>1. n \in Nat
    OBVIOUS
  <2>2. ASSUME n + 1 <= N PROVE Holds(n + 1)
    <3>1. n + 1 \in 1 .. N /\ (n + 1) - 1 = n /\ n <= N
      BY <2>1, <2>2
    <3>2. Holds(n)
      BY <3>1
    <3> DEFINE s == f[n]
               t == L[n + 1]
               a == u[n]
    <3>3. s \in Seq(X) /\ t \in Seq(X) /\ Len(s) = a /\ a \in Nat
      BY <1>0, <3>1, <3>2
    <3>4. f[n + 1] = s \o t /\ u[n + 1] = a + Len(t)
      <4> HIDE DEF Holds, T
      <4> QED
        BY <1>0, <3>1
    <3> HIDE DEF s, t
    <3>5. Len(t) \in Nat
      BY <3>3, LenProperties
    <3>6. /\ s \o t \in Seq(X) /\ Len(s \o t) = a + Len(t)
          /\ \A i \in 1 .. a + Len(t) : (s \o t)[i] = IF i <= a THEN s[i] ELSE t[i - a]
      BY <3>3, ConcatProperties
    <3>7. ASSUME NEW i \in 1 .. n + 1
          PROVE  /\ u[i - 1] \in Nat /\ u[i] \in Nat
                 /\ \A j \in 1 .. Len(L[i]) : /\ u[i - 1] + j \in 1 .. u[n + 1]
                                              /\ f[n + 1][u[i - 1] + j] = L[i][j]
      <4>1. CASE i = n + 1
        <5>1. u[i - 1] = a /\ L[i] = t
          BY <2>1, <4>1 DEF t
        <5>2. \A j \in 1 .. Len(t) : a + j \in 1 .. a + Len(t) /\ ~ (a + j <= a) /\ (a + j) - a = j
          BY <3>3, <3>5
        <5> HIDE DEF a
        <5>3. \A j \in 1 .. Len(t) : (s \o t)[a + j] = t[j]
          BY <3>6, <5>2
        <5>4. u[i] = a + Len(t) /\ u[n + 1] = a + Len(t) /\ f[n + 1] = s \o t
          BY <3>4, <4>1
        <5>5. u[i - 1] \in Nat /\ u[i] \in Nat
          BY <3>3, <3>5, <5>1, <5>4
        <5>6. ASSUME NEW j \in 1 .. Len(L[i]) PROVE u[i - 1] + j \in 1 .. u[n + 1] /\ f[n + 1][u[i - 1] + j] = L[i][j]
          BY ONLY <5>1, <5>2, <5>3, <5>4, <5>6
        <5> QED
          BY ONLY <5>5, <5>6
      <4>2. CASE i \in 1 .. n
        <5>1. /\ u[i - 1] \in Nat /\ u[i] \in Nat
              /\ \A j \in 1 .. Len(L[i]) : u[i - 1] + j \in 1 .. a /\ s[u[i - 1] + j] = L[i][j]
          BY <3>2, <4>2 DEF s
        <5> HIDE DEF a, Holds, T
        <5>2. ASSUME NEW j \in 1 .. Len(L[i])
              PROVE  u[i - 1] + j \in 1 .. u[n + 1] /\ f[n + 1][u[i - 1] + j] = L[i][j]
          <6> DEFINE m == u[i - 1] + j
          <6>1. m \in 1 .. a /\ s[m] = L[i][j]
            BY <5>1
          <6> HIDE DEF m
          <6>2. m \in 1 .. a + Len(t) /\ m <= a
            BY <3>3, <3>5, <6>1
          <6>3. f[n + 1][m] = L[i][j] /\ m \in 1 .. u[n + 1]
            BY <3>4, <3>6, <6>1, <6>2
          <6> QED
            BY <6>3 DEF m
        <5> QED
          BY <5>1, <5>2
      <4> QED
        BY <2>1, <4>1, <4>2
    <3> HIDE DEF T
    <3> QED
      BY <3>3, <3>4, <3>5, <3>6, <3>7
  <2> HIDE DEF Holds
  <2> QED
    BY <2>1, <2>2
<1>3. T = Nat
  <2>1. T \in SUBSET Nat
    OBVIOUS
  <2> HIDE DEF T
  <2> QED
    BY <1>1, <1>2, <2>1, NumbersByInduction
<1>4. Holds(N)
  <2> HIDE DEF Holds
  <2> QED
    BY <1>3
<1> QED
  BY <1>4

\* A slice between two of the sums has what was put there.
LEMMA SliceHasPart ==
  ASSUME NEW X, NEW f \in Seq(X), NEW t \in Seq(X), NEW a \in Nat, NEW b, b = a + Len(t),
         \A j \in 1 .. Len(t) : f[a + j] = t[j]
  PROVE  ToSet(SubSeq(f, a + 1, b)) = ToSet(t)
<1>1. Len(t) \in Nat /\ DOMAIN t = 1 .. Len(t)
  BY LenProperties
<1>2. \A i \in a + 1 .. b : f[i] \in X
  <2> TAKE i \in a + 1 .. b
  <2>1. i - a \in 1 .. Len(t) /\ a + (i - a) = i
    BY <1>1
  <2> DEFINE j == i - a
  <2>2. f[a + j] = t[j] /\ t[j] \in X
    BY <2>1, ElementOfSeq
  <2> QED
    BY <2>1, <2>2
<1> DEFINE q == SubSeq(f, a + 1, b)
<1>3. /\ q \in Seq(X) /\ Len(q) = (IF a + 1 <= b THEN b - (a + 1) + 1 ELSE 0)
      /\ \A i \in 1 .. b - (a + 1) + 1 : q[i] = f[(a + 1) + i - 1]
  <2>1. a + 1 \in Int /\ b \in Int
    BY <1>1
  <2> QED
    BY <1>2, <2>1, SubSeqProperties
<1> HIDE DEF q
<1>4. Len(q) = Len(t)
  BY <1>1, <1>3
<1>5. DOMAIN q = 1 .. Len(t)
  BY <1>3, <1>4, LenProperties
<1>6. \A i \in 1 .. Len(t) : q[i] = t[i]
  <2> TAKE i \in 1 .. Len(t)
  <2>1. i \in 1 .. b - (a + 1) + 1 /\ (a + 1) + i - 1 = a + i
    BY <1>1
  <2> QED
    BY <1>3, <2>1
<1>7. ToSet(q) = ToSet(t)
  BY <1>1, <1>5, <1>6 DEF ToSet
<1> QED
  BY <1>7 DEF q

IsZone(f, cs, type) ==
  /\ f[0] = <<>>
  /\ \A n \in 1 .. Len(cs) : f[n] = IF cs[n].type = type THEN f[n - 1] \o FrozenContent(cs[n]) ELSE f[n - 1]
  /\ FrozenZone(cs, type) = f[Len(cs)]

\* The same for the loop that fills a zone.
LEMMA LoopOfZone ==
  ASSUME NEW cs, NEW type, Len(cs) \in Nat
  PROVE  \E f : IsZone(f, cs, type)
<1> DEFINE Next(a, n) == IF cs[n].type = type THEN a \o FrozenContent(cs[n]) ELSE a
           Is(f, m) == f = [n \in 0 .. m |-> IF n = 0 THEN <<>> ELSE Next(f[n - 1], n)]
           T == {m \in Nat : \E f : Is(f, m)}
<1>1. 0 \in T
  <2> HIDE DEF Next
  <2>1. Is([n \in 0 .. 0 |-> <<>>], 0)
    OBVIOUS
  <2> QED
    BY <2>1
<1>2. ASSUME NEW m \in T PROVE m + 1 \in T
  <2> HIDE DEF Next
  <2>1. PICK f : Is(f, m)
    BY <1>2
  <2> DEFINE g == [n \in 0 .. m + 1 |-> IF n \in 0 .. m THEN f[n] ELSE Next(f[m], m + 1)]
  <2>2. \A n \in 0 .. m : f[n] = IF n = 0 THEN <<>> ELSE Next(f[n - 1], n)
    BY <2>1
  <2>3. ASSUME NEW n \in 0 .. m + 1 PROVE g[n] = IF n = 0 THEN <<>> ELSE Next(g[n - 1], n)
    <3>1. CASE n = 0
      BY <2>2, <3>1
    <3>2. CASE n \in 1 .. m
      BY <2>2, <3>2
    <3>3. CASE n = m + 1
      BY <3>3
    <3> QED
      BY <3>1, <3>2, <3>3
  <2>4. g = [n \in 0 .. m + 1 |-> g[n]]
    OBVIOUS
  <2>5. Is(g, m + 1)
    <3> HIDE DEF g
    <3> QED
      BY <2>3, <2>4
  <2>6. m + 1 \in Nat
    OBVIOUS
  <2> HIDE DEF Is, g
  <2> QED
    BY <2>5, <2>6
<1>3. T = Nat
  <2> HIDE DEF T
  <2>1. T \in SUBSET Nat
    BY DEF T
  <2> QED
    BY <1>1, <1>2, <2>1, NumbersByInduction
<1> DEFINE h == CHOOSE f : Is(f, Len(cs))
<1>4. Is(h, Len(cs))
  <2>1. \E f : Is(f, Len(cs))
    BY <1>3
  <2> HIDE DEF Is
  <2> QED
    BY <2>1
<1>5. FrozenZone(cs, type) = h[Len(cs)]
  BY Zenon DEF FrozenZone, Loop
<1>6. h[0] = <<>> /\ \A n \in 1 .. Len(cs) : h[n] = Next(h[n - 1], n)
  <2> HIDE DEF h, Next
  <2> QED
    BY <1>4
<1> HIDE DEF h
<1> QED
  BY <1>5, <1>6 DEF IsZone

\* What the zones are made of.
FrozenItem == Low \cup (Low \X Low) \cup SUBSET Low

\* A container is found again in what is put into a zone, and as much is put there as is counted.
LEMMA ContentOfContainer ==
  ASSUME NEW c, NEW S, Sound(c, S), S # {}, NEW t, t = FrozenContent(c)
  PROVE  /\ t \in Seq(FrozenItem) /\ Len(t) \in Nat
         /\ Len(t) = IF c.type = "run" THEN FrozenCount(c) ELSE IF c.type = "bitset" THEN 1 ELSE FrozenCount(c) + 1
         /\ \/ c.type = "array" /\ c = Array(ToSet(t)) /\ Len(t) = Cardinality(c.values)
            \/ c.type = "bitset" /\ c = Bitset(t[1], FrozenCount(c) + 1) /\ Len(t) = 1
            \/ c.type = "run" /\ c = Run(ToSet(t)) /\ Len(t) = Cardinality(c.runs)
<1>1. /\ S \in SUBSET Low /\ Cardinality(S) \in 1 .. ChunkSize
      /\ \/ c.type = "array" /\ c = Array(S) /\ Cardinality(S) <= DEFAULT_MAX_SIZE
         \/ c.type = "bitset" /\ c = Bitset(S, Cardinality(S)) /\ Cardinality(S) > DEFAULT_MAX_SIZE
         \/ c.type = "run" /\ c = Run(c.runs) /\ Apart(c.runs) /\ IsFiniteSet(c.runs)
  BY StoredContainer
<1>2. ((Cardinality(S) - 1) % ChunkSize) + 1 = Cardinality(S)
  <2> DEFINE n == Cardinality(S) - 1
  <2>1. ChunkSize \in Nat \ {0}
    BY ContainerConstants
  <2>2. n \in 0 .. ChunkSize - 1
    BY <1>1, <2>1
  <2> HIDE DEF n
  <2>3. n % ChunkSize = n
    BY <2>1, <2>2
  <2> QED
    BY <1>1, <2>3 DEF n
<1>3. CASE c.type = "array" /\ c = Array(S)
  <2>1. c.values = S
    BY <1>3 DEF Array
  <2>2. t = Ascending(S)
    BY <1>3, <2>1 DEF FrozenContent
  <2>3. S \in SUBSET Int /\ IsFiniteSet(S)
    BY <1>1, CountOfSet DEF Low
  <2>4. IsListOf(t, S)
    BY <2>2, <2>3, AscendingLists
  <2>5. /\ t \in Seq(S) /\ Len(t) = Cardinality(S) /\ DOMAIN t = 1 .. Cardinality(S)
        /\ \A i \in 1 .. Cardinality(S) : t[i] \in S
        /\ \A v \in S : Cardinality(Before(S, v)) + 1 \in 1 .. Cardinality(S) /\ t[Cardinality(Before(S, v)) + 1] = v
    BY <2>3, <2>4, ListsHave
  <2>6. t \in Seq(FrozenItem)
    <3>1. S \subseteq FrozenItem
      BY <1>1 DEF FrozenItem
    <3> QED
      BY <2>5, <3>1, SeqMonotonic
  <2>7. ToSet(t) = S
    <3>1. ToSet(t) = {t[i] : i \in 1 .. Cardinality(S)}
      BY <2>5 DEF ToSet
    <3>2. \A v : v \in {t[i] : i \in 1 .. Cardinality(S)} <=> v \in S
      BY <2>5, Zenon
    <3> QED
      BY <3>1, <3>2
  <2>8. FrozenCount(c) + 1 = Cardinality(S)
    BY <1>2, <1>3, <2>1 DEF FrozenCount
  <2> QED
    BY <1>1, <1>3, <2>1, <2>5, <2>6, <2>7, <2>8
<1>4. CASE c.type = "bitset" /\ c = Bitset(S, Cardinality(S))
  <2>1. c.values = S /\ c.cardinality = Cardinality(S)
    BY <1>4 DEF Bitset
  <2>2. t = <<S>>
    BY <1>4, <2>1 DEF FrozenContent
  <2>3. t \in Seq(FrozenItem) /\ Len(t) = 1 /\ t[1] = S
    <3>1. S \in FrozenItem
      BY <1>1 DEF FrozenItem
    <3> QED
      BY <2>2, <3>1
  <2>4. FrozenCount(c) + 1 = Cardinality(S)
    <3>1. FrozenCount(c) = (Cardinality(S) - 1) % ChunkSize
      BY <1>4, <2>1 DEF FrozenCount
    <3> QED
      BY <1>2, <3>1
  <2> QED
    BY <1>4, <2>3, <2>4
<1>5. CASE c.type = "run" /\ c = Run(c.runs) /\ Apart(c.runs) /\ IsFiniteSet(c.runs)
  <2> DEFINE R == c.runs
  <2>1. c = Run(R) /\ Apart(R) /\ IsFiniteSet(R) /\ c.type = "run"
    BY <1>5
  <2>2. t = SortedRuns(R) /\ FrozenCount(c) = Cardinality(R)
    BY <1>5 DEF FrozenContent, FrozenCount
  <2> HIDE DEF R
  <2>3. Separate(R) /\ R \in SUBSET (Low \X Low)
    BY <2>1, ApartAreSeparate DEF Apart
  <2>4. /\ \A i \in DOMAIN t : t[i] \in R
        /\ \A r \in R : \E i \in DOMAIN t : t[i] = r
    BY <2>2, <2>3, SortedRunsInOrder
  <2>5. Cardinality(R) \in Nat
    BY <2>1, FS_CardinalityType
  <2>6. t = [i \in 1 .. Cardinality(R) |-> t[i]]
    BY <2>2 DEF SortedRuns, Sorted
  <2>7. DOMAIN t = 1 .. Cardinality(R)
    BY <2>6
  <2>8. t \in [1 .. Cardinality(R) -> FrozenItem]
    BY <2>3, <2>4, <2>6, <2>7 DEF FrozenItem
  <2>9. t \in Seq(FrozenItem) /\ Len(t) = Cardinality(R)
    BY <2>5, <2>8, FunctionIsSequence
  <2>10. ToSet(t) = R
    <3>1. \A r : r \in ToSet(t) <=> \E i \in DOMAIN t : t[i] = r
      BY DEF ToSet
    <3> QED
      BY <2>4, <3>1
  <2> QED
    BY <2>1, <2>2, <2>5, <2>9, <2>10 DEF R
<1> QED
  BY <1>1, <1>3, <1>4, <1>5

\* The containers of a type, how much each of them puts into its zone, and how much the first n do.
OfType(bm, type) == {i \in 1 .. Cardinality(DOMAIN bm) : Containers(bm)[i].type = type}
FrozenLengths(bm) == [i \in 1 .. Cardinality(DOMAIN bm) |-> Len(FrozenContent(Containers(bm)[i]))]
UsedBy(bm, type, n) == PartSum(FrozenLengths(bm), OfType(bm, type), n)

\* A zone has what its containers put there, one after the other.
LEMMA ZoneIsFilled ==
  ASSUME NEW bm, NEW V, Represents(bm, V), NEW type, NEW N, N = Cardinality(DOMAIN bm),
         NEW zone, zone = FrozenZone(Containers(bm), type)
  PROVE  /\ zone \in Seq(FrozenItem) /\ Len(zone) = UsedBy(bm, type, N)
         /\ \A i \in OfType(bm, type) :
              /\ i \in 1 .. N /\ UsedBy(bm, type, i - 1) \in Nat
              /\ UsedBy(bm, type, i) = UsedBy(bm, type, i - 1) + FrozenLengths(bm)[i]
              /\ \A j \in 1 .. FrozenLengths(bm)[i] :
                    zone[UsedBy(bm, type, i - 1) + j] = FrozenContent(Containers(bm)[i])[j]
<1> DEFINE cs == Containers(bm)
           e == FrozenLengths(bm)
           I == OfType(bm, type)
           L == [n \in 1 .. N |-> IF cs[n].type = type THEN FrozenContent(cs[n]) ELSE <<>>]
           u == [n \in 0 .. N |-> UsedBy(bm, type, n)]
<1>1. N \in Nat /\ Len(cs) = N
  BY ContainersInOrder
<1>2. \A i \in 1 .. N : Sound(cs[i], Chunk(V, SortedKeys(bm)[i])) /\ Chunk(V, SortedKeys(bm)[i]) # {}
  BY ContainersInOrder
<1>3. \A i \in 1 .. N : e[i] = Len(FrozenContent(cs[i]))
  BY DEF FrozenLengths
<1>4. \A i : i \in I <=> i \in 1 .. N /\ cs[i].type = type
  BY DEF OfType
<1>5. \A n : UsedBy(bm, type, n) = PartSum(e, I, n)
  BY DEF UsedBy
<1> HIDE DEF cs, e, I
<1>6. \A i \in 1 .. N : FrozenContent(cs[i]) \in Seq(FrozenItem) /\ Len(FrozenContent(cs[i])) \in Nat
  BY <1>2, ContentOfContainer
<1>7. /\ PartSum(e, I, 0) = 0
      /\ \A n \in 0 .. N : PartSum(e, I, n) \in Nat
      /\ \A n \in 1 .. N : PartSum(e, I, n) = PartSum(e, I, n - 1) + (IF n \in I THEN e[n] ELSE 0)
  <2>1. N \in Nat
    BY <1>1
  <2>2. I \in SUBSET (1 .. N)
    BY <1>4
  <2>3. \A i \in I : e[i] \in Nat
    BY <1>3, <1>4, <1>6
  <2>4. GrowsBySummands(e, I, N)
    BY ONLY <2>1, <2>2, <2>3, SumsGrow
  <2> QED
    BY <2>4 DEF GrowsBySummands
<1>8. PICK f : IsZone(f, cs, type)
  BY <1>1, LoopOfZone
<1>9. f[0] = <<>> /\ zone = f[N] /\ \A n \in 1 .. N : f[n] = IF cs[n].type = type THEN f[n - 1] \o FrozenContent(cs[n]) ELSE f[n - 1]
  BY <1>1, <1>8 DEF IsZone, cs
<1>10. \A n \in 1 .. N : L[n] = (IF n \in I THEN FrozenContent(cs[n]) ELSE <<>>) /\ L[n] \in Seq(FrozenItem)
                         /\ Len(L[n]) = IF n \in I THEN e[n] ELSE 0
  BY <1>3, <1>4, <1>6
<1>11. u[0] = 0 /\ \A n \in 0 .. N : u[n] = PartSum(e, I, n) /\ u[n] \in Nat
  BY <1>1, <1>5, <1>7
<1>12. \A n \in 1 .. N : u[n] = u[n - 1] + Len(L[n])
  <2> TAKE n \in 1 .. N
  <2>1. n \in 0 .. N /\ n - 1 \in 0 .. N
    BY <1>1
  <2> HIDE DEF u, L
  <2> QED
    BY <1>7, <1>10, <1>11, <2>1
<1> HIDE DEF u, L
<1>13. \A n \in 0 .. N : f[n] \in Seq(FrozenItem)
  <2> DEFINE T == {n \in Nat : n <= N => f[n] \in Seq(FrozenItem)}
  <2>1. 0 \in T
    <3>1. <<>> \in Seq(FrozenItem) /\ 0 \in Nat
      OBVIOUS
    <3>2. f[0] \in Seq(FrozenItem)
      BY <1>9, <3>1
    <3> QED
      BY <3>1, <3>2
  <2>2. ASSUME NEW n \in T PROVE n + 1 \in T
    <3>1. ASSUME n + 1 <= N PROVE f[n + 1] \in Seq(FrozenItem)
      <4>1. n + 1 \in 1 .. N /\ (n + 1) - 1 = n /\ n <= N
        BY <1>1, <3>1
      <4>2. f[n] \in Seq(FrozenItem)
        BY <4>1
      <4>3. f[n] \o FrozenContent(cs[n + 1]) \in Seq(FrozenItem)
        BY <1>6, <4>1, <4>2, ConcatProperties
      <4> QED
        BY <1>9, <4>1, <4>2, <4>3
    <3> QED
      BY <3>1
  <2>3. T = Nat
    <3>1. T \in SUBSET Nat
      OBVIOUS
    <3> HIDE DEF T
    <3> QED
      BY <2>1, <2>2, <3>1, NumbersByInduction
  <2> QED
    BY <1>1, <2>3
<1>14. ASSUME NEW n \in 1 .. N PROVE f[n] = f[n - 1] \o L[n]
  <2>1. n - 1 \in 0 .. N
    BY <1>1
  <2>2. f[n - 1] \o <<>> = f[n - 1]
    BY <1>13, <2>1, ConcatEmptySeq
  <2> QED
    BY <1>4, <1>9, <1>10, <2>2
<1>15. /\ f[N] \in Seq(FrozenItem) /\ Len(f[N]) = u[N]
       /\ \A i \in 1 .. N : /\ u[i - 1] \in Nat /\ u[i] \in Nat
                            /\ \A j \in 1 .. Len(L[i]) : f[N][u[i - 1] + j] = L[i][j]
  <2>1. PutTogether(f, u, L, N, FrozenItem)
    BY <1>9, <1>10, <1>11, <1>12, <1>14 DEF PutTogether
  <2>2. N \in Nat
    BY <1>1
  <2> QED
    BY ONLY <2>1, <2>2, ZoneHasParts
<1>16. ASSUME NEW i \in I
       PROVE  /\ i \in 1 .. N /\ UsedBy(bm, type, i - 1) \in Nat
              /\ UsedBy(bm, type, i) = UsedBy(bm, type, i - 1) + e[i]
              /\ \A j \in 1 .. e[i] : zone[UsedBy(bm, type, i - 1) + j] = FrozenContent(cs[i])[j]
  <2>1. i \in 1 .. N /\ i \in 0 .. N /\ i - 1 \in 0 .. N
    BY <1>1, <1>4
  <2>2. UsedBy(bm, type, i) = u[i] /\ UsedBy(bm, type, i - 1) = u[i - 1]
    BY <1>5, <1>11, <2>1
  <2>3. L[i] = FrozenContent(cs[i]) /\ Len(L[i]) = e[i]
    BY <1>10, <2>1
  <2>4. u[i] = u[i - 1] + e[i] /\ u[i - 1] \in Nat
    BY <1>12, <1>15, <2>1, <2>3
  <2>5. \A j \in 1 .. e[i] : zone[u[i - 1] + j] = FrozenContent(cs[i])[j]
    BY <1>9, <1>15, <2>1, <2>3
  <2> QED
    BY <2>1, <2>2, <2>4, <2>5
<1>17. UsedBy(bm, type, N) = u[N]
  BY <1>1, <1>5, <1>11
<1> QED
  BY <1>9, <1>15, <1>16, <1>17 DEF I, e, cs

\* As much as the type and the count of a container say that its part of a zone has.
FrozenEntries(c) == IF c.type = "run" THEN FrozenCount(c) ELSE IF c.type = "bitset" THEN 1 ELSE FrozenCount(c) + 1

\* The length of a container's part of its zone, as a reader takes it from the type and the count.
LEMMA FrozenLength ==
  ASSUME NEW bm, NEW V, Represents(bm, V), NEW N, N = Cardinality(DOMAIN bm), NEW i \in 1 .. N,
         NEW c, c = Containers(bm)[i], NEW t, t = FrozenContent(c)
  PROVE  /\ FrozenLengths(bm)[i] = Len(t) /\ Len(t) \in Nat /\ t \in Seq(FrozenItem)
         /\ Len(t) = FrozenEntries(c)
         /\ \/ c.type = "array" /\ c = Array(ToSet(t)) /\ Len(t) = Cardinality(c.values)
            \/ c.type = "bitset" /\ c = Bitset(t[1], FrozenCount(c) + 1) /\ Len(t) = 1
            \/ c.type = "run" /\ c = Run(ToSet(t)) /\ Len(t) = Cardinality(c.runs)
<1> DEFINE S == Chunk(V, SortedKeys(bm)[i])
<1>1. Sound(c, S) /\ S # {}
  BY ContainersInOrder
<1> HIDE DEF S
<1>2. FrozenLengths(bm)[i] = Len(t)
  BY DEF FrozenLengths
<1>3. /\ t \in Seq(FrozenItem) /\ Len(t) \in Nat
      /\ Len(t) = IF c.type = "run" THEN FrozenCount(c) ELSE IF c.type = "bitset" THEN 1 ELSE FrozenCount(c) + 1
      /\ \/ c.type = "array" /\ c = Array(ToSet(t)) /\ Len(t) = Cardinality(c.values)
         \/ c.type = "bitset" /\ c = Bitset(t[1], FrozenCount(c) + 1) /\ Len(t) = 1
         \/ c.type = "run" /\ c = Run(ToSet(t)) /\ Len(t) = Cardinality(c.runs)
  BY <1>1, ContentOfContainer
<1> QED
  BY <1>2, <1>3 DEF FrozenEntries

\* The fields of what is written in the frozen format.
IsFrozen(img, bm, N) ==
  /\ img.bitset_zone = FrozenZone(Containers(bm), "bitset")
  /\ img.run_zone = FrozenZone(Containers(bm), "run")
  /\ img.array_zone = FrozenZone(Containers(bm), "array")
  /\ img.keys = SortedKeys(bm)
  /\ \A i \in 1 .. N : img.counts[i] = FrozenCount(Containers(bm)[i]) /\ img.typecodes[i] = Containers(bm)[i].type

\* roaring_bitmap_frozen_serialize writes them.
LEMMA FrozenFields ==
  ASSUME NEW bm, NEW V, Represents(bm, V), NEW N, N = Cardinality(DOMAIN bm)
  PROVE  IsFrozen(roaring_bitmap_frozen_serialize(bm), bm, N)
<1> DEFINE img == roaring_bitmap_frozen_serialize(bm)
           cs == Containers(bm)
<1>1. Len(cs) = N
  BY ContainersInOrder
<1>2. img = [bitset_zone |-> FrozenZone(cs, "bitset"),
             run_zone |-> FrozenZone(cs, "run"),
             array_zone |-> FrozenZone(cs, "array"),
             keys |-> SortedKeys(bm),
             counts |-> [i \in 1 .. Len(cs) |-> FrozenCount(cs[i])],
             typecodes |-> [i \in 1 .. Len(cs) |-> cs[i].type]]
  BY DEF roaring_bitmap_frozen_serialize
<1> HIDE DEF img, cs
<1>3. /\ img.bitset_zone = FrozenZone(cs, "bitset") /\ img.run_zone = FrozenZone(cs, "run")
      /\ img.array_zone = FrozenZone(cs, "array") /\ img.keys = SortedKeys(bm)
      /\ \A i \in 1 .. N : img.counts[i] = FrozenCount(cs[i]) /\ img.typecodes[i] = cs[i].type
  BY <1>1, <1>2
<1> QED
  BY <1>3 DEF IsFrozen, img, cs

\* What a reader counts of the zones before a container is what the containers before it put there.
LEMMA FrozenUsed ==
  ASSUME NEW bm, NEW V, Represents(bm, V), NEW N, N = Cardinality(DOMAIN bm), NEW img, IsFrozen(img, bm, N), NEW n \in 0 .. N
  PROVE  /\ Cardinality({i \in 1 .. n : img.typecodes[i] = "bitset"}) = UsedBy(bm, "bitset", n)
         /\ \A type \in {"run", "array"} :
              SumFunction([i \in {i \in 1 .. n : img.typecodes[i] = type} |->
                             IF img.typecodes[i] = "run" THEN img.counts[i] ELSE img.counts[i] + 1]) = UsedBy(bm, type, n)
<1> DEFINE e == FrozenLengths(bm)
           c(i) == Containers(bm)[i]
           K(type) == {i \in 1 .. n : img.typecodes[i] = type}
<1>1. N \in Nat
  BY ContainersInOrder
<1>2. \A i \in 1 .. n : i \in 1 .. N
  BY <1>1
<1>3. \A i \in 1 .. N : img.counts[i] = FrozenCount(c(i)) /\ img.typecodes[i] = c(i).type
  BY DEF IsFrozen
<1>4. \A i \in 1 .. N :
        /\ e[i] \in Nat
        /\ e[i] = IF c(i).type = "run" THEN FrozenCount(c(i)) ELSE IF c(i).type = "bitset" THEN 1 ELSE FrozenCount(c(i)) + 1
  <2> TAKE i \in 1 .. N
  <2> DEFINE d == Containers(bm)[i]
             t == FrozenContent(d)
  <2>0. Represents(bm, V) /\ N = Cardinality(DOMAIN bm) /\ i \in 1 .. N /\ d = Containers(bm)[i] /\ t = FrozenContent(d)
    OBVIOUS
  <2> HIDE DEF d, t
  <2>1. FrozenLengths(bm)[i] = Len(t) /\ Len(t) \in Nat
    BY ONLY <2>0, FrozenLength
  <2>3. Len(t) = FrozenEntries(d)
    BY ONLY <2>0, FrozenLength
  <2>2. c(i) = d /\ e[i] = FrozenLengths(bm)[i]
    BY <2>0
  <2> HIDE DEF c, e
  <2> QED
    BY <2>1, <2>2, <2>3 DEF FrozenEntries
<1>5. \A type : K(type) = OfType(bm, type) \cap 1 .. n
  BY <1>2, <1>3 DEF OfType
<1> HIDE DEF e, c
<1>6. \A type : UsedBy(bm, type, n) = SumFunction([i \in K(type) |-> e[i]])
  BY <1>5 DEF UsedBy, PartSum, e
<1>7. \A i \in K("bitset") : e[i] = 1
  BY <1>2, <1>3, <1>4
<1>8. IsFiniteSet(K("bitset"))
  <2>1. IsFiniteSet(1 .. n) /\ K("bitset") \in SUBSET (1 .. n)
    BY <1>1, FS_Interval
  <2> QED
    BY <2>1, FS_Subset
<1>9. Cardinality(K("bitset")) = UsedBy(bm, "bitset", n)
  <2> DEFINE B == K("bitset")
  <2>1. IsFiniteSet(B) /\ \A i \in B : e[i] = 1
    BY <1>7, <1>8
  <2>2. UsedBy(bm, "bitset", n) = SumFunction([i \in B |-> e[i]])
    BY <1>6
  <2> HIDE DEF B
  <2>3. SumFunction([i \in B |-> e[i]]) = Cardinality(B)
    BY ONLY <2>1, OnesAddUp
  <2> QED
    BY <2>2, <2>3 DEF B
<1>10. ASSUME NEW type \in {"run", "array"}
       PROVE  SumFunction([i \in K(type) |-> IF img.typecodes[i] = "run" THEN img.counts[i] ELSE img.counts[i] + 1])
                = UsedBy(bm, type, n)
  <2>1. ASSUME NEW i \in K(type)
        PROVE  (IF img.typecodes[i] = "run" THEN img.counts[i] ELSE img.counts[i] + 1) = e[i]
    BY <1>2, <1>3, <1>4
  <2> DEFINE B == K(type)
             a(i) == IF img.typecodes[i] = "run" THEN img.counts[i] ELSE img.counts[i] + 1
  <2>2. \A i \in B : a(i) = e[i]
    BY <2>1
  <2> HIDE DEF B, a
  <2>3. [i \in B |-> a(i)] = [i \in B |-> e[i]]
    BY <2>2
  <2>4. SumFunction([i \in B |-> a(i)]) = SumFunction([i \in B |-> e[i]])
    BY <2>3
  <2>5. UsedBy(bm, type, n) = SumFunction([i \in B |-> e[i]])
    BY <1>6 DEF B
  <2>6. SumFunction([i \in B |-> a(i)]) = UsedBy(bm, type, n)
    BY <2>4, <2>5
  <2> QED
    BY <2>6 DEF B, a
<1> QED
  BY <1>9, <1>10

\* The size of the frozen format is that of its zones, and of five bytes for each container.
LEMMA FrozenSizeOfZones ==
  ASSUME NEW bm, NEW V, Represents(bm, V), NEW N, N = Cardinality(DOMAIN bm)
  PROVE  /\ UsedBy(bm, "bitset", N) \in Nat /\ UsedBy(bm, "run", N) \in Nat /\ UsedBy(bm, "array", N) \in Nat
         /\ roaring_bitmap_frozen_size_in_bytes(bm) =
              FrozenSize(UsedBy(bm, "bitset", N), UsedBy(bm, "run", N), UsedBy(bm, "array", N), N)
<1> DEFINE S == DOMAIN bm
           s == SortedKeys(bm)
           g == FrozenLengths(bm)
           e == [k \in S |-> Len(FrozenContent(bm[k]))]
           K(type) == {k \in S : bm[k].type = type}
<1>1. /\ N \in Nat /\ S \in SUBSET Int /\ IsFiniteSet(S) /\ IsListOf(s, S)
      /\ \A i \in 1 .. N : s[i] \in S /\ Containers(bm)[i] = bm[s[i]]
      /\ \A k \in S : \E i \in 1 .. N : s[i] = k
  BY ContainersInOrder
<1>2. ASSUME NEW i \in 1 .. N
      PROVE  /\ g[i] = e[s[i]] /\ e[s[i]] \in Nat
             /\ \/ bm[s[i]].type = "array" /\ e[s[i]] = Cardinality(bm[s[i]].values)
                \/ bm[s[i]].type = "bitset" /\ e[s[i]] = 1
                \/ bm[s[i]].type = "run" /\ e[s[i]] = Cardinality(bm[s[i]].runs)
  <2> DEFINE c == Containers(bm)[i]
             t == FrozenContent(c)
  <2>1. /\ g[i] = Len(t) /\ Len(t) \in Nat
        /\ \/ c.type = "array" /\ c = Array(ToSet(t)) /\ Len(t) = Cardinality(c.values)
           \/ c.type = "bitset" /\ c = Bitset(t[1], FrozenCount(c) + 1) /\ Len(t) = 1
           \/ c.type = "run" /\ c = Run(ToSet(t)) /\ Len(t) = Cardinality(c.runs)
    BY FrozenLength
  <2>2. c = bm[s[i]] /\ e[s[i]] = Len(t)
    BY <1>1
  <2> HIDE DEF c, t, e, g
  <2> QED
    BY <2>1, <2>2
<1> HIDE DEF e, g
<1>3. \A k \in S : /\ e[k] \in Nat
                   /\ bm[k].type = "array" => e[k] = Cardinality(bm[k].values)
                   /\ bm[k].type = "bitset" => e[k] = 1
                   /\ bm[k].type = "run" => e[k] = Cardinality(bm[k].runs)
  <2> TAKE k \in S
  <2>1. PICK i \in 1 .. N : s[i] = k
    BY <1>1
  <2> QED
    BY <1>2, <2>1
<1>4. ASSUME NEW type PROVE SumFunction([k \in K(type) |-> e[k]]) = UsedBy(bm, type, N)
  <2> DEFINE J == {i \in 1 .. N : s[i] \in K(type)}
             L == K(type)
  <2>1. L \in SUBSET S /\ \A k \in L : e[k] \in Nat
    BY <1>3
  <2>2. J = {i \in 1 .. N : s[i] \in L} /\ \A i \in J : g[i] = e[s[i]]
    BY <1>2
  <2>3. J = OfType(bm, type)
    BY <1>1 DEF OfType
  <2>4. S \in SUBSET Int /\ IsFiniteSet(S) /\ IsListOf(s, S) /\ N = Cardinality(S)
    BY <1>1
  <2> HIDE DEF L, J, S, s
  <2>5. SumFunction([k \in L |-> e[k]]) = PartSum(g, J, N)
    BY ONLY <2>1, <2>2, <2>4, SumInOrder
  <2> QED
    BY <2>3, <2>5 DEF UsedBy, L, g
<1>5. UsedBy(bm, "bitset", N) \in Nat /\ UsedBy(bm, "run", N) \in Nat /\ UsedBy(bm, "array", N) \in Nat
  <2>1. \A type : OfType(bm, type) \in SUBSET (1 .. N)
    BY DEF OfType
  <2>2. \A i \in 1 .. N : g[i] \in Nat
    BY <1>2
  <2>3. N \in 0 .. N
    BY <1>1
  <2>4. ASSUME NEW type PROVE UsedBy(bm, type, N) \in Nat
    <3> DEFINE I == OfType(bm, type)
    <3>1. N \in Nat /\ I \in SUBSET (1 .. N) /\ \A i \in I : g[i] \in Nat
      BY <1>1, <2>1, <2>2
    <3> HIDE DEF I
    <3>2. GrowsBySummands(g, I, N)
      BY ONLY <3>1, SumsGrow
    <3> QED
      BY <2>3, <3>2 DEF GrowsBySummands, UsedBy, I, g
  <2> QED
    BY <2>4
<1>6. Cardinality(K("bitset")) = UsedBy(bm, "bitset", N)
  <2> DEFINE B == K("bitset")
  <2>1. IsFiniteSet(B)
    <3>1. IsFiniteSet(S) /\ B \in SUBSET S
      BY <1>1
    <3> QED
      BY <3>1, FS_Subset
  <2>2. \A k \in B : e[k] = 1
    BY <1>3
  <2>3. SumFunction([k \in B |-> e[k]]) = UsedBy(bm, "bitset", N)
    BY <1>4
  <2> HIDE DEF B
  <2>4. SumFunction([k \in B |-> e[k]]) = Cardinality(B)
    BY ONLY <2>1, <2>2, OnesAddUp
  <2> QED
    BY <2>3, <2>4 DEF B
<1>7. SumFunction([k \in K("run") |-> Cardinality(bm[k].runs)]) = UsedBy(bm, "run", N)
  <2> DEFINE B == K("run")
  <2>1. \A k \in B : e[k] = Cardinality(bm[k].runs)
    BY <1>3
  <2>2. SumFunction([k \in B |-> e[k]]) = UsedBy(bm, "run", N)
    BY <1>4
  <2> HIDE DEF B
  <2>3. [k \in B |-> e[k]] = [k \in B |-> Cardinality(bm[k].runs)]
    BY <2>1
  <2> QED
    BY <2>2, <2>3 DEF B
<1>8. SumFunction([k \in K("array") |-> Cardinality(bm[k].values)]) = UsedBy(bm, "array", N)
  <2> DEFINE B == K("array")
  <2>1. \A k \in B : e[k] = Cardinality(bm[k].values)
    BY <1>3
  <2>2. SumFunction([k \in B |-> e[k]]) = UsedBy(bm, "array", N)
    BY <1>4
  <2> HIDE DEF B
  <2>3. [k \in B |-> e[k]] = [k \in B |-> Cardinality(bm[k].values)]
    BY <2>1
  <2> QED
    BY <2>2, <2>3 DEF B
<1>9. roaring_bitmap_frozen_size_in_bytes(bm) =
        FrozenSize(Cardinality(K("bitset")),
                   SumFunction([k \in K("run") |-> Cardinality(bm[k].runs)]),
                   SumFunction([k \in K("array") |-> Cardinality(bm[k].values)]),
                   Cardinality(S))
  BY DEF roaring_bitmap_frozen_size_in_bytes
<1> QED
  BY <1>5, <1>6, <1>7, <1>8, <1>9

\* Each container is found where a reader looks for it in its zone.
LEMMA ContainerIsViewed ==
  ASSUME NEW bm, NEW V, Represents(bm, V), NEW N, N = Cardinality(DOMAIN bm), NEW i \in 1 .. N, NEW c, c = Containers(bm)[i]
  PROVE  /\ c.type \in {"bitset", "run", "array"}
         /\ c.type = "bitset" =>
              c = Bitset(FrozenZone(Containers(bm), "bitset")[UsedBy(bm, "bitset", i)], FrozenCount(c) + 1)
         /\ c.type = "run" =>
              c = Run(ToSet(SubSeq(FrozenZone(Containers(bm), "run"), UsedBy(bm, "run", i - 1) + 1, UsedBy(bm, "run", i))))
         /\ c.type = "array" =>
              c = Array(ToSet(SubSeq(FrozenZone(Containers(bm), "array"), UsedBy(bm, "array", i - 1) + 1, UsedBy(bm, "array", i))))
<1> DEFINE t == FrozenContent(c)
           type == c.type
           zone == FrozenZone(Containers(bm), type)
           a == UsedBy(bm, type, i - 1)
           b == UsedBy(bm, type, i)
<1>1. /\ FrozenLengths(bm)[i] = Len(t) /\ Len(t) \in Nat /\ t \in Seq(FrozenItem)
      /\ \/ c.type = "array" /\ c = Array(ToSet(t)) /\ Len(t) = Cardinality(c.values)
         \/ c.type = "bitset" /\ c = Bitset(t[1], FrozenCount(c) + 1) /\ Len(t) = 1
         \/ c.type = "run" /\ c = Run(ToSet(t)) /\ Len(t) = Cardinality(c.runs)
  BY FrozenLength
<1>2. i \in OfType(bm, type)
  BY DEF OfType
<1>3. /\ zone \in Seq(FrozenItem)
      /\ \A k \in OfType(bm, type) :
           /\ UsedBy(bm, type, k - 1) \in Nat
           /\ UsedBy(bm, type, k) = UsedBy(bm, type, k - 1) + FrozenLengths(bm)[k]
           /\ \A j \in 1 .. FrozenLengths(bm)[k] :
                 zone[UsedBy(bm, type, k - 1) + j] = FrozenContent(Containers(bm)[k])[j]
  <2> HIDE DEF type
  <2> QED
    BY ZoneIsFilled
<1>4. a \in Nat /\ b = a + Len(t) /\ \A j \in 1 .. Len(t) : zone[a + j] = t[j]
  <2> HIDE DEF zone, type
  <2> QED
    BY <1>1, <1>2, <1>3
<1> HIDE DEF t, zone, a, b
<1>5. ToSet(SubSeq(zone, a + 1, b)) = ToSet(t)
  <2> DEFINE X == FrozenItem
  <2>1. zone \in Seq(X) /\ t \in Seq(X)
    BY <1>1, <1>3
  <2> HIDE DEF X
  <2> QED
    BY ONLY <2>1, <1>4, SliceHasPart
<1>6. Len(t) = 1 => zone[b] = t[1]
  BY <1>4
<1>7. CASE c.type = "bitset"
  BY <1>1, <1>6, <1>7 DEF zone, b
<1>8. CASE c.type = "run"
  <2>1. c = Run(ToSet(SubSeq(zone, a + 1, b)))
    BY <1>1, <1>5, <1>8
  <2> QED
    BY <1>8, <2>1 DEF zone, a, b
<1>9. CASE c.type = "array"
  <2>1. c = Array(ToSet(SubSeq(zone, a + 1, b)))
    BY <1>1, <1>5, <1>9
  <2> QED
    BY <1>9, <2>1 DEF zone, a, b
<1> QED
  BY <1>1, <1>7, <1>8, <1>9

\* The frozen format is as long as its size, and a view of a bitmap in it has the containers the
\* bitmap had. It is an error if the length is another.
THEOREM FrozenIsReadBack ==
  ASSUME NEW bm, NEW V, Represents(bm, V), NEW img, img = roaring_bitmap_frozen_serialize(bm)
  PROVE  /\ roaring_bitmap_frozen_size_in_bytes(bm) \in Nat /\ roaring_bitmap_frozen_size_in_bytes(bm) >= 4
         /\ \A length : roaring_bitmap_frozen_view(img, length) =
                          IF length # roaring_bitmap_frozen_size_in_bytes(bm) THEN {} ELSE {bm}
<1> DEFINE N == Cardinality(DOMAIN bm)
           of(type, n) == {i \in 1 .. n : img.typecodes[i] = type}
           used(type, n) == SumFunction([i \in of(type, n) |->
                              IF img.typecodes[i] = "run" THEN img.counts[i] ELSE img.counts[i] + 1])
           slice(zone, type, i) == ToSet(SubSeq(zone, used(type, i - 1) + 1, used(type, i)))
           view(i) == CASE img.typecodes[i] = "bitset" ->
                             Bitset(img.bitset_zone[Cardinality(of("bitset", i))], img.counts[i] + 1)
                        [] img.typecodes[i] = "run"   -> Run(slice(img.run_zone, "run", i))
                        [] img.typecodes[i] = "array" -> Array(slice(img.array_zone, "array", i))
           M == Len(img.keys)
           g == [i \in 1 .. M |-> view(i)]
<1>1. N \in Nat /\ Len(SortedKeys(bm)) = N
  BY ContainersInOrder
<1>2. IsFrozen(img, bm, N) /\ Represents(bm, V) /\ N = Cardinality(DOMAIN bm)
  BY FrozenFields
<1>3. /\ img.bitset_zone = FrozenZone(Containers(bm), "bitset")
      /\ img.run_zone = FrozenZone(Containers(bm), "run")
      /\ img.array_zone = FrozenZone(Containers(bm), "array")
      /\ img.keys = SortedKeys(bm) /\ M = N
      /\ \A i \in 1 .. N : img.counts[i] = FrozenCount(Containers(bm)[i]) /\ img.typecodes[i] = Containers(bm)[i].type
  BY <1>1, <1>2 DEF IsFrozen
<1>4. ASSUME NEW n \in 0 .. N
      PROVE  /\ Cardinality(of("bitset", n)) = UsedBy(bm, "bitset", n)
             /\ used("run", n) = UsedBy(bm, "run", n) /\ used("array", n) = UsedBy(bm, "array", n)
  <2> HIDE DEF N
  <2>1. /\ Cardinality({i \in 1 .. n : img.typecodes[i] = "bitset"}) = UsedBy(bm, "bitset", n)
        /\ \A type \in {"run", "array"} :
             SumFunction([i \in {i \in 1 .. n : img.typecodes[i] = type} |->
                            IF img.typecodes[i] = "run" THEN img.counts[i] ELSE img.counts[i] + 1]) = UsedBy(bm, type, n)
    BY ONLY <1>2, <1>4, FrozenUsed
  <2> QED
    BY <2>1
<1>5. \A length : roaring_bitmap_frozen_view(img, length) =
                    IF length # FrozenSize(Cardinality(of("bitset", M)), used("run", M), used("array", M), M)
                    THEN {} ELSE {FromContainers(img.keys, g)}
  BY DEF roaring_bitmap_frozen_view
<1> HIDE DEF N, M, of, used
<1>6. ASSUME NEW i \in 1 .. N PROVE g[i] = Containers(bm)[i]
  <2> DEFINE c == Containers(bm)[i]
             B == FrozenZone(Containers(bm), "bitset")
             R == FrozenZone(Containers(bm), "run")
             A == FrozenZone(Containers(bm), "array")
  <2>1. /\ c.type \in {"bitset", "run", "array"}
        /\ c.type = "bitset" => c = Bitset(B[UsedBy(bm, "bitset", i)], FrozenCount(c) + 1)
        /\ c.type = "run" => c = Run(ToSet(SubSeq(R, UsedBy(bm, "run", i - 1) + 1, UsedBy(bm, "run", i))))
        /\ c.type = "array" => c = Array(ToSet(SubSeq(A, UsedBy(bm, "array", i - 1) + 1, UsedBy(bm, "array", i))))
    BY ContainerIsViewed DEF N
  <2>2. i \in 0 .. N /\ i - 1 \in 0 .. N
    BY <1>1
  <2>3. g[i] = view(i)
    BY <1>3
  <2>4. img.typecodes[i] = c.type /\ img.counts[i] = FrozenCount(c)
    BY <1>3
  <2>5. img.bitset_zone = B /\ img.run_zone = R /\ img.array_zone = A
    BY <1>3
  <2> HIDE DEF c, B, R, A, g
  <2>6. Cardinality(of("bitset", i)) = UsedBy(bm, "bitset", i)
    BY <1>4, <2>2
  <2>7. slice(R, "run", i) = ToSet(SubSeq(R, UsedBy(bm, "run", i - 1) + 1, UsedBy(bm, "run", i)))
    BY <1>4, <2>2
  <2>8. slice(A, "array", i) = ToSet(SubSeq(A, UsedBy(bm, "array", i - 1) + 1, UsedBy(bm, "array", i)))
    BY <1>4, <2>2
  <2> HIDE DEF slice
  <2>9. view(i) = CASE c.type = "bitset" -> Bitset(B[UsedBy(bm, "bitset", i)], FrozenCount(c) + 1)
                    [] c.type = "run"   -> Run(slice(R, "run", i))
                    [] c.type = "array" -> Array(slice(A, "array", i))
    BY <2>4, <2>5, <2>6
  <2> HIDE DEF view
  <2>10. g[i] = c
    BY <2>1, <2>3, <2>7, <2>8, <2>9
  <2> QED
    BY <2>10 DEF c
<1> HIDE DEF g
<1>7. FromContainers(SortedKeys(bm), g) = bm
  BY <1>6, BitmapFromContainers DEF N
<1> DEFINE b == UsedBy(bm, "bitset", N)
           r == UsedBy(bm, "run", N)
           a == UsedBy(bm, "array", N)
<1>8. b \in Nat /\ r \in Nat /\ a \in Nat /\ roaring_bitmap_frozen_size_in_bytes(bm) = FrozenSize(b, r, a, N)
  BY FrozenSizeOfZones DEF N
<1> HIDE DEF b, r, a
<1>9. FrozenSize(b, r, a, N) \in Nat /\ FrozenSize(b, r, a, N) >= 4
  <2> DEFINE B == bitset_container_serialized_size_in_bytes
             p == B * b
             q == RunBytes * r
             o == ValueBytes * a
  <2>1. B \in Nat /\ RunBytes \in Nat /\ ValueBytes \in Nat
    BY ContainerConstants DEF bitset_container_serialized_size_in_bytes
  <2> HIDE DEF B
  <2>2. p \in Nat /\ q \in Nat /\ o \in Nat
    BY <1>8, <2>1
  <2>3. FrozenSize(b, r, a, N) = p + q + o + 5 * N + 4
    BY DEF FrozenSize, B
  <2> HIDE DEF p, q, o
  <2> QED
    BY <1>1, <2>2, <2>3
<1>10. FrozenSize(Cardinality(of("bitset", M)), used("run", M), used("array", M), M) = FrozenSize(b, r, a, N)
  <2>1. M = N /\ N \in 0 .. N
    BY <1>1, <1>3
  <2> QED
    BY <1>4, <2>1 DEF b, r, a
<1>11. \A length : roaring_bitmap_frozen_view(img, length) =
                     IF length # roaring_bitmap_frozen_size_in_bytes(bm) THEN {} ELSE {bm}
  BY <1>3, <1>5, <1>7, <1>8, <1>10
<1> QED
  BY <1>8, <1>9, <1>11

-----------------------------------------------------------------------------
(* The formats of the addon.                                                *)

\* A bitmap made from the array of the values of another has its values.
LEMMA ArrayIsReadBack ==
  ASSUME NEW bm, NEW V, Represents(bm, V), NEW s, s = roaring_bitmap_to_uint32_array(bm)
  PROVE  /\ Cardinality(V) \in Nat /\ SubSeq(s, 1, Cardinality(V)) = s
         /\ Represents(roaring_bitmap_add_many(Empty, s), V)
<1>1. V \in SUBSET Value
  BY BitmapHas
<1>2. V \in SUBSET Int /\ IsFiniteSet(V)
  <2>1. Value \in SUBSET Int
    BY DEF Value
  <2> QED
    BY <1>1, <2>1, ValuesAreFinite
<1>3. s = Ascending(V)
  BY ArrayIsAscending
<1>4. IsListOf(s, V)
  BY <1>2, <1>3, AscendingLists
<1>5. /\ s \in Seq(V) /\ Len(s) = Cardinality(V) /\ DOMAIN s = 1 .. Cardinality(V) /\ Len(s) \in Nat
      /\ \A i \in 1 .. Cardinality(V) : s[i] \in V
      /\ \A v \in V : Cardinality(Before(V, v)) + 1 \in 1 .. Cardinality(V) /\ s[Cardinality(Before(V, v)) + 1] = v
  BY <1>2, <1>4, ListsHave
<1>6. ToSet(s) = V
  <2>1. ToSet(s) = {s[i] : i \in 1 .. Cardinality(V)}
    BY <1>5 DEF ToSet
  <2>2. \A v : v \in {s[i] : i \in 1 .. Cardinality(V)} <=> v \in V
    BY <1>5, Zenon
  <2> QED
    BY <2>1, <2>2
<1>7. s \in Seq(Value)
  BY <1>1, <1>5, SeqMonotonic
<1>8. Represents(roaring_bitmap_add_many(Empty, s), {} \cup ToSet(s))
  BY <1>7, EmptyBitmap, ValuesAdded
<1>9. {} \cup ToSet(s) = V
  BY <1>6
<1>10. SubSeq(s, 1, Len(s)) = s
  BY <1>5
<1> QED
  BY <1>5, <1>8, <1>9, <1>10

\* The formats that store containers give the bitmap back with the containers it had, all of them give
\* back its values, none of them reads a buffer that is a byte short as something else.
THEOREM FormatsAreReadBack ==
  ASSUME NEW bm, NEW V, Represents(bm, V)
  PROVE  LET written(format) == serializeToBuffer(bm, format)
             size(format) == computeSerializedSize(bm, format)
             back(format, missing) == deserializeBuf(written(format), size(format) - missing, format)
         IN  /\ back("portable", 0) = {bm} /\ back("portable", 1) = {}
             /\ written("portable").bytes = size("portable")
             /\ deserializeBuf(written("portable"), size("portable"), "unsafe_frozen_portable") = {bm}
             /\ back("unsafe_frozen_croaring", 0) = {bm} /\ back("unsafe_frozen_croaring", 1) = {}
             /\ back("croaring", 0) # {} /\ back("croaring", 1) = {}
             /\ \A x \in back("croaring", 0) : Represents(x, V)
             /\ back("uint32_array", 0) # {} /\ (size("uint32_array") > 0 => back("uint32_array", 1) = {})
             /\ \A x \in back("uint32_array", 0) : Represents(x, V)
<1> DEFINE written(format) == serializeToBuffer(bm, format)
           size(format) == computeSerializedSize(bm, format)
           back(format, missing) == deserializeBuf(written(format), size(format) - missing, format)
           P == ra_portable_serialize(bm)
           p == roaring_bitmap_portable_size_in_bytes(bm)
           F == roaring_bitmap_frozen_serialize(bm)
           f == roaring_bitmap_frozen_size_in_bytes(bm)
           s == roaring_bitmap_to_uint32_array(bm)
           c == Cardinality(V)
           A == roaring_bitmap_add_many(Empty, s)
<1>1. /\ \A maxbytes : ra_portable_deserialize(P, maxbytes) = IF p > maxbytes THEN {} ELSE {bm}
      /\ roaring_bitmap_portable_deserialize_frozen(P) = {bm} /\ P.bytes = p
  BY PortableIsReadBack
<1>2. p \in Nat /\ p > 1
  BY ContainersFollow
<1>3. /\ f \in Nat /\ f >= 4
      /\ \A length : roaring_bitmap_frozen_view(F, length) = IF length # f THEN {} ELSE {bm}
  BY FrozenIsReadBack
<1>4. c \in Nat /\ SubSeq(s, 1, c) = s /\ Represents(A, V)
  BY ArrayIsReadBack
<1>5. roaring_bitmap_get_cardinality(bm) = c
  BY CardinalityIsRight
<1>6. written("portable") = P /\ size("portable") = p
  BY DEF serializeToBuffer, computeSerializedSize
<1>7. written("unsafe_frozen_croaring") = F /\ size("unsafe_frozen_croaring") = f
  BY DEF serializeToBuffer, computeSerializedSize
<1>8. written("uint32_array") = s /\ size("uint32_array") = 4 * c
  BY <1>5 DEF serializeToBuffer, computeSerializedSize
<1>9. ASSUME SerializesArray(bm)
      PROVE  /\ written("croaring") = [tag |-> "CROARING_SERIALIZATION_ARRAY_UINT32", card |-> c, elems |-> s]
             /\ size("croaring") = 4 * c + 4 + 1
  BY <1>5, <1>9 DEF serializeToBuffer, computeSerializedSize
<1>10. ASSUME ~ SerializesArray(bm)
       PROVE  /\ written("croaring") = [tag |-> "CROARING_SERIALIZATION_CONTAINER", portable |-> P]
              /\ size("croaring") = p + 1
  BY <1>10 DEF serializeToBuffer, computeSerializedSize
<1> HIDE DEF written, size, P, p, F, f, s, c, A
<1>11. p - 0 = p /\ p - 0 > 0 /\ p - 1 > 0 /\ p > p - 1 /\ ~ (p > p) /\ p - 0 # 0 /\ p - 1 # 0 /\ p > 0 /\ p # 0
  BY <1>2
<1>12. back("portable", 0) = {bm} /\ back("portable", 1) = {}
  BY <1>1, <1>6, <1>11 DEF deserializeBuf
<1>13. deserializeBuf(written("portable"), size("portable"), "unsafe_frozen_portable") = {bm}
  BY <1>1, <1>6, <1>11 DEF deserializeBuf
<1>14. back("unsafe_frozen_croaring", 0) = {bm} /\ back("unsafe_frozen_croaring", 1) = {}
  <2>1. f - 0 = f /\ f - 0 > 0 /\ f - 1 > 0 /\ f - 1 # f /\ f - 0 # 0 /\ f - 1 # 0
    BY <1>3
  <2> QED
    BY <1>3, <1>7, <2>1 DEF deserializeBuf
<1>15. back("croaring", 0) \in {{bm}, {A}} /\ back("croaring", 1) = {}
  <2>1. CASE SerializesArray(bm)
    <3> DEFINE b == 4 * c + 4 + 1
               w == [tag |-> "CROARING_SERIALIZATION_ARRAY_UINT32", card |-> c, elems |-> s]
    <3>1. b - 0 = b /\ b - 0 > 0 /\ b - 1 > 0 /\ b - 1 # b /\ b - 0 # 0 /\ b - 1 # 0
      BY <1>4
    <3>2. written("croaring") = w /\ size("croaring") = b
      BY <1>9, <2>1
    <3>3. w.tag # "CROARING_SERIALIZATION_CONTAINER" /\ 4 * w.card + 4 + 1 = b /\ roaring_bitmap_add_many(Empty, w.elems) = A
      BY DEF A
    <3> HIDE DEF b, w
    <3>4. deserializeBuf(w, b, "croaring") = {A}
      BY <3>1, <3>3 DEF deserializeBuf
    <3>5. deserializeBuf(w, b - 1, "croaring") = {}
      BY <3>1, <3>3 DEF deserializeBuf
    <3> QED
      BY <3>1, <3>2, <3>4, <3>5
  <2>2. CASE ~ SerializesArray(bm)
    <3> DEFINE b == p + 1
               w == [tag |-> "CROARING_SERIALIZATION_CONTAINER", portable |-> P]
    <3>1. b - 0 = b /\ b > 0 /\ b - 1 > 0 /\ b # 0 /\ b - 1 # 0 /\ ~ (p > b - 1) /\ p > b - 1 - 1
      BY <1>2
    <3>2. written("croaring") = w /\ size("croaring") = b
      BY <1>10, <2>2
    <3>3. w.tag = "CROARING_SERIALIZATION_CONTAINER" /\ w.portable = P
      OBVIOUS
    <3> HIDE DEF b, w
    <3>4. deserializeBuf(w, b, "croaring") = {bm}
      BY <1>1, <3>1, <3>3 DEF deserializeBuf
    <3>5. deserializeBuf(w, b - 1, "croaring") = {}
      BY <1>1, <3>1, <3>3 DEF deserializeBuf
    <3> QED
      BY <3>1, <3>2, <3>4, <3>5
  <2> QED
    BY <2>1, <2>2
<1>16. back("uint32_array", 0) \in {{Empty}, {A}} /\ (back("uint32_array", 0) = {Empty} => c = 0 \/ A = Empty)
  <2> DEFINE b == 4 * c
  <2>1. b \in Nat /\ b - 0 = b /\ b % 4 = 0 /\ b \div 4 = c /\ (b = 0 => c = 0) /\ (b # 0 => b > 0)
    BY <1>4
  <2>2. back("uint32_array", 0) = deserializeBuf(s, b, "uint32_array")
    BY <1>8, <2>1
  <2> HIDE DEF b, back
  <2>3. CASE b = 0
    <3>1. deserializeBuf(s, b, "uint32_array") = {Empty}
      BY <2>3 DEF deserializeBuf
    <3> QED
      BY <2>1, <2>2, <2>3, <3>1
  <2>4. CASE b # 0
    <3>1. deserializeBuf(s, b, "uint32_array") = {roaring_bitmap_add_many(Empty, SubSeq(s, 1, b \div 4))}
      BY <2>1, <2>4 DEF deserializeBuf
    <3>2. deserializeBuf(s, b, "uint32_array") = {A}
      BY <1>4, <2>1, <3>1 DEF A
    <3> QED
      BY <2>2, <3>2
  <2> QED
    BY <2>3, <2>4
<1>17. ASSUME size("uint32_array") > 0 PROVE back("uint32_array", 1) = {}
  <2> DEFINE b == 4 * c - 1
  <2>1. b > 0 /\ b # 0 /\ b % 4 # 0
    <3>1. 4 * c > 0
      BY <1>8, <1>17
    <3> QED
      BY <1>4, <3>1
  <2>2. back("uint32_array", 1) = deserializeBuf(s, b, "uint32_array")
    BY <1>8
  <2> HIDE DEF b, back
  <2>3. deserializeBuf(s, b, "uint32_array") = {}
    BY <2>1 DEF deserializeBuf
  <2> QED
    BY <2>2, <2>3
<1>18. ASSUME c = 0 PROVE Represents(Empty, V)
  <2>1. V \in SUBSET Value
    BY BitmapHas
  <2>2. IsFiniteSet(V)
    BY <2>1, ValuesAreFinite
  <2>3. V = {}
    BY <1>18, <2>2, FS_EmptySet DEF c
  <2> QED
    BY <2>3, EmptyBitmap
<1> HIDE DEF back
<1>19. /\ \A x \in back("croaring", 0) : Represents(x, V)
       /\ \A x \in back("uint32_array", 0) : Represents(x, V)
  BY <1>4, <1>15, <1>16, <1>18
<1>20. back("croaring", 0) # {} /\ back("uint32_array", 0) # {}
  BY <1>15, <1>16
<1>21. written("portable").bytes = size("portable")
  BY <1>1, <1>6
<1>22. /\ back("portable", 0) = {bm} /\ back("portable", 1) = {}
       /\ written("portable").bytes = size("portable")
       /\ deserializeBuf(written("portable"), size("portable"), "unsafe_frozen_portable") = {bm}
       /\ back("unsafe_frozen_croaring", 0) = {bm} /\ back("unsafe_frozen_croaring", 1) = {}
       /\ back("croaring", 0) # {} /\ back("croaring", 1) = {}
       /\ \A x \in back("croaring", 0) : Represents(x, V)
       /\ back("uint32_array", 0) # {} /\ (size("uint32_array") > 0 => back("uint32_array", 1) = {})
       /\ \A x \in back("uint32_array", 0) : Represents(x, V)
  BY <1>12, <1>13, <1>14, <1>15, <1>17, <1>19, <1>20, <1>21
<1> QED
  BY <1>22, Zenon DEF back, written, size

==============================================================================
