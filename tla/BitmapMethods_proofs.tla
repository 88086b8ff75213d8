------------------------ MODULE BitmapMethods_proofs -------------------------
(****************************************************************************)
(* Theorems about the methods of RoaringBitmap32 that change a bitmap or make*)
(* one, for any arguments and operands: each leaves a bitmap in the form that*)
(* the library relies on, and does to its values, and answers, what IntegerSet*)
(* promises.                                                                *)
(****************************************************************************)
EXTENDS BitmapQueries, Roaring_proofs

-----------------------------------------------------------------------------
(* What the invariants say of a bitmap.                                     *)

\* A bitmap of the right types that the library accepts stands for its values.
LEMMA ValidStands ==
  ASSUME NEW x
  PROVE  IsContainers(x) /\ roaring_bitmap_internal_validate(x) <=> Represents(x, Values(x))
<1>1. ASSUME IsContainers(x), roaring_bitmap_internal_validate(x) PROVE Represents(x, Values(x))
  <2>1. x = [k \in DOMAIN x |-> x[k]] /\ \A k \in DOMAIN x : x[k] \in ContainerForms
    BY <1>1 DEF IsContainers, Container, ContainerForms
  <2> QED
    BY <1>1, <2>1, ValidIsBitmap
<1>2. ASSUME Represents(x, Values(x)) PROVE IsContainers(x) /\ roaring_bitmap_internal_validate(x)
  <2>1. roaring_bitmap_internal_validate(x) /\ \A k \in DOMAIN x : k \in Key /\ x[k] \in ContainerForms
    BY <1>2, BitmapIsValid
  <2>2. x = [k \in DOMAIN x |-> x[k]]
    BY <1>2, BitmapHas
  <2>3. IsContainers(x)
    BY <2>1, <2>2 DEF IsContainers, Container, ContainerForms
  <2> QED
    BY <2>1, <2>3
<1> QED
  BY <1>1, <1>2

\* The width of the integers.
LEMMA WidthIsANumber ==
  LET W == UINT32_MAX + 1
  IN W \in Nat \ {0} /\ Value = 0 .. W - 1 /\ Promise!Integer = Value /\ UINT32_MAX \in Nat /\ \A v \in Value : v \in Int
<1>1. ChunkSize \in Nat \ {0} /\ KeyCount \in Nat \ {0}
  BY ContainerConstants, KeyConstants
<1>2. KeyCount * ChunkSize \in Nat \ {0}
  BY <1>1
<1>3. UINT32_MAX = KeyCount * ChunkSize - 1
  BY DEF UINT32_MAX
<1>4. Value = 0 .. UINT32_MAX
  BY DEF Value
<1> QED
  BY <1>2, <1>3, <1>4 DEF Promise!Integer

-----------------------------------------------------------------------------
(* What the promise says of each method.                                    *)

\* The operators that IntegerSet extends are those that BitmapMethods extends.
LEMMA SameOperators ==
  /\ \A S : Promise!Cardinality(S) = Cardinality(S)
  /\ \A s : Promise!ToSet(s) = ToSet(s)
  /\ \A S : Promise!Min(S) = Min(S)
  /\ \A S, T : Promise!SymDiff(S, T) = SymDiff(S, T)
  /\ \A n : Promise!IsNumber(n) = IsNumber(n)
  /\ \A n : Promise!Truncated(n) = Truncated(n)
<1>1. \A S : Promise!Cardinality(S) = Cardinality(S)
  BY Zenon DEF Promise!Cardinality, Cardinality
<1>2. \A s : Promise!ToSet(s) = ToSet(s)
  BY DEF Promise!ToSet, ToSet
<1>3. \A S : Promise!Min(S) = Min(S)
  BY Zenon DEF Promise!Min, Min
<1>4. \A S, T : Promise!SymDiff(S, T) = SymDiff(S, T)
  BY DEF Promise!SymDiff, SymDiff
<1>5. \A n : Promise!IsNumber(n) = IsNumber(n)
  BY DEF Promise!IsNumber, IsNumber
<1>6. \A n : Promise!Truncated(n) = Truncated(n)
  BY DEF Promise!Truncated, Truncated
<1> QED
  BY <1>1, <1>2, <1>3, <1>4, <1>5, <1>6

\* What IntegerSet promises of numbers.
LEMMA PromisedArguments ==
  ASSUME NEW S, NEW c
  PROVE  /\ c.op \in {"add", "tryAdd"} => Promise!After(S, c) = S \cup Promise!Integers(c.args)
         /\ c.op = "remove" => Promise!After(S, c) = S \ Promise!Integers(c.args)
         /\ c.op = "addMany" => Promise!After(S, c) = S \cup Promise!Elements(c.args)
         /\ c.op = "removeMany" => Promise!After(S, c) = S \ Promise!Elements(c.args)
         /\ c.op = "copyElements" => Promise!After(S, c) = Promise!Elements(c.args)
  BY DEF Promise!After

\* What IntegerSet promises of ranges.
LEMMA PromisedRanges ==
  ASSUME NEW S, NEW c
  PROVE  /\ c.op = "addRange" => Promise!After(S, c) = S \cup Promise!Between(c.args[1], c.args[2])
         /\ c.op = "removeRange" => Promise!After(S, c) = S \ Promise!Between(c.args[1], c.args[2])
         /\ c.op = "flipRange" => Promise!After(S, c) = SymDiff(S, Promise!Between(c.args[1], c.args[2]))
         /\ c.op = "fromRange" => Promise!After(S, c) = Promise!Stepped(Promise!Between(c.args[1], c.args[2]), c.args[3])
         /\ c.op = "addOffset" => Promise!After(S, c) = Promise!Moved(S, c.args)
<1>1. c.op = "addRange" => Promise!After(S, c) = S \cup Promise!Between(c.args[1], c.args[2])
  BY DEF Promise!After
<1>2. c.op = "removeRange" => Promise!After(S, c) = S \ Promise!Between(c.args[1], c.args[2])
  BY DEF Promise!After
<1>3. c.op = "flipRange" => Promise!After(S, c) = SymDiff(S, Promise!Between(c.args[1], c.args[2]))
  BY DEF Promise!After, SymDiff, Promise!SymDiff
<1>4. c.op = "fromRange" => Promise!After(S, c) = Promise!Stepped(Promise!Between(c.args[1], c.args[2]), c.args[3])
  BY DEF Promise!After
<1>5. c.op = "addOffset" => Promise!After(S, c) = Promise!Moved(S, c.args)
  BY DEF Promise!After
<1> QED
  BY <1>1, <1>2, <1>3, <1>4, <1>5

\* What IntegerSet promises of other bitmaps.
LEMMA PromisedBitmaps ==
  ASSUME NEW S, NEW c
  PROVE  /\ c.op = "copyFrom" => Promise!After(S, c) = c.args
         /\ c.op \in {"addBitmap", "or"} => Promise!After(S, c) = S \cup c.args
         /\ c.op \in {"andInPlace", "and"} => Promise!After(S, c) = S \cap c.args
         /\ c.op \in {"xorInPlace", "xor"} => Promise!After(S, c) = SymDiff(S, c.args)
         /\ c.op \in {"removeBitmap", "andNot"} => Promise!After(S, c) = S \ c.args
         /\ c.op = "andNotOf" => Promise!After(S, c) = c.args \ S
         /\ c.op = "orMany" => Promise!After(S, c) = UNION ToSet(c.args)
         /\ c.op = "xorMany" => Promise!After(S, c) =
              {v \in UNION ToSet(c.args) : Cardinality({i \in DOMAIN c.args : v \in c.args[i]}) % 2 = 1}
<1>1. c.op = "copyFrom" => Promise!After(S, c) = c.args
  BY DEF Promise!After
<1>2. c.op \in {"addBitmap", "or"} => Promise!After(S, c) = S \cup c.args
  BY DEF Promise!After
<1>3. c.op \in {"andInPlace", "and"} => Promise!After(S, c) = S \cap c.args
  BY DEF Promise!After
<1>4. c.op \in {"xorInPlace", "xor"} => Promise!After(S, c) = SymDiff(S, c.args)
  BY DEF Promise!After, SymDiff, Promise!SymDiff
<1>5. c.op \in {"removeBitmap", "andNot"} => Promise!After(S, c) = S \ c.args
  BY DEF Promise!After
<1>6. c.op = "andNotOf" => Promise!After(S, c) = c.args \ S
  BY DEF Promise!After
<1>7. c.op = "orMany" => Promise!After(S, c) = UNION ToSet(c.args)
  BY DEF Promise!After, ToSet, Promise!ToSet
<1>8. c.op = "xorMany" => Promise!After(S, c) = {v \in UNION ToSet(c.args) : Cardinality({i \in DOMAIN c.args : v \in c.args[i]}) % 2 = 1}
  BY SameOperators DEF Promise!After
<1> QED
  BY <1>1, <1>2, <1>3, <1>4, <1>5, <1>6, <1>7, <1>8

\* What IntegerSet promises of the methods without arguments.
LEMMA PromisedEnds ==
  ASSUME NEW S, NEW c
  PROVE  /\ c.op = "pop" => Promise!After(S, c) = S \ {v \in S : \A w \in S : w <= v}
         /\ c.op = "shift" => Promise!After(S, c) = S \ {v \in S : \A w \in S : w >= v}
         /\ c.op = "clear" => Promise!After(S, c) = {}
         /\ c.op \in {"runOptimize", "removeRunCompression"} => Promise!After(S, c) = S
  BY DEF Promise!After

\* What IntegerSet promises to answer.
LEMMA PromisedAnswers ==
  ASSUME NEW S, NEW c
  PROVE  /\ c.op = "tryAdd" => Promise!Answers(S, c) = {{Promise!Integers(c.args) \ S # {}}}
         /\ c.op = "remove" => Promise!Answers(S, c) = {{Promise!Integers(c.args) \cap S # {}}}
         /\ c.op = "pop" => Promise!Answers(S, c) = {{v \in S : \A w \in S : w <= v}}
         /\ c.op = "shift" => Promise!Answers(S, c) = {{v \in S : \A w \in S : w >= v}}
         /\ c.op = "clear" => Promise!Answers(S, c) = {{S # {}}}
         /\ c.op \in {"runOptimize", "removeRunCompression"} => Promise!Answers(S, c) = {{TRUE}, {FALSE}}
         /\ c.op \notin {"tryAdd", "remove", "pop", "shift", "clear", "runOptimize", "removeRunCompression"} =>
              Promise!Answers(S, c) = {Nothing}
  BY DEF Promise!Answers, Promise!Nothing, Nothing

\* The answer of pop.
LEMMA PromisedPop ==
  ASSUME NEW S, NEW c, c.op = "pop"
  PROVE  Promise!Answers(S, c) = {{v \in S : \A w \in S : w <= v}}
  BY DEF Promise!Answers

\* The answer of shift.
LEMMA PromisedShift ==
  ASSUME NEW S, NEW c, c.op = "shift"
  PROVE  Promise!Answers(S, c) = {{v \in S : \A w \in S : w >= v}}
  BY DEF Promise!Answers

\* Methods that promise no answer.
LEMMA NothingPromised ==
  ASSUME NEW S, NEW c, c.op \in {"addMany", "fromRange", "orMany", "xorMany"}
  PROVE  Promise!Answers(S, c) = {Nothing}
  BY DEF Promise!Answers, Promise!Nothing, Nothing

-----------------------------------------------------------------------------
(* Arguments.                                                               *)

\* Halves are rounded to integers.
LEMMA Halved ==
  ASSUME NEW n \in Int
  PROVE  /\ Truncated(n) \in Int /\ ceil(n) \in Int
         /\ \A v \in Int : (2 * v >= n <=> v >= ceil(n)) /\ (2 * v < n <=> v < ceil(n))
         /\ n <= 0 => ceil(n) <= 0
         /\ n > 0 => ceil(n) > 0
         /\ n >= 0 => ceil(n) >= 0
<1>1. Truncated(n) \in Int
  BY DEF Truncated
<1> DEFINE c == ceil(n)
<1>2. c \in Int /\ 2 * c >= n /\ 2 * c <= n + 1
  BY DEF ceil
<1> HIDE DEF c
<1>3. /\ \A v \in Int : (2 * v >= n <=> v >= c) /\ (2 * v < n <=> v < c)
      /\ n <= 0 => c <= 0
      /\ n > 0 => c > 0
      /\ n >= 0 => c >= 0
  BY <1>2
<1> QED
  BY <1>1, <1>2, <1>3 DEF c

\* A JavaScript number is an integer or one of two others.
LEMMA NumbersAre ==
  ASSUME NEW n \in Number
  PROVE  /\ IsNumber(n) <=> n \in Int
         /\ NaN \notin Int /\ Undefined \notin Int /\ NaN # Undefined
         /\ ~ IsNumber(n) => n \in {NaN, Undefined}
  BY ArgumentAssumption DEF ArgumentAssumption, Number, IsNumber

\* A value to add or to remove is the integer of the argument, if it is one.
LEMMA ValueOfArgument ==
  ASSUME NEW n \in Number
  PROVE  /\ v8ValueToUint32Fast(n) = {Truncated(m) : m \in {x \in {n} : IsNumber(x)}} \cap Value
         /\ v8ValueToUint32Fast(n) = {} \/ \E v \in Value : v8ValueToUint32Fast(n) = {v}
<1>1. \A v : v \in Value <=> v \in Int /\ 0 <= v /\ v <= UINT32_MAX
  BY WidthIsANumber DEF Value
<1>2. CASE IsNumber(n)
  <2>1. Truncated(n) \in Int
    BY <1>2, NumbersAre, Halved
  <2>2. {n} \ {NaN, Undefined} = {n} /\ {x \in {n} : IsNumber(x)} = {n}
    BY <1>2 DEF IsNumber
  <2>3. v8ValueToUint32Fast(n) = {v \in {Truncated(n)} : 0 <= v /\ v <= UINT32_MAX}
    BY <2>2 DEF v8ValueToUint32Fast
  <2>4. v8ValueToUint32Fast(n) = {Truncated(n)} \cap Value
    BY <1>1, <2>1, <2>3
  <2>5. {Truncated(m) : m \in {n}} = {Truncated(n)}
    OBVIOUS
  <2> QED
    BY <2>2, <2>4, <2>5
<1>3. CASE ~ IsNumber(n)
  <2>1. {n} \ {NaN, Undefined} = {} /\ {x \in {n} : IsNumber(x)} = {}
    BY <1>3 DEF IsNumber
  <2>2. v8ValueToUint32Fast(n) = {}
    BY <2>1 DEF v8ValueToUint32Fast
  <2> QED
    BY <2>1, <2>2
<1> QED
  BY <1>2, <1>3

\* The integers of a list of arguments.
LEMMA IntegersOfList ==
  ASSUME NEW args \in Seq(Number)
  PROVE  Promise!Integers(args) = UNION {v8ValueToUint32Fast(args[i]) : i \in 1 .. Len(args)}
<1>1. \A n : n \in ToSet(args) <=> \E i \in 1 .. Len(args) : n = args[i]
  BY DEF ToSet
<1>2. \A i \in 1 .. Len(args) : args[i] \in Number
  OBVIOUS
<1>3. Promise!Integers(args) = {Truncated(n) : n \in {m \in ToSet(args) : IsNumber(m)}} \cap Value
  BY SameOperators, WidthIsANumber DEF Promise!Integers
<1>4. \A n \in Number : \A v : v \in v8ValueToUint32Fast(n) <=> IsNumber(n) /\ v = Truncated(n) /\ v \in Value
  <2> TAKE n \in Number
  <2>1. v8ValueToUint32Fast(n) = {Truncated(m) : m \in {x \in {n} : IsNumber(x)}} \cap Value
    BY ValueOfArgument
  <2> QED
    BY <2>1
<1>5. \A v : v \in Promise!Integers(args) <=> \E i \in 1 .. Len(args) : IsNumber(args[i]) /\ v = Truncated(args[i]) /\ v \in Value
  BY <1>1, <1>3
<1> QED
  BY <1>2, <1>4, <1>5

\* The elements of a typed array are values, and those that are promised.
LEMMA ElementsOfList ==
  ASSUME NEW list \in Seq(Number)
  PROVE  TypedArray(list) \in Seq(Value) /\ ToSet(TypedArray(list)) = Promise!Elements(list)
<1> DEFINE W == UINT32_MAX + 1
           el(n) == IF IsNumber(n) THEN Truncated(n) % W ELSE 0
<1>1. W \in Nat \ {0} /\ Value = 0 .. W - 1
  BY WidthIsANumber
<1> HIDE DEF W
<1>2. \A n \in Number : el(n) \in Value
  <2> TAKE n \in Number
  <2>1. CASE IsNumber(n)
    <3>1. Truncated(n) \in Int
      BY <2>1, NumbersAre, Halved
    <3>2. Truncated(n) % W \in Value
      BY <1>1, <3>1
    <3> QED
      BY <2>1, <3>2
  <2>2. CASE ~ IsNumber(n)
    BY <1>1, <2>2
  <2> QED
    BY <2>1, <2>2
<1>3. DOMAIN list = 1 .. Len(list) /\ Len(list) \in Nat /\ \A i \in 1 .. Len(list) : list[i] \in Number
  OBVIOUS
<1>4. TypedArray(list) = [i \in 1 .. Len(list) |-> el(list[i])]
  BY <1>3 DEF TypedArray, W
<1>5. Promise!Elements(list) = {el(n) : n \in ToSet(list)}
  BY SameOperators DEF Promise!Elements, W
<1> HIDE DEF el
<1>6. TypedArray(list) \in Seq(Value)
  BY <1>2, <1>3, <1>4
<1>7. DOMAIN TypedArray(list) = 1 .. Len(list) /\ \A i \in 1 .. Len(list) : TypedArray(list)[i] = el(list[i])
  BY <1>3, <1>4
<1>8. ToSet(TypedArray(list)) = Promise!Elements(list)
  BY <1>3, <1>5, <1>7 DEF ToSet
<1> QED
  BY <1>6, <1>8

-----------------------------------------------------------------------------
(* Ranges, steps and offsets.                                               *)

IsRange(r, B) ==
    IF r.valid
    THEN r.first \in Value /\ r.end - 1 \in Value /\ r.end \in Nat /\ r.first <= r.end - 1 /\ B = r.first .. r.end - 1
    ELSE B = {}

\* The parameters of a range operation are the ends of the range that is promised.
LEMMA RangeOfArguments ==
  ASSUME NEW args \in Number \X Number
  PROVE  IsRange(getRangeOperationParameters(args), Promise!Between(args[1], args[2]))
<1> DEFINE W == UINT32_MAX + 1
           minimum == IF args[1] = Undefined THEN 0 ELSE args[1]
           maximum == IF args[2] = Undefined THEN 2 * W ELSE args[2]
           first == ceil(Max({minimum, 0}))
           end == Min({ceil(maximum), W})
           none == NaN \in {minimum, maximum} \/ minimum > 2 * UINT32_MAX \/ maximum <= 0 \/ first >= end
           B == Promise!Between(args[1], args[2])
           r == getRangeOperationParameters(args)
<1>0. r = IF none THEN [valid |-> FALSE] ELSE [valid |-> TRUE, first |-> first, end |-> end]
  BY Zenon DEF getRangeOperationParameters
<1>1. W \in Nat \ {0} /\ Value = 0 .. W - 1 /\ UINT32_MAX = W - 1
  <2>1. UINT32_MAX \in Nat
    BY WidthIsANumber
  <2> QED
    BY <2>1, WidthIsANumber
<1>2. args[1] \in Number /\ args[2] \in Number /\ NaN \notin Int /\ Undefined \notin Int /\ NaN # Undefined
  BY NumbersAre
<1>3. B = {v \in Value : /\ NaN \notin {args[1], args[2]}
                         /\ args[1] # Undefined => 2 * v >= args[1]
                         /\ args[2] # Undefined => 2 * v < args[2]}
  BY WidthIsANumber DEF Promise!Between
<1> HIDE DEF B
<1>4. NaN \in {minimum, maximum} <=> NaN \in {args[1], args[2]}
  <2>1. minimum = NaN <=> args[1] = NaN
    BY <1>2
  <2>2. maximum = NaN <=> args[2] = NaN
    BY <1>1, <1>2
  <2> QED
    BY <2>1, <2>2
<1> HIDE DEF W
<1>5. CASE NaN \in {args[1], args[2]}
  <2>1. none
    BY <1>4, <1>5
  <2> HIDE DEF none
  <2>2. r = [valid |-> FALSE]
    BY <1>0, <2>1
  <2>3. B = {}
    BY <1>3, <1>5
  <2> HIDE DEF r
  <2> QED
    BY <2>2, <2>3 DEF IsRange, B, r
<1>6. CASE NaN \notin {args[1], args[2]}
  <2>1. args[1] \in Int \cup {Undefined} /\ args[2] \in Int \cup {Undefined}
    BY <1>2, <1>6 DEF Number
  <2>2. minimum \in Int /\ maximum \in Int
    BY <1>1, <2>1
  <2>3. \A v : v \in B <=> v \in Value /\ 2 * v >= minimum /\ 2 * v < maximum
    <3>1. ASSUME NEW v \in Value
          PROVE  /\ (args[1] # Undefined => 2 * v >= args[1]) <=> 2 * v >= minimum
                 /\ (args[2] # Undefined => 2 * v < args[2]) <=> 2 * v < maximum
      <4>1. v \in Int /\ 0 <= v /\ v < W
        BY <1>1
      <4>2. CASE args[1] = Undefined
        <5>1. 2 * v >= 0
          BY <4>1
        <5>2. CASE args[2] = Undefined
          BY <1>1, <4>1, <4>2, <5>1, <5>2
        <5>3. CASE args[2] # Undefined
          BY <4>2, <5>1, <5>3
        <5> QED
          BY <5>2, <5>3
      <4>3. CASE args[1] # Undefined
        <5>2. CASE args[2] = Undefined
          BY <1>1, <4>1, <4>3, <5>2
        <5>3. CASE args[2] # Undefined
          BY <4>3, <5>3
        <5> QED
          BY <5>2, <5>3
      <4> QED
        BY <4>2, <4>3
    <3> HIDE DEF minimum, maximum
    <3> QED
      BY <1>3, <1>6, <3>1
  <2> HIDE DEF minimum, maximum
  <2> DEFINE m == Max({minimum, 0})
             c == ceil(maximum)
  <2>4. m \in Int /\ m >= 0 /\ (m = minimum \/ m = 0) /\ m >= minimum
    BY <2>2, MaxOfTwo
  <2>5. c \in Int /\ (\A v \in Int : 2 * v < maximum <=> v < c) /\ (maximum <= 0 => c <= 0) /\ (maximum > 0 => c > 0)
    BY <2>2, Halved
  <2> HIDE DEF m
  <2>6. first \in Int /\ first >= 0 /\ \A v \in Int : 2 * v >= m <=> v >= first
    BY <2>4, Halved DEF m
  <2> HIDE DEF first, c
  <2>7. end \in Int /\ (end = c \/ end = W) /\ end <= c /\ end <= W
    <3>1. end = Min({c, W})
      BY DEF c
    <3> HIDE DEF end
    <3>2. Min({c, W}) = IF c <= W THEN c ELSE W
      BY <1>1, <2>5, MinOfTwo
    <3> QED
      BY <1>1, <2>5, <3>1, <3>2
  <2> HIDE DEF end
  <2>8. \A v \in Int : v \in B <=> first <= v /\ v <= end - 1
    <3> TAKE v \in Int
    <3>1. v \in Value <=> 0 <= v /\ v < W
      BY <1>1
    <3>2. 0 <= v => (2 * v >= minimum <=> 2 * v >= m)
      BY <2>2, <2>4
    <3>3. (2 * v >= m <=> v >= first) /\ (2 * v < maximum <=> v < c)
      BY <2>5, <2>6
    <3>4. v < end <=> v < c /\ v < W
      BY <1>1, <2>5, <2>7
    <3>5. v >= first => 0 <= v
      BY <2>6
    <3>6. v < end <=> v <= end - 1
      BY <2>7
    <3> QED
      BY <2>3, <3>1, <3>2, <3>3, <3>4, <3>5, <3>6
  <2>9. B = first .. end - 1
    <3>1. \A v : v \in B => v \in Int
      BY <1>1, <2>3
    <3>2. \A v : v \in first .. end - 1 <=> v \in Int /\ first <= v /\ v <= end - 1
      BY <2>6, <2>7
    <3> QED
      BY <2>8, <3>1, <3>2
  <2>10. CASE none
    <3>1. first >= end
      <4>1. CASE NaN \in {minimum, maximum}
        BY <1>4, <1>6, <4>1
      <4>2. CASE minimum > 2 * UINT32_MAX
        <5>1. m > 2 * (W - 1)
          BY <1>1, <2>2, <2>4, <4>2
        <5>2. ~ (2 * (W - 1) >= m)
          BY <1>1, <2>4, <5>1
        <5>3. ~ (W - 1 >= first)
          <6>1. W - 1 \in Int
            BY <1>1
          <6> QED
            BY <2>6, <5>2, <6>1
        <5> QED
          BY <1>1, <2>6, <2>7, <5>3
      <4>3. CASE maximum <= 0
        BY <2>5, <2>6, <2>7, <4>3
      <4> QED
        BY <2>10, <4>1, <4>2, <4>3
    <3>2. r = [valid |-> FALSE]
      BY <1>0, <2>10
    <3>3. B = {}
      BY <2>6, <2>7, <2>9, <3>1
    <3> QED
      BY <3>2, <3>3 DEF IsRange, B
  <2>11. CASE ~ none
    <3>1. r = [valid |-> TRUE, first |-> first, end |-> end]
      BY <1>0, <2>11
    <3>2. first < end
      BY <2>6, <2>7, <2>11
    <3>3. first \in Value /\ end - 1 \in Value /\ end \in Nat /\ first <= end - 1
      BY <1>1, <2>6, <2>7, <3>2
    <3>4. r.valid /\ r.first = first /\ r.end = end
      BY <3>1
    <3> HIDE DEF r
    <3> QED
      BY <2>9, <3>3, <3>4 DEF IsRange, B, r
  <2> QED
    BY <2>10, <2>11
<1> QED
  BY <1>5, <1>6

\* The step that is used is the one that is promised.
LEMMA StepOfArgument ==
  ASSUME NEW n \in Number
  PROVE  /\ RangeStep(n) \in Nat \ {0}
         /\ \A S : Promise!Stepped(S, n) = {v \in S : (v - Min(S)) % RangeStep(n) = 0}
<1> DEFINE W == UINT32_MAX + 1
           step == IF IsNumber(n) THEN Truncated(n) % W ELSE 0
<1>1. W \in Nat \ {0}
  BY WidthIsANumber
<1>2. step \in Nat
  <2> HIDE DEF W
  <2>1. IsNumber(n) => Truncated(n) \in Int
    BY NumbersAre, Halved
  <2>2. IsNumber(n) => Truncated(n) % W \in Nat
    BY <1>1, <2>1
  <2> QED
    BY <2>2
<1>3. RangeStep(n) = IF step = 0 THEN 1 ELSE step
  BY DEF RangeStep
<1>4. ASSUME NEW S PROVE Promise!Stepped(S, n) = {v \in S : (v - Min(S)) % (IF step = 0 THEN 1 ELSE step) = 0}
  BY SameOperators DEF Promise!Stepped
<1> HIDE DEF step
<1>5. RangeStep(n) \in Nat \ {0}
  BY <1>2, <1>3
<1> QED
  BY <1>3, <1>4, <1>5

\* So is the offset, unless it is so large that nothing is left.
LEMMA OffsetOfArgument ==
  ASSUME NEW n \in Number, NEW V \in SUBSET Value
  PROVE  ClampedOffset(n) \in Int /\ Promise!Moved(V, n) = MovedBy(V, ClampedOffset(n))
<1> DEFINE W == UINT32_MAX + 1
           m == Min({n, 2 * W})
           c == Max({-2 * W, m})
           d == IF IsNumber(n) THEN Truncated(n) ELSE 0
           o == ClampedOffset(n)
<1>1. W \in Nat \ {0} /\ Value = 0 .. W - 1 /\ \A v \in V : v \in Int /\ 0 <= v /\ v < W
  BY WidthIsANumber
<1>2. Promise!Moved(V, n) = {v + d : v \in V} \cap Value
  BY SameOperators, WidthIsANumber DEF Promise!Moved
<1>3. o = IF IsNumber(n) THEN Truncated(c) ELSE 0
  BY DEF ClampedOffset
<1> HIDE DEF o, W
<1>4. CASE ~ IsNumber(n)
  BY <1>2, <1>3, <1>4 DEF MovedBy, o
<1>5. CASE IsNumber(n)
  <2>1. n \in Int /\ 2 * W \in Int /\ -2 * W \in Int
    BY <1>1, <1>5, NumbersAre
  <2>2. m \in Int /\ (m = n \/ m = 2 * W) /\ m <= n /\ m <= 2 * W
    BY <2>1, MinOfTwo
  <2> HIDE DEF m
  <2>3. c \in Int /\ (c = -2 * W \/ c = m) /\ -2 * W <= c /\ m <= c
    BY <2>1, <2>2, MaxOfTwo
  <2> HIDE DEF c
  <2>4. d = Truncated(n) /\ o = Truncated(c) /\ d \in Int /\ o \in Int
    BY <1>3, <1>5, <2>1, <2>3, Halved
  <2> HIDE DEF d
  <2>5. c = n \/ (c = 2 * W /\ n > 2 * W) \/ (c = -2 * W /\ n < -2 * W)
    BY <1>1, <2>1, <2>2, <2>3
  <2>6. CASE c = n
    BY <1>2, <2>4, <2>6 DEF MovedBy, o
  <2>7. CASE c = 2 * W /\ n > 2 * W
    <3>1. o = W /\ d >= W
      BY <1>1, <2>1, <2>4, <2>7 DEF Truncated
    <3>2. \A v \in V : v + o \notin Value /\ v + d \notin Value
      BY <1>1, <2>4, <3>1
    <3> QED
      BY <1>2, <2>4, <3>2 DEF MovedBy, o
  <2>8. CASE c = -2 * W /\ n < -2 * W
    <3>1. o = -W /\ d <= -W
      BY <1>1, <2>1, <2>4, <2>8 DEF Truncated
    <3>2. \A v \in V : v + o \notin Value /\ v + d \notin Value
      BY <1>1, <2>4, <3>1
    <3> QED
      BY <1>2, <2>4, <3>2 DEF MovedBy, o
  <2> QED
    BY <2>5, <2>6, <2>7, <2>8
<1> QED
  BY <1>4, <1>5

-----------------------------------------------------------------------------
(* Methods that take one argument after the other.                          *)

ArgumentStep(op, acc, n) ==
    LET v == v8ValueToUint32Fast(n)
        after == IF op = "remove" THEN roaring_bitmap_remove_checked(acc.bm, CHOOSE x \in v : TRUE)
                                  ELSE roaring_bitmap_add_checked(acc.bm, CHOOSE x \in v : TRUE)
    IN  IF v = {} THEN acc ELSE [bm |-> after.bm, result |-> acc.result \/ after.result]

ArgumentsFrom(op, start, seq) == LET step(acc, n) == ArgumentStep(op, acc, n) IN Loop(step, start, seq)

IsArgumentLoop(f, op, start, seq) ==
    /\ f[0] = start
    /\ \A n \in 1 .. Len(seq) : f[n] = ArgumentStep(op, f[n - 1], seq[n])
    /\ ArgumentsFrom(op, start, seq) = f[Len(seq)]

\* The states of the loop over the arguments.
LEMMA LoopOfArguments ==
  ASSUME NEW op, NEW start, NEW seq, Len(seq) \in Nat
  PROVE  \E f : IsArgumentLoop(f, op, start, seq)
<1> DEFINE Then(a, n) == ArgumentStep(op, a, seq[n])
           Is(f, m) == f = [n \in 0 .. m |-> IF n = 0 THEN start ELSE Then(f[n - 1], n)]
           T == {m \in Nat : \E f : Is(f, m)}
<1>1. 0 \in T
  <2> HIDE DEF Then
  <2>1. Is([n \in 0 .. 0 |-> start], 0)
    OBVIOUS
  <2> QED
    BY <2>1
<1>2. ASSUME NEW m \in T PROVE m + 1 \in T
  <2> HIDE DEF Then
  <2>1. PICK f : Is(f, m)
    BY <1>2
  <2> DEFINE g == [n \in 0 .. m + 1 |-> IF n \in 0 .. m THEN f[n] ELSE Then(f[m], m + 1)]
  <2>2. \A n \in 0 .. m : f[n] = IF n = 0 THEN start ELSE Then(f[n - 1], n)
    BY <2>1
  <2>3. ASSUME NEW n \in 0 .. m + 1 PROVE g[n] = IF n = 0 THEN start ELSE Then(g[n - 1], n)
    <3>1. CASE n = 0
      BY <2>2, <3>1
    <3>2. CASE n \in 1 .. m
      BY <2>2, <3>2
    <3>3. CASE n = m + 1
      BY <3>3
    <3> QED
      BY <3>1, <3>2, <3>3
  <2>4. g = [n \in 0 .. m + 1 |-> g[n]]
    OBVIOUS
  <2>5. Is(g, m + 1)
    <3> HIDE DEF g
    <3> QED
      BY <2>3, <2>4
  <2>6. m + 1 \in Nat
    OBVIOUS
  <2> HIDE DEF Is, g
  <2> QED
    BY <2>5, <2>6
<1>3. T = Nat
  <2> HIDE DEF T
  <2>1. T \in SUBSET Nat
    BY DEF T
  <2> QED
    BY <1>1, <1>2, <2>1, NumbersByInduction
<1> DEFINE h == CHOOSE f : Is(f, Len(seq))
<1>4. Is(h, Len(seq))
  <2>1. \E f : Is(f, Len(seq))
    BY <1>3
  <2> HIDE DEF Is
  <2> QED
    BY <2>1
<1>5. ArgumentsFrom(op, start, seq) = h[Len(seq)]
  BY Zenon DEF ArgumentsFrom, Loop
<1>6. h[0] = start /\ \A n \in 1 .. Len(seq) : h[n] = Then(h[n - 1], n)
  <2> HIDE DEF h, Then
  <2> QED
    BY <1>4
<1> HIDE DEF h
<1>7. IsArgumentLoop(h, op, start, seq)
  BY <1>5, <1>6 DEF IsArgumentLoop
<1> QED
  BY <1>7

\* What one argument does: Adding.
IsAddingOne(s, acc, U, n) ==
    LET v == v8ValueToUint32Fast(n)
    IN  Represents(s.bm, U \cup v) /\ s.result \in BOOLEAN /\ (s.result <=> acc.result \/ v \ U # {})

\* One more argument is added.
LEMMA AddingOne ==
  ASSUME NEW acc, NEW U, Represents(acc.bm, U), acc.result \in BOOLEAN, NEW n \in Number, NEW op, op # "remove"
  PROVE  IsAddingOne(ArgumentStep(op, acc, n), acc, U, n)
<1> DEFINE v == v8ValueToUint32Fast(n)
<1>1. v = {} \/ \E x \in Value : v = {x}
  BY ValueOfArgument
<1>2. CASE v = {}
  <2>1. ArgumentStep(op, acc, n) = acc
    BY <1>2 DEF ArgumentStep
  <2>2. U \cup v = U /\ v \ U = {}
    BY <1>2
  <2> QED
    BY <2>1, <2>2 DEF IsAddingOne
<1>3. CASE \E x \in Value : v = {x}
  <2>1. PICK x \in Value : v = {x}
    BY <1>3
  <2>2. (CHOOSE y \in v : TRUE) = x /\ v # {}
    BY <2>1
  <2> DEFINE after == roaring_bitmap_add_checked(acc.bm, x)
             s == ArgumentStep(op, acc, n)
  <2>3. s = [bm |-> after.bm, result |-> acc.result \/ after.result]
    <3>1. ArgumentStep(op, acc, n) =
            IF v = {} THEN acc
            ELSE [bm |-> roaring_bitmap_add_checked(acc.bm, CHOOSE y \in v : TRUE).bm,
                  result |-> acc.result \/ roaring_bitmap_add_checked(acc.bm, CHOOSE y \in v : TRUE).result]
      BY DEF ArgumentStep
    <3> HIDE DEF v
    <3> QED
      BY <2>2, <3>1
  <2>4. Represents(after.bm, U \cup {x}) /\ after.result \in BOOLEAN /\ (after.result <=> x \notin U)
    BY ValueAdded, AddingIsAnswered
  <2>5. v \ U # {} <=> x \notin U
    BY <2>1
  <2> HIDE DEF after, s, v
  <2>6. s.bm = after.bm /\ s.result = (acc.result \/ after.result)
    BY <2>3, Zenon
  <2>7. Represents(s.bm, U \cup v)
    BY <2>1, <2>4, <2>6
  <2>8. s.result \in BOOLEAN /\ (s.result <=> acc.result \/ v \ U # {})
    BY <2>4, <2>5, <2>6
  <2> QED
    BY <2>7, <2>8 DEF IsAddingOne, s, v
<1> QED
  BY <1>1, <1>2, <1>3

\* What one argument does: Removing.
IsRemovingOne(s, acc, U, n) ==
    LET v == v8ValueToUint32Fast(n)
    IN  Represents(s.bm, U \ v) /\ s.result \in BOOLEAN /\ (s.result <=> acc.result \/ v \cap U # {})

\* One more argument is removed.
LEMMA RemovingOne ==
  ASSUME NEW acc, NEW U, Represents(acc.bm, U), acc.result \in BOOLEAN, NEW n \in Number, NEW op, op = "remove"
  PROVE  IsRemovingOne(ArgumentStep(op, acc, n), acc, U, n)
<1> DEFINE v == v8ValueToUint32Fast(n)
<1>1. v = {} \/ \E x \in Value : v = {x}
  BY ValueOfArgument
<1>2. CASE v = {}
  <2>1. ArgumentStep(op, acc, n) = acc
    BY <1>2 DEF ArgumentStep
  <2>2. U \ v = U /\ v \cap U = {}
    BY <1>2
  <2> QED
    BY <2>1, <2>2 DEF IsRemovingOne
<1>3. CASE \E x \in Value : v = {x}
  <2>1. PICK x \in Value : v = {x}
    BY <1>3
  <2>2. (CHOOSE y \in v : TRUE) = x /\ v # {}
    BY <2>1
  <2> DEFINE after == roaring_bitmap_remove_checked(acc.bm, x)
             s == ArgumentStep(op, acc, n)
  <2>3. s = [bm |-> after.bm, result |-> acc.result \/ after.result]
    <3>1. ArgumentStep(op, acc, n) =
            IF v = {} THEN acc
            ELSE [bm |-> roaring_bitmap_remove_checked(acc.bm, CHOOSE y \in v : TRUE).bm,
                  result |-> acc.result \/ roaring_bitmap_remove_checked(acc.bm, CHOOSE y \in v : TRUE).result]
      BY DEF ArgumentStep
    <3> HIDE DEF v
    <3> QED
      BY <2>2, <3>1
  <2>4. Represents(after.bm, U \ {x}) /\ after.result \in BOOLEAN /\ (after.result <=> x \in U)
    BY ValueRemoved, RemovingIsAnswered
  <2>5. v \cap U # {} <=> x \in U
    BY <2>1
  <2> HIDE DEF after, s, v
  <2>6. s.bm = after.bm /\ s.result = (acc.result \/ after.result)
    BY <2>3, Zenon
  <2>7. Represents(s.bm, U \ v)
    BY <2>1, <2>4, <2>6
  <2>8. s.result \in BOOLEAN /\ (s.result <=> acc.result \/ v \cap U # {})
    BY <2>4, <2>5, <2>6
  <2> QED
    BY <2>7, <2>8 DEF IsRemovingOne, s, v
<1> QED
  BY <1>1, <1>2, <1>3

Taken(args, n) == UNION {v8ValueToUint32Fast(args[i]) : i \in 1 .. n}

\* One more argument is taken as a value.
LEMMA TakenOneMore ==
  ASSUME NEW args, NEW n \in Nat
  PROVE  Taken(args, n + 1) = Taken(args, n) \cup v8ValueToUint32Fast(args[n + 1]) /\ Taken(args, 0) = {}
<1>1. \A i : i \in 1 .. n + 1 <=> i \in 1 .. n \/ i = n + 1
  OBVIOUS
<1>2. 1 .. 0 = {}
  OBVIOUS
<1> QED
  BY <1>1, <1>2 DEF Taken

\* After all of them.
IsAddingAll(s, V, S) == Represents(s.bm, V \cup S) /\ s.result \in BOOLEAN /\ (s.result <=> S \ V # {})

\* Every argument is added, and the answer tells whether one was missing.
LEMMA AddingAll ==
  ASSUME NEW V, Represents(bm, V), NEW args \in Seq(Number), NEW op, op # "remove"
  PROVE  IsAddingAll(EachArgument(op, args), V, Promise!Integers(args))
<1> DEFINE start == [bm |-> bm, result |-> FALSE]
           N == Len(args)
<1>1. N \in Nat /\ \A i \in 1 .. N : args[i] \in Number
  OBVIOUS
<1>2. EachArgument(op, args) = ArgumentsFrom(op, start, args)
  BY Zenon DEF EachArgument, ArgumentsFrom, ArgumentStep
<1>3. start.bm = bm /\ start.result = FALSE
  OBVIOUS
<1> HIDE DEF start
<1>4. PICK f : IsArgumentLoop(f, op, start, args)
  BY <1>1, LoopOfArguments
<1>5. /\ f[0] = start
      /\ \A n \in 1 .. N : f[n] = ArgumentStep(op, f[n - 1], args[n])
      /\ ArgumentsFrom(op, start, args) = f[N]
  BY <1>4 DEF IsArgumentLoop
<1> DEFINE At(n) == IsAddingAll(f[n], V, Taken(args, n))
           T == {n \in Nat : n <= N => At(n)}
<1>6. At(0)
  <2>1. V \cup {} = V /\ {} \ V = {} /\ Taken(args, 0) = {}
    BY TakenOneMore
  <2>2. IsAddingAll(start, V, {})
    BY <1>3, <2>1 DEF IsAddingAll
  <2> QED
    BY <1>5, <2>1, <2>2
<1>7. ASSUME NEW n \in Nat, n + 1 <= N, At(n) PROVE At(n + 1)
  <2> DEFINE acc == f[n]
             a == args[n + 1]
             S == Taken(args, n)
             v == v8ValueToUint32Fast(a)
             s == f[n + 1]
  <2>1. a \in Number /\ s = ArgumentStep(op, acc, a)
    BY <1>1, <1>5, <1>7
  <2>2. Represents(acc.bm, V \cup S) /\ acc.result \in BOOLEAN /\ (acc.result <=> S \ V # {})
    BY <1>7 DEF IsAddingAll
  <2>3. Taken(args, n + 1) = S \cup v
    BY TakenOneMore
  <2> HIDE DEF acc, a, S
  <2>4. IsAddingOne(ArgumentStep(op, acc, a), acc, V \cup S, a)
    BY <2>1, <2>2, AddingOne
  <2> HIDE DEF s
  <2>5. Represents(s.bm, (V \cup S) \cup v) /\ s.result \in BOOLEAN /\ (s.result <=> acc.result \/ v \ (V \cup S) # {})
    BY <2>1, <2>4 DEF IsAddingOne
  <2> HIDE DEF v
  <2>6. (V \cup S) \cup v = V \cup (S \cup v)
    OBVIOUS
  <2>7. (S \cup v) \ V # {} <=> S \ V # {} \/ v \ (V \cup S) # {}
    OBVIOUS
  <2>8. IsAddingAll(s, V, S \cup v)
    BY <2>2, <2>5, <2>6, <2>7 DEF IsAddingAll
  <2> QED
    BY <2>3, <2>8 DEF s, S, v
<1>8. T = Nat
  <2> HIDE DEF At
  <2>1. 0 \in T
    BY <1>6
  <2>2. ASSUME NEW n \in T PROVE n + 1 \in T
    BY <1>1, <1>7, <2>2
  <2>3. T \in SUBSET Nat
    OBVIOUS
  <2> HIDE DEF T
  <2> QED
    BY <2>1, <2>2, <2>3, NumbersByInduction
<1>9. At(N)
  <2> HIDE DEF At, N
  <2> QED
    BY <1>1, <1>8
<1>10. Promise!Integers(args) = Taken(args, N)
  BY IntegersOfList DEF Taken
<1> QED
  BY <1>2, <1>5, <1>9, <1>10

\* After all of them.
IsRemovingAll(s, V, S) == Represents(s.bm, V \ S) /\ s.result \in BOOLEAN /\ (s.result <=> S \cap V # {})

\* Every argument is removed, and the answer tells whether one was there.
LEMMA RemovingAll ==
  ASSUME NEW V, Represents(bm, V), NEW args \in Seq(Number), NEW op, op = "remove"
  PROVE  IsRemovingAll(EachArgument(op, args), V, Promise!Integers(args))
<1> DEFINE start == [bm |-> bm, result |-> FALSE]
           N == Len(args)
<1>1. N \in Nat /\ \A i \in 1 .. N : args[i] \in Number
  OBVIOUS
<1>2. EachArgument(op, args) = ArgumentsFrom(op, start, args)
  BY Zenon DEF EachArgument, ArgumentsFrom, ArgumentStep
<1>3. start.bm = bm /\ start.result = FALSE
  OBVIOUS
<1> HIDE DEF start
<1>4. PICK f : IsArgumentLoop(f, op, start, args)
  BY <1>1, LoopOfArguments
<1>5. /\ f[0] = start
      /\ \A n \in 1 .. N : f[n] = ArgumentStep(op, f[n - 1], args[n])
      /\ ArgumentsFrom(op, start, args) = f[N]
  BY <1>4 DEF IsArgumentLoop
<1> DEFINE At(n) == IsRemovingAll(f[n], V, Taken(args, n))
           T == {n \in Nat : n <= N => At(n)}
<1>6. At(0)
  <2>1. V \ {} = V /\ {} \cap V = {} /\ Taken(args, 0) = {}
    BY TakenOneMore
  <2>2. IsRemovingAll(start, V, {})
    BY <1>3, <2>1 DEF IsRemovingAll
  <2> QED
    BY <1>5, <2>1, <2>2
<1>7. ASSUME NEW n \in Nat, n + 1 <= N, At(n) PROVE At(n + 1)
  <2> DEFINE acc == f[n]
             a == args[n + 1]
             S == Taken(args, n)
             v == v8ValueToUint32Fast(a)
             s == f[n + 1]
  <2>1. a \in Number /\ s = ArgumentStep(op, acc, a)
    BY <1>1, <1>5, <1>7
  <2>2. Represents(acc.bm, V \ S) /\ acc.result \in BOOLEAN /\ (acc.result <=> S \cap V # {})
    BY <1>7 DEF IsRemovingAll
  <2>3. Taken(args, n + 1) = S \cup v
    BY TakenOneMore
  <2> HIDE DEF acc, a, S
  <2>4. IsRemovingOne(ArgumentStep(op, acc, a), acc, V \ S, a)
    BY <2>1, <2>2, RemovingOne
  <2> HIDE DEF s
  <2>5. Represents(s.bm, (V \ S) \ v) /\ s.result \in BOOLEAN /\ (s.result <=> acc.result \/ v \cap (V \ S) # {})
    BY <2>1, <2>4 DEF IsRemovingOne
  <2> HIDE DEF v
  <2>6. (V \ S) \ v = V \ (S \cup v)
    OBVIOUS
  <2>7. (S \cup v) \cap V # {} <=> S \cap V # {} \/ v \cap (V \ S) # {}
    OBVIOUS
  <2>8. IsRemovingAll(s, V, S \cup v)
    BY <2>2, <2>5, <2>6, <2>7 DEF IsRemovingAll
  <2> QED
    BY <2>3, <2>8 DEF s, S, v
<1>8. T = Nat
  <2> HIDE DEF At
  <2>1. 0 \in T
    BY <1>6
  <2>2. ASSUME NEW n \in T PROVE n + 1 \in T
    BY <1>1, <1>7, <2>2
  <2>3. T \in SUBSET Nat
    OBVIOUS
  <2> HIDE DEF T
  <2> QED
    BY <2>1, <2>2, <2>3, NumbersByInduction
<1>9. At(N)
  <2> HIDE DEF At, N
  <2> QED
    BY <1>1, <1>8
<1>10. Promise!Integers(args) = Taken(args, N)
  BY IntegersOfList DEF Taken
<1> QED
  BY <1>2, <1>5, <1>9, <1>10

-----------------------------------------------------------------------------
(* Calls.                                                                   *)

\* What a call does to the values of the bitmap, and its answer, are promised.
Does ==
    /\ call = Idle /\ call' # Idle
    /\ Represents(bm', Promise!After(Values(bm), call'))
    /\ ret' \in Promise!Answers(Values(bm), call')

\* A call that returns what is promised.
LEMMA CallDoes ==
  ASSUME NEW op, NEW args, NEW after, NEW answer, Returns(op, args, after, answer), op # "idle",
         NEW c, c = [op |-> op, args |-> args],
         Represents(after, Promise!After(Values(bm), c)), answer \in Promise!Answers(Values(bm), c)
  PROVE  Does
<1>1. call = Idle /\ call' = c /\ bm' = after /\ ret' = answer
  BY DEF Returns
<1>2. c.op # "idle" /\ Idle.op = "idle"
  BY DEF Idle
<1>3. call' # Idle
  BY <1>1, <1>2
<1> QED
  BY <1>1, <1>3 DEF Does

\* What is assumed of the arguments.
LEMMA ArgumentsAre ==
  /\ \A args \in Lists : args \in Seq(Number)
  /\ \A args \in Ranges : args \in Number \X Number
  /\ Steps \subseteq Number /\ Offsets \subseteq Number
  BY ArgumentAssumption DEF ArgumentAssumption

\* What is assumed of the other bitmaps.
LEMMA OperandsAre ==
  /\ \A x \in Operands : Represents(x, Values(x))
  /\ \A x \in Companions : Represents(x, Values(x))
  /\ \A x \in OtherBitmaps : Represents(x, Values(x))
<1>1. \A x \in Operands : Represents(x, Values(x))
  BY OperandAssumption, ValidStands DEF OperandAssumption
<1>2. \A x \in Companions : Represents(x, Values(x))
  BY <1>1, OperandAssumption DEF OperandAssumption
<1>3. ASSUME NEW list \in Lists
      PROVE  LET x == roaring_bitmap_add_many(Empty, TypedArray(list)) IN Represents(x, Values(x))
  <2> DEFINE x == roaring_bitmap_add_many(Empty, TypedArray(list))
             W == {} \cup ToSet(TypedArray(list))
  <2>1. TypedArray(list) \in Seq(Value)
    BY ArgumentsAre, ElementsOfList
  <2>2. Represents(x, W)
    BY <2>1, EmptyBitmap, ValuesAdded
  <2> HIDE DEF x, W
  <2>3. W = Values(x)
    BY <2>2, BitmapHas
  <2> QED
    BY <2>2, <2>3 DEF x
<1>4. \A x \in OtherBitmaps : Represents(x, Values(x))
  BY <1>1, <1>3 DEF OtherBitmaps
<1> QED
  BY <1>1, <1>2, <1>4

\* What Add does and answers is promised.
LEMMA AddDoes ==
  ASSUME Represents(bm, Values(bm)), Add
  PROVE  Does
<1> DEFINE V == Values(bm)
<1>1. PICK args \in Lists : Returns("add", args, EachArgument("add", args).bm, Nothing)
  BY Zenon DEF Add
<1> DEFINE s == EachArgument("add", args)
           S == Promise!Integers(args)
           c == [op |-> "add", args |-> args]
<1>2. IsAddingAll(s, V, S)
  BY ArgumentsAre, AddingAll
<1> HIDE DEF s, S
<1>3. c.op = "add" /\ c.args = args
  OBVIOUS
<1> HIDE DEF c
<1>4. Promise!After(V, c) = V \cup S
  BY <1>3, PromisedArguments DEF S
<1>5. Represents(s.bm, Promise!After(V, c))
  BY <1>2, <1>4 DEF IsAddingAll
<1>6. Nothing \in Promise!Answers(V, c)
  <2>1. Promise!Answers(V, c) = {Nothing}
    BY <1>3, PromisedAnswers DEF S
  <2>2. TRUE
    BY <1>2 DEF IsAddingAll
  <2> QED
    BY <2>1, <2>2
<1> QED
  BY <1>1, <1>5, <1>6, CallDoes DEF s, c

\* What TryAdd does and answers is promised.
LEMMA TryAddDoes ==
  ASSUME Represents(bm, Values(bm)), TryAdd
  PROVE  Does
<1> DEFINE V == Values(bm)
<1>1. PICK args \in Lists : Returns("tryAdd", args, EachArgument("add", args).bm, {EachArgument("add", args).result})
  BY Zenon DEF TryAdd
<1> DEFINE s == EachArgument("add", args)
           S == Promise!Integers(args)
           c == [op |-> "tryAdd", args |-> args]
<1>2. IsAddingAll(s, V, S)
  BY ArgumentsAre, AddingAll
<1> HIDE DEF s, S
<1>3. c.op = "tryAdd" /\ c.args = args
  OBVIOUS
<1> HIDE DEF c
<1>4. Promise!After(V, c) = V \cup S
  BY <1>3, PromisedArguments DEF S
<1>5. Represents(s.bm, Promise!After(V, c))
  BY <1>2, <1>4 DEF IsAddingAll
<1>6. {s.result} \in Promise!Answers(V, c)
  <2>1. Promise!Answers(V, c) = {{S \ V # {}}}
    BY <1>3, PromisedAnswers DEF S
  <2>2. s.result = (S \ V # {})
    BY <1>2 DEF IsAddingAll
  <2> QED
    BY <2>1, <2>2
<1> QED
  BY <1>1, <1>5, <1>6, CallDoes DEF s, c

\* What RemoveEach does and answers is promised.
LEMMA RemoveEachDoes ==
  ASSUME Represents(bm, Values(bm)), RemoveEach
  PROVE  Does
<1> DEFINE V == Values(bm)
<1>1. PICK args \in Lists : Returns("remove", args, EachArgument("remove", args).bm, {EachArgument("remove", args).result})
  BY Zenon DEF RemoveEach
<1> DEFINE s == EachArgument("remove", args)
           S == Promise!Integers(args)
           c == [op |-> "remove", args |-> args]
<1>2. IsRemovingAll(s, V, S)
  BY ArgumentsAre, RemovingAll
<1> HIDE DEF s, S
<1>3. c.op = "remove" /\ c.args = args
  OBVIOUS
<1> HIDE DEF c
<1>4. Promise!After(V, c) = V \ S
  BY <1>3, PromisedArguments DEF S
<1>5. Represents(s.bm, Promise!After(V, c))
  BY <1>2, <1>4 DEF IsRemovingAll
<1>6. {s.result} \in Promise!Answers(V, c)
  <2>1. Promise!Answers(V, c) = {{S \cap V # {}}}
    BY <1>3, PromisedAnswers DEF S
  <2>2. s.result = (S \cap V # {})
    BY <1>2 DEF IsRemovingAll
  <2> QED
    BY <2>1, <2>2
<1> QED
  BY <1>1, <1>5, <1>6, CallDoes DEF s, c

\* What AddMany does and answers is promised.
LEMMA AddManyDoes ==
  ASSUME Represents(bm, Values(bm)), AddMany
  PROVE  Does
<1> DEFINE V == Values(bm)
<1>1. PICK list \in Lists : Returns("addMany", list, roaring_bitmap_add_many(bm, TypedArray(list)), Nothing)
  BY DEF AddMany
<1> DEFINE x == roaring_bitmap_add_many(bm, TypedArray(list))
           S == Promise!Elements(list)
           c == [op |-> "addMany", args |-> list]
<1>2. Represents(x, V \cup S)
  <2>1. TypedArray(list) \in Seq(Value) /\ ToSet(TypedArray(list)) = S
    BY ArgumentsAre, ElementsOfList
  <2> HIDE DEF S
  <2> QED
    BY <2>1, ValuesAdded, EmptyBitmap
<1> HIDE DEF x, S
<1>3. c.op = "addMany" /\ c.args = list
  OBVIOUS
<1> HIDE DEF c
<1>4. Promise!After(V, c) = V \cup S
  BY <1>3, PromisedArguments DEF S
<1>5. Nothing \in Promise!Answers(V, c)
  <2>1. Promise!Answers(V, c) = {Nothing}
    BY <1>3, PromisedAnswers
  <2> QED
    BY <2>1
<1> QED
  BY <1>1, <1>2, <1>4, <1>5, CallDoes DEF x, c

\* What RemoveMany does and answers is promised.
LEMMA RemoveManyDoes ==
  ASSUME Represents(bm, Values(bm)), RemoveMany
  PROVE  Does
<1> DEFINE V == Values(bm)
<1>1. PICK list \in Lists : Returns("removeMany", list, roaring_bitmap_remove_many(bm, TypedArray(list)), Nothing)
  BY DEF RemoveMany
<1> DEFINE x == roaring_bitmap_remove_many(bm, TypedArray(list))
           S == Promise!Elements(list)
           c == [op |-> "removeMany", args |-> list]
<1>2. Represents(x, V \ S)
  <2>1. TypedArray(list) \in Seq(Value) /\ ToSet(TypedArray(list)) = S
    BY ArgumentsAre, ElementsOfList
  <2> HIDE DEF S
  <2> QED
    BY <2>1, ValuesRemoved, EmptyBitmap
<1> HIDE DEF x, S
<1>3. c.op = "removeMany" /\ c.args = list
  OBVIOUS
<1> HIDE DEF c
<1>4. Promise!After(V, c) = V \ S
  BY <1>3, PromisedArguments DEF S
<1>5. Nothing \in Promise!Answers(V, c)
  <2>1. Promise!Answers(V, c) = {Nothing}
    BY <1>3, PromisedAnswers
  <2> QED
    BY <2>1
<1> QED
  BY <1>1, <1>2, <1>4, <1>5, CallDoes DEF x, c

\* What CopyElements does and answers is promised.
LEMMA CopyElementsDoes ==
  ASSUME Represents(bm, Values(bm)), CopyElements
  PROVE  Does
<1> DEFINE V == Values(bm)
<1>1. PICK list \in Lists : Returns("copyElements", list, roaring_bitmap_add_many(Empty, TypedArray(list)), Nothing)
  BY DEF CopyElements
<1> DEFINE x == roaring_bitmap_add_many(Empty, TypedArray(list))
           S == Promise!Elements(list)
           c == [op |-> "copyElements", args |-> list]
<1>2. Represents(x, {} \cup S)
  <2>1. TypedArray(list) \in Seq(Value) /\ ToSet(TypedArray(list)) = S
    BY ArgumentsAre, ElementsOfList
  <2> HIDE DEF S
  <2> QED
    BY <2>1, ValuesAdded, EmptyBitmap
<1> HIDE DEF x, S
<1>3. c.op = "copyElements" /\ c.args = list
  OBVIOUS
<1> HIDE DEF c
<1>4. Promise!After(V, c) = {} \cup S
  BY <1>3, PromisedArguments DEF S
<1>5. Nothing \in Promise!Answers(V, c)
  <2>1. Promise!Answers(V, c) = {Nothing}
    BY <1>3, PromisedAnswers
  <2> QED
    BY <2>1
<1> QED
  BY <1>1, <1>2, <1>4, <1>5, CallDoes DEF x, c

\* Operands can be exchanged.
LEMMA Commuting == \A S, T : S \cup T = T \cup S /\ S \cap T = T \cap S /\ SymDiff(S, T) = SymDiff(T, S)
  BY DEF SymDiff

\* What AddBitmap does and answers is promised.
LEMMA AddBitmapDoes ==
  ASSUME Represents(bm, Values(bm)), AddBitmap
  PROVE  Does
<1> DEFINE V == Values(bm)
<1>1. PICK x \in Operands : Returns("addBitmap", Values(x), roaring_bitmap_or_inplace(bm, x), Nothing)
  BY DEF AddBitmap
<1> DEFINE W == Values(x)
<1>2. Represents(x, W)
  BY OperandsAre
<1> HIDE DEF W
<1> DEFINE c == [op |-> "addBitmap", args |-> W]
       after == roaring_bitmap_or_inplace(bm, x)
<1>11. Represents(after, V \cup W)
  BY <1>2, BitmapsUnite
<1>12. c.op = "addBitmap" /\ c.args = W
  OBVIOUS
<1> HIDE DEF c, after
<1>13. Promise!After(V, c) = V \cup W
  BY <1>12, PromisedBitmaps
<1>14. Promise!Answers(V, c) = {Nothing}
  BY <1>12, PromisedAnswers
<1>15. Nothing \in Promise!Answers(V, c)
  BY <1>14
<1> QED
  BY <1>1, <1>11, <1>13, <1>15, CallDoes DEF W, c, after

\* What RemoveBitmap does and answers is promised.
LEMMA RemoveBitmapDoes ==
  ASSUME Represents(bm, Values(bm)), RemoveBitmap
  PROVE  Does
<1> DEFINE V == Values(bm)
<1>1. PICK x \in Operands : Returns("removeBitmap", Values(x), roaring_bitmap_andnot_inplace(bm, x), Nothing)
  BY DEF RemoveBitmap
<1> DEFINE W == Values(x)
<1>2. Represents(x, W)
  BY OperandsAre
<1> HIDE DEF W
<1> DEFINE c == [op |-> "removeBitmap", args |-> W]
       after == roaring_bitmap_andnot_inplace(bm, x)
<1>11. Represents(after, V \ W)
  BY <1>2, BitmapsSubtract
<1>12. c.op = "removeBitmap" /\ c.args = W
  OBVIOUS
<1> HIDE DEF c, after
<1>13. Promise!After(V, c) = V \ W
  BY <1>12, PromisedBitmaps
<1>14. Promise!Answers(V, c) = {Nothing}
  BY <1>12, PromisedAnswers
<1>15. Nothing \in Promise!Answers(V, c)
  BY <1>14
<1> QED
  BY <1>1, <1>11, <1>13, <1>15, CallDoes DEF W, c, after

\* What CopyFrom does and answers is promised.
LEMMA CopyFromDoes ==
  ASSUME Represents(bm, Values(bm)), CopyFrom
  PROVE  Does
<1> DEFINE V == Values(bm)
<1>1. PICK x \in Operands : Returns("copyFrom", Values(x), x, Nothing)
  BY DEF CopyFrom
<1> DEFINE W == Values(x)
<1>2. Represents(x, W)
  BY OperandsAre
<1> HIDE DEF W
<1> DEFINE c == [op |-> "copyFrom", args |-> W]
       after == x
<1>11. Represents(after, W)
  BY <1>2, BitmapHas
<1>12. c.op = "copyFrom" /\ c.args = W
  OBVIOUS
<1> HIDE DEF c, after
<1>13. Promise!After(V, c) = W
  BY <1>12, PromisedBitmaps
<1>14. Promise!Answers(V, c) = {Nothing}
  BY <1>12, PromisedAnswers
<1>15. Nothing \in Promise!Answers(V, c)
  BY <1>14
<1> QED
  BY <1>1, <1>11, <1>13, <1>15, CallDoes DEF W, c, after

\* What AndInPlace does and answers is promised.
LEMMA AndInPlaceDoes ==
  ASSUME Represents(bm, Values(bm)), AndInPlace
  PROVE  Does
<1> DEFINE V == Values(bm)
<1>1. PICK x \in OtherBitmaps : Returns("andInPlace", Values(x), roaring_bitmap_and_inplace(bm, x), Nothing)
  BY DEF AndInPlace
<1> DEFINE W == Values(x)
<1>2. Represents(x, W)
  BY OperandsAre
<1> HIDE DEF W
<1> DEFINE c == [op |-> "andInPlace", args |-> W]
       after == roaring_bitmap_and_inplace(bm, x)
<1>11. Represents(after, V \cap W)
  BY <1>2, BitmapsIntersect
<1>12. c.op = "andInPlace" /\ c.args = W
  OBVIOUS
<1> HIDE DEF c, after
<1>13. Promise!After(V, c) = V \cap W
  BY <1>12, PromisedBitmaps
<1>14. Promise!Answers(V, c) = {Nothing}
  BY <1>12, PromisedAnswers
<1>15. Nothing \in Promise!Answers(V, c)
  BY <1>14
<1> QED
  BY <1>1, <1>11, <1>13, <1>15, CallDoes DEF W, c, after

\* What XorInPlace does and answers is promised.
LEMMA XorInPlaceDoes ==
  ASSUME Represents(bm, Values(bm)), XorInPlace
  PROVE  Does
<1> DEFINE V == Values(bm)
<1>1. PICK x \in OtherBitmaps : Returns("xorInPlace", Values(x), roaring_bitmap_xor_inplace(bm, x), Nothing)
  BY DEF XorInPlace
<1> DEFINE W == Values(x)
<1>2. Represents(x, W)
  BY OperandsAre
<1> HIDE DEF W
<1> DEFINE c == [op |-> "xorInPlace", args |-> W]
       after == roaring_bitmap_xor_inplace(bm, x)
<1>11. Represents(after, SymDiff(V, W))
  BY <1>2, BitmapsDiffer
<1>12. c.op = "xorInPlace" /\ c.args = W
  OBVIOUS
<1> HIDE DEF c, after
<1>13. Promise!After(V, c) = SymDiff(V, W)
  BY <1>12, PromisedBitmaps
<1>14. Promise!Answers(V, c) = {Nothing}
  BY <1>12, PromisedAnswers
<1>15. Nothing \in Promise!Answers(V, c)
  BY <1>14
<1> QED
  BY <1>1, <1>11, <1>13, <1>15, CallDoes DEF W, c, after

\* What And does and answers is promised.
LEMMA AndDoes ==
  ASSUME Represents(bm, Values(bm)), And
  PROVE  Does
<1> DEFINE V == Values(bm)
<1>1. PICK x \in Operands : \/ Returns("and", Values(x), roaring_bitmap_and(bm, x), Nothing) \/ Returns("and", Values(x), roaring_bitmap_and(x, bm), Nothing)
  BY DEF And
<1> DEFINE W == Values(x)
<1>2. Represents(x, W)
  BY OperandsAre
<1> HIDE DEF W
<1>3. CASE Returns("and", Values(x), roaring_bitmap_and(bm, x), Nothing)
  <2> DEFINE c == [op |-> "and", args |-> W]
         after == roaring_bitmap_and(bm, x)
  <2>11. Represents(after, V \cap W)
    BY <1>2, BitmapsIntersect
  <2>12. c.op = "and" /\ c.args = W
    OBVIOUS
  <2> HIDE DEF c, after
  <2>13. Promise!After(V, c) = V \cap W
    BY <2>12, PromisedBitmaps, Commuting
  <2>14. Promise!Answers(V, c) = {Nothing}
    BY <2>12, PromisedAnswers
  <2>15. Nothing \in Promise!Answers(V, c)
    BY <2>14
  <2> QED
    BY <1>3, <2>11, <2>13, <2>15, CallDoes DEF W, c, after
<1>4. CASE Returns("and", Values(x), roaring_bitmap_and(x, bm), Nothing)
  <2> DEFINE c == [op |-> "and", args |-> W]
         after == roaring_bitmap_and(x, bm)
  <2>11. Represents(after, W \cap V)
    BY <1>2, BitmapsIntersect
  <2>12. c.op = "and" /\ c.args = W
    OBVIOUS
  <2> HIDE DEF c, after
  <2>13. Promise!After(V, c) = W \cap V
    BY <2>12, PromisedBitmaps, Commuting
  <2>14. Promise!Answers(V, c) = {Nothing}
    BY <2>12, PromisedAnswers
  <2>15. Nothing \in Promise!Answers(V, c)
    BY <2>14
  <2> QED
    BY <1>4, <2>11, <2>13, <2>15, CallDoes DEF W, c, after
<1> QED
  BY <1>1, <1>3, <1>4 DEF W

\* What Or does and answers is promised.
LEMMA OrDoes ==
  ASSUME Represents(bm, Values(bm)), Or
  PROVE  Does
<1> DEFINE V == Values(bm)
<1>1. PICK x \in Operands : \/ Returns("or", Values(x), roaring_bitmap_or(bm, x), Nothing) \/ Returns("or", Values(x), roaring_bitmap_or(x, bm), Nothing)
  BY DEF Or
<1> DEFINE W == Values(x)
<1>2. Represents(x, W)
  BY OperandsAre
<1> HIDE DEF W
<1>3. CASE Returns("or", Values(x), roaring_bitmap_or(bm, x), Nothing)
  <2> DEFINE c == [op |-> "or", args |-> W]
         after == roaring_bitmap_or(bm, x)
  <2>11. Represents(after, V \cup W)
    BY <1>2, BitmapsUnite
  <2>12. c.op = "or" /\ c.args = W
    OBVIOUS
  <2> HIDE DEF c, after
  <2>13. Promise!After(V, c) = V \cup W
    BY <2>12, PromisedBitmaps, Commuting
  <2>14. Promise!Answers(V, c) = {Nothing}
    BY <2>12, PromisedAnswers
  <2>15. Nothing \in Promise!Answers(V, c)
    BY <2>14
  <2> QED
    BY <1>3, <2>11, <2>13, <2>15, CallDoes DEF W, c, after
<1>4. CASE Returns("or", Values(x), roaring_bitmap_or(x, bm), Nothing)
  <2> DEFINE c == [op |-> "or", args |-> W]
         after == roaring_bitmap_or(x, bm)
  <2>11. Represents(after, W \cup V)
    BY <1>2, BitmapsUnite
  <2>12. c.op = "or" /\ c.args = W
    OBVIOUS
  <2> HIDE DEF c, after
  <2>13. Promise!After(V, c) = W \cup V
    BY <2>12, PromisedBitmaps, Commuting
  <2>14. Promise!Answers(V, c) = {Nothing}
    BY <2>12, PromisedAnswers
  <2>15. Nothing \in Promise!Answers(V, c)
    BY <2>14
  <2> QED
    BY <1>4, <2>11, <2>13, <2>15, CallDoes DEF W, c, after
<1> QED
  BY <1>1, <1>3, <1>4 DEF W

\* What Xor does and answers is promised.
LEMMA XorDoes ==
  ASSUME Represents(bm, Values(bm)), Xor
  PROVE  Does
<1> DEFINE V == Values(bm)
<1>1. PICK x \in Operands : \/ Returns("xor", Values(x), roaring_bitmap_xor(bm, x), Nothing) \/ Returns("xor", Values(x), roaring_bitmap_xor(x, bm), Nothing)
  BY DEF Xor
<1> DEFINE W == Values(x)
<1>2. Represents(x, W)
  BY OperandsAre
<1> HIDE DEF W
<1>3. CASE Returns("xor", Values(x), roaring_bitmap_xor(bm, x), Nothing)
  <2> DEFINE c == [op |-> "xor", args |-> W]
         after == roaring_bitmap_xor(bm, x)
  <2>11. Represents(after, SymDiff(V, W))
    BY <1>2, BitmapsDiffer
  <2>12. c.op = "xor" /\ c.args = W
    OBVIOUS
  <2> HIDE DEF c, after
  <2>13. Promise!After(V, c) = SymDiff(V, W)
    BY <2>12, PromisedBitmaps, Commuting
  <2>14. Promise!Answers(V, c) = {Nothing}
    BY <2>12, PromisedAnswers
  <2>15. Nothing \in Promise!Answers(V, c)
    BY <2>14
  <2> QED
    BY <1>3, <2>11, <2>13, <2>15, CallDoes DEF W, c, after
<1>4. CASE Returns("xor", Values(x), roaring_bitmap_xor(x, bm), Nothing)
  <2> DEFINE c == [op |-> "xor", args |-> W]
         after == roaring_bitmap_xor(x, bm)
  <2>11. Represents(after, SymDiff(W, V))
    BY <1>2, BitmapsDiffer
  <2>12. c.op = "xor" /\ c.args = W
    OBVIOUS
  <2> HIDE DEF c, after
  <2>13. Promise!After(V, c) = SymDiff(W, V)
    BY <2>12, PromisedBitmaps, Commuting
  <2>14. Promise!Answers(V, c) = {Nothing}
    BY <2>12, PromisedAnswers
  <2>15. Nothing \in Promise!Answers(V, c)
    BY <2>14
  <2> QED
    BY <1>4, <2>11, <2>13, <2>15, CallDoes DEF W, c, after
<1> QED
  BY <1>1, <1>3, <1>4 DEF W

\* What AndNot does and answers is promised.
LEMMA AndNotDoes ==
  ASSUME Represents(bm, Values(bm)), AndNot
  PROVE  Does
<1> DEFINE V == Values(bm)
<1>1. PICK x \in Operands : \/ Returns("andNot", Values(x), roaring_bitmap_andnot(bm, x), Nothing) \/ Returns("andNotOf", Values(x), roaring_bitmap_andnot(x, bm), Nothing)
  BY DEF AndNot
<1> DEFINE W == Values(x)
<1>2. Represents(x, W)
  BY OperandsAre
<1> HIDE DEF W
<1>3. CASE Returns("andNot", Values(x), roaring_bitmap_andnot(bm, x), Nothing)
  <2> DEFINE c == [op |-> "andNot", args |-> W]
         after == roaring_bitmap_andnot(bm, x)
  <2>11. Represents(after, V \ W)
    BY <1>2, BitmapsSubtract
  <2>12. c.op = "andNot" /\ c.args = W
    OBVIOUS
  <2> HIDE DEF c, after
  <2>13. Promise!After(V, c) = V \ W
    BY <2>12, PromisedBitmaps
  <2>14. Promise!Answers(V, c) = {Nothing}
    BY <2>12, PromisedAnswers
  <2>15. Nothing \in Promise!Answers(V, c)
    BY <2>14
  <2> QED
    BY <1>3, <2>11, <2>13, <2>15, CallDoes DEF W, c, after
<1>4. CASE Returns("andNotOf", Values(x), roaring_bitmap_andnot(x, bm), Nothing)
  <2> DEFINE c == [op |-> "andNotOf", args |-> W]
         after == roaring_bitmap_andnot(x, bm)
  <2>11. Represents(after, W \ V)
    BY <1>2, BitmapsSubtract
  <2>12. c.op = "andNotOf" /\ c.args = W
    OBVIOUS
  <2> HIDE DEF c, after
  <2>13. Promise!After(V, c) = W \ V
    BY <2>12, PromisedBitmaps
  <2>14. Promise!Answers(V, c) = {Nothing}
    BY <2>12, PromisedAnswers
  <2>15. Nothing \in Promise!Answers(V, c)
    BY <2>14
  <2> QED
    BY <1>4, <2>11, <2>13, <2>15, CallDoes DEF W, c, after
<1> QED
  BY <1>1, <1>3, <1>4 DEF W

\* What IntegerSet promises of xorMany.
LEMMA PromisedXorMany ==
  ASSUME NEW S, NEW c, c.op = "xorMany"
  PROVE  Promise!After(S, c) = {v \in UNION ToSet(c.args) : Cardinality({i \in DOMAIN c.args : v \in c.args[i]}) % 2 = 1}
  BY PromisedBitmaps, Zenon

\* Appending a third to two.
IsThree(s, a, b, n) == s[1] = a /\ s[2] = b /\ s[3] = n

\* The element at the end of a sequence.
LEMMA AppendedLast ==
  ASSUME NEW X, NEW s \in Seq(X), NEW n \in X
  PROVE  Append(s, n)[Len(s) + 1] = n
  OBVIOUS

\* The elements before it.
LEMMA AppendedBefore ==
  ASSUME NEW X, NEW s \in Seq(X), NEW n \in X, NEW i \in 1 .. Len(s)
  PROVE  Append(s, n)[i] = s[i]
  OBVIOUS

\* The three sets of a list of two and one.
LEMMA AppendToTwo ==
  ASSUME NEW X, NEW a \in X, NEW b \in X, NEW n \in X
  PROVE  IsThree(Append(<<a, b>>, n), a, b, n)
<1> DEFINE s == <<a, b>>
<1>1. s \in Seq(X) /\ Len(s) = 2 /\ s[1] = a /\ s[2] = b
  OBVIOUS
<1> HIDE DEF s
<1>2. 1 \in 1 .. Len(s) /\ 2 \in 1 .. Len(s) /\ Len(s) + 1 = 3
  BY <1>1
<1>3. ASSUME NEW i \in 1 .. Len(s) PROVE Append(s, n)[i] = s[i]
  BY <1>1, AppendedBefore
<1>4. Append(s, n)[1] = s[1] /\ Append(s, n)[2] = s[2]
  BY <1>2, <1>3
<1>5. Append(s, n)[Len(s) + 1] = n
  BY <1>1, AppendedLast
<1> QED
  BY <1>1, <1>2, <1>4, <1>5 DEF IsThree, s

\* What Pop does and answers is promised.
LEMMA PopDoes ==
  ASSUME Represents(bm, Values(bm)), Pop
  PROVE  Does
<1> DEFINE V == Values(bm)
           v == roaring_bitmap_maximum(bm)
           after == roaring_bitmap_remove_checked(bm, v)
           E == {x \in V : \A w \in V : w <= x}
           c == [op |-> "pop", args |-> Nothing]
<1>1. Returns("pop", Nothing, after.bm, {x \in {v} : after.result})
  BY DEF Pop
<1>2. v \in Value /\ E = V \cap {v}
  <2>1. CASE V = {}
    <3>1. v = 0
      BY <2>1, EndsOfNone
    <3>2. v \in Value /\ E = {}
      BY <2>1, <3>1, WidthIsANumber
    <3> QED
      BY <2>1, <3>2
  <2>2. CASE V # {}
    <3>1. v \in V /\ \A w \in V : w <= v
      BY <2>2, EndsOfBitmap
    <3>2. V \in SUBSET Value /\ \A x \in V : x \in Int
      BY BitmapHas, WidthIsANumber
    <3> HIDE DEF v, V
    <3>3. ASSUME NEW x \in V, \A w \in V : w <= x PROVE x = v
      BY <3>1, <3>2, <3>3
    <3> QED
      BY <3>1, <3>2, <3>3
  <2> QED
    BY <2>1, <2>2
<1> HIDE DEF v
<1>3. Represents(after.bm, V \ {v}) /\ (after.result <=> v \in V) /\ after.result \in BOOLEAN
  BY <1>2, ValueRemoved, RemovingIsAnswered
<1> HIDE DEF after, E
<1>4. {x \in {v} : after.result} = E /\ V \ {v} = V \ E
  BY <1>2, <1>3
<1>5. c.op = "pop"
  OBVIOUS
<1> HIDE DEF c
<1>6. Promise!After(V, c) = V \ E
  BY <1>5, PromisedEnds DEF E
<1>8. Promise!Answers(V, c) = {E}
  BY <1>5, PromisedPop, PromisedShift DEF E
<1>7. Represents(after.bm, Promise!After(V, c)) /\ {x \in {v} : after.result} \in Promise!Answers(V, c)
  BY <1>3, <1>4, <1>6, <1>8
<1> QED
  BY <1>1, <1>7, CallDoes DEF c, after, v

\* What Shift does and answers is promised.
LEMMA ShiftDoes ==
  ASSUME Represents(bm, Values(bm)), Shift
  PROVE  Does
<1> DEFINE V == Values(bm)
           v == roaring_bitmap_minimum(bm)
           after == roaring_bitmap_remove_checked(bm, v)
           E == {x \in V : \A w \in V : w >= x}
           c == [op |-> "shift", args |-> Nothing]
<1>1. Returns("shift", Nothing, after.bm, {x \in {v} : after.result})
  BY DEF Shift
<1>2. v \in Value /\ E = V \cap {v}
  <2>1. CASE V = {}
    <3>1. v = UINT32_MAX
      BY <2>1, EndsOfNone
    <3>2. v \in Value /\ E = {}
      BY <2>1, <3>1, WidthIsANumber
    <3> QED
      BY <2>1, <3>2
  <2>2. CASE V # {}
    <3>1. v \in V /\ \A w \in V : w >= v
      BY <2>2, EndsOfBitmap
    <3>2. V \in SUBSET Value /\ \A x \in V : x \in Int
      BY BitmapHas, WidthIsANumber
    <3> HIDE DEF v, V
    <3>3. ASSUME NEW x \in V, \A w \in V : w >= x PROVE x = v
      BY <3>1, <3>2, <3>3
    <3> QED
      BY <3>1, <3>2, <3>3
  <2> QED
    BY <2>1, <2>2
<1> HIDE DEF v
<1>3. Represents(after.bm, V \ {v}) /\ (after.result <=> v \in V) /\ after.result \in BOOLEAN
  BY <1>2, ValueRemoved, RemovingIsAnswered
<1> HIDE DEF after, E
<1>4. {x \in {v} : after.result} = E /\ V \ {v} = V \ E
  BY <1>2, <1>3
<1>5. c.op = "shift"
  OBVIOUS
<1> HIDE DEF c
<1>6. Promise!After(V, c) = V \ E
  BY <1>5, PromisedEnds DEF E
<1>8. Promise!Answers(V, c) = {E}
  BY <1>5, PromisedPop, PromisedShift DEF E
<1>7. Represents(after.bm, Promise!After(V, c)) /\ {x \in {v} : after.result} \in Promise!Answers(V, c)
  BY <1>3, <1>4, <1>6, <1>8
<1> QED
  BY <1>1, <1>7, CallDoes DEF c, after, v

\* What Clear does and answers is promised.
LEMMA ClearDoes ==
  ASSUME Represents(bm, Values(bm)), Clear
  PROVE  Does
<1> DEFINE V == Values(bm)
           c == [op |-> "clear", args |-> Nothing]
<1>1. Returns("clear", Nothing, Empty, {DOMAIN bm # {}})
  BY DEF Clear
<1>2. DOMAIN bm # {} <=> V # {}
  <2>1. /\ V \in SUBSET Value
        /\ \A k \in DOMAIN bm : k \in Key /\ Chunk(V, k) # {}
        /\ \A k \in Key : k \notin DOMAIN bm => Chunk(V, k) = {}
    BY BitmapHas
  <2>2. \A v \in V : high(v) \in Key /\ Chunk(V, high(v)) # {}
    BY <2>1, ChunkHas
  <2>3. \A k : Chunk(V, k) # {} => V # {}
    BY DEF Chunk
  <2> QED
    BY <2>1, <2>2, <2>3
<1>3. {DOMAIN bm # {}} = {V # {}}
  BY <1>2
<1>4. c.op = "clear"
  OBVIOUS
<1> HIDE DEF c
<1>5. Promise!After(V, c) = {} /\ Promise!Answers(V, c) = {{V # {}}}
  BY <1>4, PromisedEnds, PromisedAnswers
<1>6. Represents(Empty, Promise!After(V, c)) /\ {DOMAIN bm # {}} \in Promise!Answers(V, c)
  BY <1>3, <1>5, EmptyBitmap
<1> QED
  BY <1>1, <1>6, CallDoes DEF c

\* What RunOptimize does and answers is promised.
LEMMA RunOptimizeDoes ==
  ASSUME Represents(bm, Values(bm)), RunOptimize
  PROVE  Does
<1> DEFINE V == Values(bm)
           c == [op |-> "runOptimize", args |-> Nothing]
           after == roaring_bitmap_run_optimize(bm)
<1>1. Returns("runOptimize", Nothing, after, {HasRuns(after)})
  BY DEF RunOptimize
<1>2. Represents(after, V)
  BY RunsOptimized
<1> HIDE DEF after
<1>3. HasRuns(after) \in BOOLEAN
  BY DEF HasRuns
<1>4. c.op = "runOptimize"
  OBVIOUS
<1> HIDE DEF c
<1>5. Promise!After(V, c) = V /\ Promise!Answers(V, c) = {{TRUE}, {FALSE}}
  BY <1>4, PromisedEnds, PromisedAnswers
<1>6. Represents(after, Promise!After(V, c)) /\ {HasRuns(after)} \in Promise!Answers(V, c)
  BY <1>2, <1>3, <1>5
<1> QED
  BY <1>1, <1>6, CallDoes DEF c, after

\* What RemoveRunCompression does and answers is promised.
LEMMA RemoveRunCompressionDoes ==
  ASSUME Represents(bm, Values(bm)), RemoveRunCompression
  PROVE  Does
<1> DEFINE V == Values(bm)
           c == [op |-> "removeRunCompression", args |-> Nothing]
           after == roaring_bitmap_remove_run_compression(bm)
<1>1. Returns("removeRunCompression", Nothing, after, {HasRuns(bm)})
  BY DEF RemoveRunCompression
<1>2. Represents(after, V)
  BY RunsRemoved
<1> HIDE DEF after
<1>3. HasRuns(bm) \in BOOLEAN
  BY DEF HasRuns
<1>4. c.op = "removeRunCompression"
  OBVIOUS
<1> HIDE DEF c
<1>5. Promise!After(V, c) = V /\ Promise!Answers(V, c) = {{TRUE}, {FALSE}}
  BY <1>4, PromisedEnds, PromisedAnswers
<1>6. Represents(after, Promise!After(V, c)) /\ {HasRuns(bm)} \in Promise!Answers(V, c)
  BY <1>2, <1>3, <1>5
<1> QED
  BY <1>1, <1>6, CallDoes DEF c, after

\* What AddRange does and answers is promised.
LEMMA AddRangeDoes ==
  ASSUME Represents(bm, Values(bm)), AddRange
  PROVE  Does
<1> DEFINE V == Values(bm)
           r(args) == getRangeOperationParameters(args)
<1>1. PICK args \in Ranges :
        Returns("addRange", args, IF r(args).valid THEN roaring_bitmap_add_range_closed(bm, r(args).first, r(args).end - 1) ELSE bm, Nothing)
  BY Zenon DEF AddRange
<1> DEFINE p == getRangeOperationParameters(args)
           B == Promise!Between(args[1], args[2])
           after == IF p.valid THEN roaring_bitmap_add_range_closed(bm, p.first, p.end - 1) ELSE bm
           c == [op |-> "addRange", args |-> args]
<1>2. IsRange(p, B)
  BY ArgumentsAre, RangeOfArguments
<1>3. Returns("addRange", args, after, Nothing)
  BY <1>1
<1> HIDE DEF p, B
<1>4. ASSUME p.valid PROVE Represents(after, V \cup B)
  <2> DEFINE first == p.first
             last == p.end - 1
  <2>1. first \in Value /\ last \in Value /\ first <= last /\ B = first .. last /\ p.end = last + 1
    BY <1>2, <1>4 DEF IsRange
  <2>2. after = roaring_bitmap_add_range_closed(bm, first, last)
    BY <1>4, <2>1
  <2> HIDE DEF first, last
  <2>3. Represents(roaring_bitmap_add_range_closed(bm, first, last), V \cup (first .. last))
    BY <2>1, RangeAdded
  <2>4. Represents(after, V \cup B)
    BY <2>1, <2>2, <2>3
  <2> QED
    BY <2>4
<1>5. ASSUME ~ p.valid PROVE Represents(after, V \cup B)
  <2>1. B = {}
    BY <1>2, <1>5 DEF IsRange
  <2>2. V \cup B = V
    BY <2>1 DEF SymDiff
  <2> QED
    BY <1>5, <2>2
<1>6. Represents(after, V \cup B)
  BY <1>4, <1>5
<1> HIDE DEF after
<1>7. c.op = "addRange" /\ c.args = args
  OBVIOUS
<1> HIDE DEF c
<1>8. Promise!After(V, c) = V \cup B
  BY <1>7, PromisedRanges DEF B
<1>9. Promise!Answers(V, c) = {Nothing}
  BY <1>7, PromisedAnswers
<1>10. Nothing \in Promise!Answers(V, c)
  BY <1>9
<1> QED
  BY <1>3, <1>6, <1>8, <1>10, CallDoes DEF c

\* What RemoveRange does and answers is promised.
LEMMA RemoveRangeDoes ==
  ASSUME Represents(bm, Values(bm)), RemoveRange
  PROVE  Does
<1> DEFINE V == Values(bm)
           r(args) == getRangeOperationParameters(args)
<1>1. PICK args \in Ranges :
        Returns("removeRange", args, IF r(args).valid THEN roaring_bitmap_remove_range_closed(bm, r(args).first, r(args).end - 1) ELSE bm, Nothing)
  BY Zenon DEF RemoveRange
<1> DEFINE p == getRangeOperationParameters(args)
           B == Promise!Between(args[1], args[2])
           after == IF p.valid THEN roaring_bitmap_remove_range_closed(bm, p.first, p.end - 1) ELSE bm
           c == [op |-> "removeRange", args |-> args]
<1>2. IsRange(p, B)
  BY ArgumentsAre, RangeOfArguments
<1>3. Returns("removeRange", args, after, Nothing)
  BY <1>1
<1> HIDE DEF p, B
<1>4. ASSUME p.valid PROVE Represents(after, V \ B)
  <2> DEFINE first == p.first
             last == p.end - 1
  <2>1. first \in Value /\ last \in Value /\ first <= last /\ B = first .. last /\ p.end = last + 1
    BY <1>2, <1>4 DEF IsRange
  <2>2. after = roaring_bitmap_remove_range_closed(bm, first, last)
    BY <1>4, <2>1
  <2> HIDE DEF first, last
  <2>3. Represents(roaring_bitmap_remove_range_closed(bm, first, last), V \ (first .. last))
    BY <2>1, RangeRemoved
  <2>4. Represents(after, V \ B)
    BY <2>1, <2>2, <2>3
  <2> QED
    BY <2>4
<1>5. ASSUME ~ p.valid PROVE Represents(after, V \ B)
  <2>1. B = {}
    BY <1>2, <1>5 DEF IsRange
  <2>2. V \ B = V
    BY <2>1 DEF SymDiff
  <2> QED
    BY <1>5, <2>2
<1>6. Represents(after, V \ B)
  BY <1>4, <1>5
<1> HIDE DEF after
<1>7. c.op = "removeRange" /\ c.args = args
  OBVIOUS
<1> HIDE DEF c
<1>8. Promise!After(V, c) = V \ B
  BY <1>7, PromisedRanges DEF B
<1>9. Promise!Answers(V, c) = {Nothing}
  BY <1>7, PromisedAnswers
<1>10. Nothing \in Promise!Answers(V, c)
  BY <1>9
<1> QED
  BY <1>3, <1>6, <1>8, <1>10, CallDoes DEF c

\* What FlipRange does and answers is promised.
LEMMA FlipRangeDoes ==
  ASSUME Represents(bm, Values(bm)), FlipRange
  PROVE  Does
<1> DEFINE V == Values(bm)
           r(args) == getRangeOperationParameters(args)
<1>1. PICK args \in Ranges :
        Returns("flipRange", args, IF r(args).valid THEN roaring_bitmap_flip_inplace(bm, r(args).first, r(args).end) ELSE bm, Nothing)
  BY Zenon DEF FlipRange
<1> DEFINE p == getRangeOperationParameters(args)
           B == Promise!Between(args[1], args[2])
           after == IF p.valid THEN roaring_bitmap_flip_inplace(bm, p.first, p.end) ELSE bm
           c == [op |-> "flipRange", args |-> args]
<1>2. IsRange(p, B)
  BY ArgumentsAre, RangeOfArguments
<1>3. Returns("flipRange", args, after, Nothing)
  BY <1>1
<1> HIDE DEF p, B
<1>4. ASSUME p.valid PROVE Represents(after, SymDiff(V, B))
  <2> DEFINE first == p.first
             last == p.end - 1
  <2>1. first \in Value /\ last \in Value /\ first <= last /\ B = first .. last /\ p.end = last + 1
    BY <1>2, <1>4 DEF IsRange
  <2>2. after = roaring_bitmap_flip_inplace(bm, first, last + 1)
    BY <1>4, <2>1
  <2> HIDE DEF first, last
  <2>3. Represents(roaring_bitmap_flip_inplace(bm, first, last + 1), SymDiff(V, (first .. last)))
    BY <2>1, RangeFlipped
  <2>4. Represents(after, SymDiff(V, B))
    BY <2>1, <2>2, <2>3
  <2> QED
    BY <2>4
<1>5. ASSUME ~ p.valid PROVE Represents(after, SymDiff(V, B))
  <2>1. B = {}
    BY <1>2, <1>5 DEF IsRange
  <2>2. SymDiff(V, B) = V
    BY <2>1 DEF SymDiff
  <2> QED
    BY <1>5, <2>2
<1>6. Represents(after, SymDiff(V, B))
  BY <1>4, <1>5
<1> HIDE DEF after
<1>7. c.op = "flipRange" /\ c.args = args
  OBVIOUS
<1> HIDE DEF c
<1>8. Promise!After(V, c) = SymDiff(V, B)
  BY <1>7, PromisedRanges DEF B
<1>9. Promise!Answers(V, c) = {Nothing}
  BY <1>7, PromisedAnswers
<1>10. Nothing \in Promise!Answers(V, c)
  BY <1>9
<1> QED
  BY <1>3, <1>6, <1>8, <1>10, CallDoes DEF c

\* What FromRange does and answers is promised.
LEMMA FromRangeDoes ==
  ASSUME Represents(bm, Values(bm)), FromRange
  PROVE  Does
<1> DEFINE V == Values(bm)
           r(args) == getRangeOperationParameters(args)
<1>1. PICK args \in Ranges, n \in Steps :
        /\ StepFits(r(args), RangeStep(n))
        /\ Returns("fromRange", Append(args, n),
                   IF r(args).valid THEN roaring_bitmap_from_range(r(args).first, r(args).end, RangeStep(n)) ELSE Empty, Nothing)
  BY Zenon DEF FromRange
<1> DEFINE p == getRangeOperationParameters(args)
           B == Promise!Between(args[1], args[2])
           step == RangeStep(n)
           after == IF p.valid THEN roaring_bitmap_from_range(p.first, p.end, step) ELSE Empty
           W == Promise!Stepped(B, n)
           c == [op |-> "fromRange", args |-> Append(args, n)]
<1>2. args \in Number \X Number /\ n \in Number
  BY ArgumentsAre
<1>3. IsRange(p, B)
  BY <1>2, RangeOfArguments
<1>4. Returns("fromRange", Append(args, n), after, Nothing) /\ StepFits(p, step)
  BY <1>1
<1>5. step \in Nat \ {0} /\ W = {v \in B : (v - Min(B)) % step = 0}
  BY <1>2, StepOfArgument
<1> HIDE DEF p, B, step, W
<1>6. ASSUME p.valid PROVE Represents(after, W)
  <2> DEFINE first == p.first
             end == p.end
  <2>1. first \in Value /\ end - 1 \in Value /\ end \in Nat /\ first <= end - 1 /\ B = first .. end - 1
    BY <1>3, <1>6 DEF IsRange
  <2>2. RangeEnds(first, end, step) /\ ~ RangeWraps(first, end, step)
    BY <1>4, <1>6 DEF StepFits
  <2>3. after = roaring_bitmap_from_range(first, end, step)
    BY <1>6
  <2> HIDE DEF first, end, after
  <2>4. first \in Int /\ end \in Int /\ end <= UINT32_MAX + 1 /\ first < end
    <3>1. UINT32_MAX \in Nat /\ Value = 0 .. UINT32_MAX
      BY WidthIsANumber DEF Value
    <3> QED
      BY <2>1, <3>1
  <2>5. Represents(roaring_bitmap_from_range(first, end, step), SteppedRange(first, end, step))
    BY <1>5, <2>1, <2>2, <2>4, RangeMade
  <2>6. Min(B) = first
    <3>1. B \in SUBSET Int /\ B # {} /\ (\A x \in B : first <= x) /\ first \in B
      <4>1. \A x : x \in B <=> x \in Int /\ first <= x /\ x <= end - 1
        BY <2>1, <2>4
      <4>2. first \in B
        BY <2>1, <2>4, <4>1
      <4> QED
        BY <4>1, <4>2
    <3>2. Min(B) \in B /\ \A x \in B : Min(B) <= x
      BY <2>4, <3>1, MinOfSome
    <3>3. Min(B) <= first /\ first <= Min(B) /\ Min(B) \in Int
      BY <3>1, <3>2
    <3> QED
      BY <2>4, <3>3
  <2>7. SteppedRange(first, end, step) = W
    BY <1>5, <2>1, <2>6 DEF SteppedRange
  <2> QED
    BY <2>3, <2>5, <2>7
<1>7. ASSUME ~ p.valid PROVE Represents(after, W)
  <2>1. B = {}
    BY <1>3, <1>7 DEF IsRange
  <2>2. W = {}
    BY <1>5, <2>1
  <2> QED
    BY <1>7, <2>2, EmptyBitmap
<1>8. Represents(after, W)
  BY <1>6, <1>7
<1> HIDE DEF after
<1>9. c.op = "fromRange" /\ c.args[1] = args[1] /\ c.args[2] = args[2] /\ c.args[3] = n
  <2>1. PICK a \in Number, b \in Number : args = <<a, b>>
    BY <1>2
  <2>2. IsThree(Append(<<a, b>>, n), a, b, n)
    BY <1>2, AppendToTwo
  <2>3. Append(args, n)[1] = args[1] /\ Append(args, n)[2] = args[2] /\ Append(args, n)[3] = n
    BY <2>1, <2>2 DEF IsThree
  <2> QED
    BY <2>3
<1> HIDE DEF c
<1>10. Promise!After(V, c) = W
  BY <1>9, PromisedRanges DEF W, B
<1>11. Promise!Answers(V, c) = {Nothing}
  <2>1. c.op = "fromRange"
    BY <1>9
  <2> QED
    BY <2>1, NothingPromised
<1>12. Nothing \in Promise!Answers(V, c)
  BY <1>11
<1> QED
  BY <1>4, <1>8, <1>10, <1>12, CallDoes DEF c

\* What AddOffset does and answers is promised.
LEMMA AddOffsetDoes ==
  ASSUME Represents(bm, Values(bm)), AddOffset
  PROVE  Does
<1> DEFINE V == Values(bm)
<1>1. PICK n \in Offsets : Returns("addOffset", n, roaring_bitmap_add_offset(bm, ClampedOffset(n)), Nothing)
  BY DEF AddOffset
<1> DEFINE o == ClampedOffset(n)
           W == Promise!Moved(V, n)
           c == [op |-> "addOffset", args |-> n]
<1>2. n \in Number /\ V \in SUBSET Value
  BY ArgumentsAre, BitmapHas
<1>3. o \in Int /\ W = MovedBy(V, o)
  BY <1>2, OffsetOfArgument
<1> HIDE DEF o
<1>4. Represents(roaring_bitmap_add_offset(bm, o), W)
  BY <1>3, BitmapMoved
<1>5. c.op = "addOffset" /\ c.args = n
  OBVIOUS
<1> HIDE DEF c, W
<1>6. Promise!After(V, c) = W /\ Promise!Answers(V, c) = {Nothing}
  BY <1>5, PromisedRanges, PromisedAnswers DEF W
<1>7. Nothing \in Promise!Answers(V, c)
  BY <1>6
<1> QED
  BY <1>1, <1>4, <1>6, <1>7, CallDoes DEF c, o

\* A list of bitmaps.
LEMMA ListOfBitmaps ==
  ASSUME Represents(bm, Values(bm)), NEW xs \in ListsOfBitmaps
  PROVE  LET Vs == ValuesOfEach(xs)
         IN  /\ xs \in Seq({bm} \cup Companions)
             /\ \A i \in 1 .. Len(xs) : Represents(xs[i], Vs[i])
             /\ DOMAIN Vs = 1 .. Len(xs)
<1> DEFINE X == {bm} \cup Companions
           Vs == ValuesOfEach(xs)
<1>1. xs \in Seq(X)
  <2> HIDE DEF X
  <2>1. bm \in X /\ \A x \in Companions : x \in X
    BY DEF X
  <2>2. /\ <<>> \in Seq(X) /\ <<bm>> \in Seq(X)
        /\ \A x \in Companions : <<bm, bm, x>> \in Seq(X)
        /\ \A x, y \in Companions : <<x, bm, y>> \in Seq(X) /\ <<x, bm, y, bm>> \in Seq(X)
    BY <2>1
  <2>3. \/ xs \in {<<>>, <<bm>>} \/ xs \in {<<bm, bm, x>> : x \in Companions}
        \/ xs \in UNION {{<<x, bm, y>>, <<x, bm, y, bm>>} : x, y \in Companions}
    BY DEF ListsOfBitmaps
  <2>4. CASE xs \in {<<>>, <<bm>>}
    BY <2>2, <2>4
  <2>5. CASE xs \in {<<bm, bm, x>> : x \in Companions}
    BY <2>2, <2>5
  <2>6. CASE xs \in UNION {{<<x, bm, y>>, <<x, bm, y, bm>>} : x, y \in Companions}
    <3> DEFINE both(x, y) == {<<x, bm, y>>, <<x, bm, y, bm>>}
    <3>1. PICK x \in Companions, y \in Companions : xs \in both(x, y)
      <4> HIDE DEF both
      <4>1. xs \in UNION {both(x, y) : x, y \in Companions}
        BY <2>6 DEF both
      <4> QED
        BY <4>1
    <3> QED
      BY <2>2, <3>1
  <2> QED
    BY <2>3, <2>4, <2>5, <2>6
<1>2. \A x \in X : Represents(x, Values(x))
  BY OperandsAre
<1> HIDE DEF X
<1>3. DOMAIN xs = 1 .. Len(xs) /\ \A i \in 1 .. Len(xs) : xs[i] \in X
  BY <1>1
<1>4. DOMAIN Vs = 1 .. Len(xs) /\ \A i \in 1 .. Len(xs) : Vs[i] = Values(xs[i])
  BY <1>3 DEF ValuesOfEach
<1> QED
  BY <1>1, <1>2, <1>3, <1>4 DEF X

\* What OrMany does and answers is promised.
LEMMA OrManyDoes ==
  ASSUME Represents(bm, Values(bm)), OrMany
  PROVE  Does
<1> DEFINE V == Values(bm)
<1>1. PICK xs \in ListsOfBitmaps : \E after \in roaring_bitmap_or_many_heap(xs) :
        Returns("orMany", ValuesOfEach(xs), after, Nothing)
  BY DEF OrMany
<1>2. PICK after \in roaring_bitmap_or_many_heap(xs) : Returns("orMany", ValuesOfEach(xs), after, Nothing)
  BY <1>1
<1> DEFINE Vs == ValuesOfEach(xs)
           W == UNION {Vs[i] : i \in 1 .. Len(xs)}
           c == [op |-> "orMany", args |-> Vs]
<1>3. xs \in Seq({bm} \cup Companions) /\ (\A i \in 1 .. Len(xs) : Represents(xs[i], Vs[i])) /\ DOMAIN Vs = 1 .. Len(xs)
  BY ListOfBitmaps
<1> HIDE DEF Vs
<1>4. Represents(after, W)
  BY <1>3, ManyUnited
<1>5. ToSet(Vs) = {Vs[i] : i \in 1 .. Len(xs)}
  BY <1>3 DEF ToSet
<1>6. c.op = "orMany" /\ c.args = Vs
  OBVIOUS
<1> HIDE DEF c
<1>7. Promise!After(V, c) = UNION ToSet(Vs)
  BY <1>6, PromisedBitmaps
<1>9. Promise!Answers(V, c) = {Nothing}
  BY <1>6, NothingPromised
<1>8. Represents(after, Promise!After(V, c)) /\ Nothing \in Promise!Answers(V, c)
  BY <1>4, <1>5, <1>7, <1>9
<1> QED
  BY <1>2, <1>8, CallDoes DEF c, Vs

\* What XorMany does and answers is promised.
LEMMA XorManyDoes ==
  ASSUME Represents(bm, Values(bm)), XorMany
  PROVE  Does
<1> DEFINE V == Values(bm)
<1>1. PICK xs \in ListsOfBitmaps : Returns("xorMany", ValuesOfEach(xs), roaring_bitmap_xor_many(xs), Nothing)
  BY DEF XorMany
<1> DEFINE Vs == ValuesOfEach(xs)
           N == Len(xs)
           after == roaring_bitmap_xor_many(xs)
           W == {v \in UNION ToSet(Vs) : Cardinality({i \in DOMAIN Vs : v \in Vs[i]}) % 2 = 1}
           c == [op |-> "xorMany", args |-> Vs]
<1>3. xs \in Seq({bm} \cup Companions) /\ (\A i \in 1 .. N : Represents(xs[i], Vs[i])) /\ DOMAIN Vs = 1 .. N
  BY ListOfBitmaps
<1> HIDE DEF Vs
<1>4. Represents(after, Odd(Vs, N))
  BY <1>3, ManyDiffer
<1>5. \A v : v \in UNION ToSet(Vs) <=> \E i \in 1 .. N : v \in Vs[i]
  BY <1>3 DEF ToSet
<1>6. \A i \in 1 .. N : Vs[i] \in SUBSET Value
  BY <1>3, BitmapHas
<1>7. \A v : {i \in DOMAIN Vs : v \in Vs[i]} = Having(v, Vs, N)
  BY <1>3 DEF Having
<1>8. ASSUME NEW v, v \notin UNION ToSet(Vs) PROVE Cardinality(Having(v, Vs, N)) % 2 # 1
  <2>1. Having(v, Vs, N) = {}
    BY <1>5, <1>8 DEF Having
  <2>2. Cardinality({}) = 0
    BY FS_EmptySet
  <2> QED
    BY <2>1, <2>2
<1>9. Odd(Vs, N) = W
  <2>1. W = {v \in UNION ToSet(Vs) : Cardinality(Having(v, Vs, N)) % 2 = 1}
    BY <1>7
  <2> HIDE DEF W, N
  <2>2. \A v : v \in W <=> v \in UNION ToSet(Vs) /\ Cardinality(Having(v, Vs, N)) % 2 = 1
    BY <2>1
  <2>3. \A v : v \in Odd(Vs, N) <=> v \in Value /\ Cardinality(Having(v, Vs, N)) % 2 = 1
    BY DEF Odd
  <2> QED
    BY <1>5, <1>6, <1>8, <2>2, <2>3
<1> HIDE DEF W, after
<1>10. c.op = "xorMany" /\ c.args = Vs
  OBVIOUS
<1> HIDE DEF c
<1>11. Promise!After(V, c) = W
  BY <1>10, PromisedXorMany DEF W
<1>13. Promise!Answers(V, c) = {Nothing}
  BY <1>10, PromisedAnswers
<1>12. Represents(after, Promise!After(V, c)) /\ Nothing \in Promise!Answers(V, c)
  BY <1>4, <1>9, <1>11, <1>13
<1> QED
  BY <1>1, <1>12, CallDoes DEF c, Vs, after

-----------------------------------------------------------------------------
(* The invariant and the promise.                                           *)

\* Between two calls the bitmap stands for its values.
Inv == Represents(bm, Values(bm))

\* The invariant says what TypeOK and WellFormed say together.
LEMMA InvIsThat == Inv <=> TypeOK /\ WellFormed
  BY ValidStands DEF Inv, TypeOK, WellFormed

\* A new bitmap has no values.
LEMMA InvInit == Init => Inv
<1>1. Represents(Empty, {})
  BY EmptyBitmap
<1>2. Values(Empty) = {}
  BY <1>1, BitmapHas
<1> QED
  BY <1>1, <1>2 DEF Init, Inv

\* Every step is a call or takes a new bitmap.
LEMMA CallOrTake == Inv /\ Next => Does \/ Take
<1> SUFFICES ASSUME Represents(bm, Values(bm)), Next PROVE Does \/ Take
  BY DEF Inv
<1>1. CASE Add \/ TryAdd \/ RemoveEach
  BY <1>1, AddDoes, TryAddDoes, RemoveEachDoes
<1>2. CASE AddMany \/ AddBitmap \/ RemoveMany \/ RemoveBitmap \/ CopyElements \/ CopyFrom
  BY <1>2, AddManyDoes, AddBitmapDoes, RemoveManyDoes, RemoveBitmapDoes, CopyElementsDoes, CopyFromDoes
<1>3. CASE AndInPlace \/ XorInPlace \/ Pop \/ Shift \/ Clear
  BY <1>3, AndInPlaceDoes, XorInPlaceDoes, PopDoes, ShiftDoes, ClearDoes
<1>4. CASE RunOptimize \/ RemoveRunCompression
  BY <1>4, RunOptimizeDoes, RemoveRunCompressionDoes
<1>5. CASE AddRange \/ RemoveRange \/ FlipRange \/ FromRange \/ AddOffset
  BY <1>5, AddRangeDoes, RemoveRangeDoes, FlipRangeDoes, FromRangeDoes, AddOffsetDoes
<1>6. CASE And \/ Or \/ Xor \/ AndNot \/ OrMany \/ XorMany
  BY <1>6, AndDoes, OrDoes, XorDoes, AndNotDoes, OrManyDoes, XorManyDoes
<1>7. CASE Take
  BY <1>7
<1> QED
  BY <1>1, <1>2, <1>3, <1>4, <1>5, <1>6, <1>7 DEF Next

\* A call that does what is promised is a call of IntegerSet.
LEMMA CallPromised ==
  ASSUME Does
  PROVE  Inv' /\ Promise!Call
<1> DEFINE W == Promise!After(Values(bm), call')
<1>1. Represents(bm', W)
  BY DEF Does
<1>2. Values(bm') = W
  BY <1>1, BitmapHas
<1>3. Inv'
  BY <1>1, <1>2 DEF Inv
<1>4. Promise!Call
  BY <1>2 DEF Does, Promise!Call, Promise!Idle, Idle
<1> QED
  BY <1>3, <1>4

\* Taking the result of a static method, too.
LEMMA TakePromised ==
  ASSUME Inv, Take
  PROVE  Inv' /\ Promise!Take
<1>1. bm' = bm /\ call # Idle /\ call' = Idle /\ ret' = Nothing
  BY DEF Take
<1>2. Values(bm)' = Values(bm)
  BY <1>1
<1>3. Promise!Take
  BY <1>1, <1>2 DEF Promise!Take, Promise!Idle, Idle, Promise!Nothing, Nothing
<1> QED
  BY <1>1, <1>3 DEF Inv

\* No step leads out of the invariant.
LEMMA InvStep == Inv /\ [Next]_vars => Inv'
<1>1. Inv /\ Next => Inv'
  BY CallOrTake, CallPromised, TakePromised
<1>2. Inv /\ UNCHANGED vars => Inv'
  BY DEF Inv, vars
<1> QED
  BY <1>1, <1>2

\* The bitmap always stands for its values.
THEOREM InvHolds == Spec => []Inv
  BY InvInit, InvStep, PTL DEF Spec

\* The containers of the bitmap are always of the right types (TypeOK), whatever methods of
\* RoaringBitmap32 are called on it, in whatever order.
THEOREM TypesHold == Spec => []TypeOK
<1>1. Inv => TypeOK
  BY InvIsThat
<1> QED
  BY <1>1, InvHolds, PTL

\* Every method leaves a bitmap that roaring_bitmap_internal_validate accepts (WellFormed): no empty
\* container, every cardinality right, arrays not too long, bitsets not too short, runs apart.
THEOREM StaysWellFormed == Spec => []WellFormed
<1>1. Inv => WellFormed
  BY InvIsThat
<1> QED
  BY <1>1, InvHolds, PTL

\* Every step is one of the abstract set, or changes nothing of it.
LEMMA StepPromised == Inv /\ [Next]_vars => [Promise!Next]_<<Values(bm), call, ret>>
<1>1. Inv /\ Next => Promise!Next
  BY CallOrTake, CallPromised, TakePromised DEF Promise!Next
<1>2. UNCHANGED vars => UNCHANGED <<Values(bm), call, ret>>
  BY DEF vars
<1> QED
  BY <1>1, <1>2

\* The methods of RoaringBitmap32 change the set of values as those of a set of 32-bit integers
\* do, and answer as those do (ImplementsIntegerSet): every step is one of IntegerSet.
THEOREM PromiseKept == Spec => ImplementsIntegerSet
<1>1. Init => Promise!Init
  <2>1. Values(Empty) = {}
    BY EmptyBitmap, BitmapHas
  <2> QED
    BY <2>1 DEF Init, Promise!Init, Promise!Idle, Idle, Promise!Nothing, Nothing
<1> QED
  BY <1>1, StepPromised, InvHolds, PTL DEF Spec, Promise!Spec, ImplementsIntegerSet

-----------------------------------------------------------------------------
(* Queries. *)

\* What is assumed of the arguments of the queries.
LEMMA QueryArgumentsAre == (\A n \in Numbers : n \in Number) /\ kChunkSize \in Nat \ {0}
  BY QueryAssumption DEF QueryAssumption

\* A bitmap that is given as an argument is recognized as one.
LEMMA BitmapsAreGiven ==
  ASSUME NEW x, NEW H, Represents(x, H)
  PROVE  IsBitmap(x)
<1>1. IsContainers(x)
  BY BitmapHas, ValidStands
<1>2. x \in [DOMAIN x -> Container] /\ DOMAIN x \in SUBSET Key
  BY <1>1 DEF IsContainers
<1> QED
  BY ONLY <1>2, QueryAssumption DEF QueryAssumption, IsBitmap

\* Arguments that are taken without conversion are the integers of 32 bits.
LEMMA Uint32Is ==
  ASSUME NEW n \in Number
  PROVE  /\ IsUint32(n) <=> \E v \in Value : n = 2 * v
         /\ IsUint32(n) => n \in Int /\ n \div 2 \in Value /\ n = 2 * (n \div 2)
         /\ \A v \in Value : v \in Int /\ 2 * v \in Number /\ IsUint32(2 * v) /\ (2 * v) \div 2 = v
<1>1. \A v : v \in Value <=> v \in Int /\ 0 <= v /\ v <= UINT32_MAX
  BY ValuesAreNumbers DEF Value
<1>2. UINT32_MAX \in Int
  BY ValuesAreNumbers, ContainerConstants, KeyConstants DEF UINT32_MAX
<1>3. IsNumber(n) <=> n \in Int
  BY NumbersAre
<1>4. IsUint32(n) => n \in Int /\ n \div 2 \in Value /\ n = 2 * (n \div 2)
  <2> SUFFICES ASSUME IsUint32(n) PROVE n \in Int /\ n \div 2 \in Value /\ n = 2 * (n \div 2)
    OBVIOUS
  <2>1. n \in Int /\ n % 2 = 0 /\ 0 <= n /\ n <= 2 * UINT32_MAX
    BY <1>3 DEF IsUint32
  <2>2. n \div 2 \in Int /\ n = 2 * (n \div 2) /\ 0 <= n \div 2 /\ n \div 2 <= UINT32_MAX
    BY <1>2, <2>1
  <2> QED
    BY <1>1, <2>1, <2>2
<1>5. \A v \in Value : v \in Int /\ 2 * v \in Number /\ IsUint32(2 * v) /\ (2 * v) \div 2 = v
  <2> TAKE v \in Value
  <2>1. v \in Int /\ 0 <= v /\ v <= UINT32_MAX
    BY <1>1
  <2>2. 2 * v \in Int /\ (2 * v) % 2 = 0 /\ 0 <= 2 * v /\ 2 * v <= 2 * UINT32_MAX /\ (2 * v) \div 2 = v
    BY <1>2, <2>1
  <2>3. 2 * v \in Number
    BY <2>2 DEF Number
  <2>4. IsNumber(2 * v)
    BY <2>2, <2>3, NumbersAre
  <2> QED
    BY <2>1, <2>2, <2>3, <2>4 DEF IsUint32
<1> QED
  BY <1>4, <1>5

\* The positions of the values are integers of 32 bits.
LEMMA Positions32 ==
  ASSUME NEW H \in SUBSET Value
  PROVE  /\ IsFiniteSet(H) /\ Cardinality(H) \in Nat /\ Cardinality(H) <= UINT32_MAX + 1
         /\ \A v : Below(H, v) = Cardinality(Before(H, v))
         /\ \A v \in H : Below(H, v) \in Nat /\ Below(H, v) < Cardinality(H) /\ Below(H, v) \in Value
<1>1. IsFiniteSet(H) /\ Cardinality(H) \in Nat /\ H \in SUBSET Int
  BY ValuesAreFinite, ValuesAreNumbers
<1>2. Cardinality(H) <= UINT32_MAX + 1 /\ UINT32_MAX \in Nat
  <2>1. UINT32_MAX + 1 \in Nat /\ UINT32_MAX \in Nat
    BY WidthIsANumber
  <2>2. IsFiniteSet(0 .. UINT32_MAX) /\ Cardinality(0 .. UINT32_MAX) = UINT32_MAX + 1
    BY <2>1, CountOfNumbers
  <2>3. H \in SUBSET (0 .. UINT32_MAX)
    BY DEF Value
  <2> QED
    BY <2>1, <2>2, <2>3, FS_Subset
<1>3. \A v : Below(H, v) = Cardinality(Before(H, v))
  BY DEF Below, Before
<1>4. \A v \in H : Cardinality(Before(H, v)) \in 0 .. Cardinality(H) - 1
  BY <1>1, PositionsOfNumbers
<1>5. \A v \in H : Below(H, v) \in Nat /\ Below(H, v) < Cardinality(H)
  BY <1>1, <1>3, <1>4
<1>6. \A v \in H : Below(H, v) \in Value
  <2> TAKE v \in H
  <2>1. Below(H, v) \in Int /\ 0 <= Below(H, v) /\ Below(H, v) <= UINT32_MAX
    BY <1>1, <1>2, <1>5
  <2> QED
    BY <2>1 DEF Value
<1> QED
  BY <1>1, <1>2, <1>3, <1>5, <1>6

\* size is the number of values.
LEMMA SizeIs == ASSUME NEW H, Represents(bm, H) PROVE getSize = Cardinality(H)
  BY CardinalityIsRight DEF getSize

\* at is the value at a position, counted from the end when it is negative.
LEMMA AtIs ==
  ASSUME NEW H, Represents(bm, H), NEW n \in Number
  PROVE  IF IsNumber(n)
         THEN at(n) = {v \in H : IsAt(H, v, Truncated(n)) \/ (n < 0 /\ IsAt(H, v, Truncated(n) + Cardinality(H)))}
         ELSE at(n) = {}
<1> DEFINE t == Truncated(n)
           c == Cardinality(H)
           d == t + (IF t < 0 THEN c ELSE 0)
           Found(i) == {v \in H : Below(H, v) = i}
<1>1. H \in SUBSET Value
  BY BitmapHas
<1>2. /\ c \in Nat /\ UINT32_MAX \in Nat
      /\ \A v \in H : Below(H, v) \in Nat /\ Below(H, v) < c /\ Below(H, v) \in Value
      /\ \A i : i \in Value <=> i \in Int /\ 0 <= i /\ i <= UINT32_MAX
  BY <1>1, Positions32, WidthIsANumber DEF Value
<1>3. \A i \in Nat : roaring_bitmap_select(bm, i) = Found(i)
  BY SelectIsRight, <1>1, Positions32
<1>4. IsNumber(n) <=> n \in Int
  BY NumbersAre
<1>5. v8ValueToUint32Fast(n) = {Truncated(m) : m \in {x \in {n} : IsNumber(x)}} \cap Value
  BY ValueOfArgument
<1>6. getSize = c
  BY SizeIs
<1>7. at(n) = IF v8ValueToUint32Fast(n) # {}
              THEN UNION {roaring_bitmap_select(bm, index) : index \in v8ValueToUint32Fast(n)}
              ELSE IF ~IsNumber(n) \/ d < 0 \/ d > UINT32_MAX THEN {} ELSE roaring_bitmap_select(bm, d)
  BY <1>6 DEF at
<1>8. CASE ~IsNumber(n)
  <2>1. v8ValueToUint32Fast(n) = {}
    BY <1>5, <1>8
  <2> QED
    BY <1>7, <1>8, <2>1
<1>9. CASE IsNumber(n)
  <2>1. n \in Int /\ t \in Int /\ (t < 0 => n < 0) /\ (t > 0 => n > 0)
    BY <1>4, <1>9 DEF Truncated
  <2>2. v8ValueToUint32Fast(n) = {t} \cap Value
    BY <1>5, <1>9
  <2> DEFINE A == {v \in H : IsAt(H, v, t) \/ (n < 0 /\ IsAt(H, v, t + c))}
  <2>3. \A v \in H : v \in A <=> Below(H, v) = t \/ (n < 0 /\ Below(H, v) = t + c)
    BY DEF IsAt
  <2>4. A \subseteq H
    OBVIOUS
  <2> HIDE DEF A, t, c
  <2>5. CASE t \in Value
    <3>1. at(n) = Found(t)
      <4>1. v8ValueToUint32Fast(n) = {t}
        BY <2>2, <2>5
      <4>2. at(n) = roaring_bitmap_select(bm, t)
        BY <1>7, <4>1
      <4> QED
        BY <1>2, <1>3, <2>5, <4>2
    <3>2. A = Found(t)
      <4>1. \A v \in H : n < 0 => Below(H, v) # t + c
        BY <1>2, <2>1, <2>5
      <4> QED
        BY <2>3, <2>4, <4>1
    <3> QED
      BY <1>9, <3>1, <3>2 DEF A, t, c
  <2>6. CASE t \notin Value /\ t < 0
    <3>1. d = t + c /\ v8ValueToUint32Fast(n) = {} /\ d \in Int
      BY <1>2, <2>1, <2>2, <2>6
    <3>2. \A v \in H : v \in A <=> Below(H, v) = d
      BY <1>2, <2>1, <2>3, <2>6, <3>1
    <3> HIDE DEF d
    <3>3. A = Found(d)
      BY <2>4, <3>2
    <3>4. at(n) = Found(d)
      <4>1. CASE d < 0 \/ d > UINT32_MAX
        <5>1. Found(d) = {}
          BY <1>2, <3>1, <4>1
        <5> QED
          BY <1>7, <3>1, <4>1, <5>1
      <4>2. CASE ~(d < 0 \/ d > UINT32_MAX)
        <5>1. d \in Nat
          BY <3>1, <4>2
        <5> QED
          BY <1>3, <1>7, <1>9, <3>1, <4>2, <5>1
      <4> QED
        BY <4>1, <4>2
    <3> QED
      BY <1>9, <3>3, <3>4 DEF A, t, c
  <2>7. CASE t \notin Value /\ ~(t < 0)
    <3>1. d = t /\ v8ValueToUint32Fast(n) = {} /\ d > UINT32_MAX
      BY <1>2, <2>1, <2>2, <2>7
    <3>2. at(n) = {}
      BY <1>7, <3>1
    <3>3. A = {}
      <4>1. \A v \in H : Below(H, v) # t /\ ~(n < 0 /\ Below(H, v) = t + c)
        BY <1>2, <2>1, <2>7, <3>1
      <4> QED
        BY <2>3, <2>4, <4>1
    <3> QED
      BY <1>9, <3>2, <3>3 DEF A, t, c
  <2> QED
    BY <2>5, <2>6, <2>7
<1> QED
  BY <1>8, <1>9

\* has, rank, select, at and the searches of one argument agree with the set of values.
LEMMA ElementsAre ==
  ASSUME NEW H, Represents(bm, H), NEW n \in Number
  PROVE  ElementsAgree(H, n)
<1> DEFINE v == n \div 2
<1>1. H \in SUBSET Value
  BY BitmapHas
<1>2. /\ IsUint32(n) <=> \E w \in Value : n = 2 * w
      /\ IsUint32(n) => n \in Int /\ v \in Value /\ v \in Int /\ n = 2 * v
      /\ \A w \in Value : w \in Int /\ IsUint32(2 * w)
  BY Uint32Is
<1>3. /\ Cardinality(H) \in Nat
      /\ \A w : Below(H, w) = Cardinality(Before(H, w))
      /\ \A w \in H : Below(H, w) \in Nat /\ Below(H, w) \in Value
  BY <1>1, Positions32
<1> HIDE DEF v
<1>4. has(n) <=> \E w \in H : n = 2 * w
  <2>1. CASE IsUint32(n)
    <3>1. has(n) <=> v \in H
      BY <1>2, <2>1, ContainsIsRight DEF has, v
    <3>2. \A w \in H : n = 2 * w <=> w = v
      BY <1>1, <1>2, <2>1
    <3> QED
      BY <1>2, <2>1, <3>1, <3>2
  <2>2. CASE ~IsUint32(n)
    BY <1>1, <1>2, <2>2 DEF has
  <2> QED
    BY <2>1, <2>2
<1>5. rankOf(n) = IF IsUint32(n) THEN Cardinality({w \in H : 2 * w <= n}) ELSE 0
  <2>1. CASE IsUint32(n)
    <3>1. rankOf(n) = Cardinality(UpTo(H, v))
      BY <1>2, <2>1, RankIsRight DEF rankOf, v
    <3>2. UpTo(H, v) = {w \in H : 2 * w <= n}
      BY <1>1, <1>2, <2>1 DEF UpTo
    <3> QED
      BY <2>1, <3>1, <3>2
  <2>2. CASE ~IsUint32(n)
    BY <2>2 DEF rankOf
  <2> QED
    BY <2>1, <2>2
<1>6. select(n) = {w \in H : n = 2 * Below(H, w)}
  <2>1. CASE IsUint32(n)
    <3>1. v \in Nat
      BY <1>2, <2>1, ValuesAreNumbers
    <3>2. select(n) = {w \in H : Cardinality(Before(H, w)) = v}
      BY <2>1, <3>1, SelectIsRight DEF select, v
    <3>3. \A w \in H : Cardinality(Before(H, w)) = v <=> n = 2 * Below(H, w)
      BY <1>2, <1>3, <2>1
    <3> QED
      BY <3>2, <3>3
  <2>2. CASE ~IsUint32(n)
    <3>1. \A w \in H : n # 2 * Below(H, w)
      BY <1>2, <1>3, <2>2
    <3> QED
      BY <2>2, <3>1 DEF select
  <2> QED
    BY <2>1, <2>2
<1>7. ASSUME ~has(n) PROVE indexOf(<<n>>) = -1 /\ lastIndexOf(<<n>>) = -1
  <2>1. <<n>>[1] = n /\ Len(<<n>>) = 1
    OBVIOUS
  <2>2. CASE IsUint32(n)
    <3>1. v \notin H
      BY <1>2, <1>4, <1>7, <2>2
    <3>2. roaring_bitmap_get_index(bm, n \div 2) = -1
      BY <1>2, <2>2, <3>1, RankIsRight DEF v
    <3> QED
      BY <2>1, <3>2 DEF indexOf, lastIndexOf
  <2>3. CASE ~IsUint32(n)
    BY <2>1, <2>3 DEF indexOf, lastIndexOf
  <2> QED
    BY <2>2, <2>3
<1> QED
  BY <1>4, <1>5, <1>6, <1>7, AtIs DEF ElementsAgree

\* The searches find the position of a value, unless they begin behind it, or before it.
LEMMA SearchesAre ==
  ASSUME NEW H, Represents(bm, H), NEW v \in H, NEW n \in Number
  PROVE  SearchesAgree(H, v, n)
<1> DEFINE from == IF IsNumber(n) THEN Truncated(n) ELSE 0
           start == IF from < 0 THEN from + Cardinality(H) ELSE from
           r == roaring_bitmap_get_index(bm, (2 * v) \div 2)
<1>1. H \in SUBSET Value
  BY BitmapHas
<1>2. v \in Value /\ IsUint32(2 * v) /\ (2 * v) \div 2 = v
  <2>1. 0 \in Number
    BY DEF Number
  <2> QED
    BY <1>1, <2>1, Uint32Is
<1>3. r = Below(H, v)
  <2>1. roaring_bitmap_get_index(bm, v) = Cardinality(Before(H, v))
    BY <1>2, RankIsRight
  <2> QED
    BY <1>1, <1>2, <2>1, Positions32
<1>4. FromIndex(n) = start
  BY SizeIs DEF FromIndex
<1>5. /\ <<2 * v>>[1] = 2 * v /\ Len(<<2 * v>>) = 1
      /\ <<2 * v, n>>[1] = 2 * v /\ <<2 * v, n>>[2] = n /\ Len(<<2 * v, n>>) = 2
  OBVIOUS
<1>6. indexOf(<<2 * v>>) = r /\ lastIndexOf(<<2 * v>>) = r
  BY <1>2, <1>5 DEF indexOf, lastIndexOf
<1>7. /\ indexOf(<<2 * v, n>>) = IF r < FromIndex(n) THEN -1 ELSE r
      /\ lastIndexOf(<<2 * v, n>>) = IF r > FromIndex(n) THEN -1 ELSE r
  BY <1>2, <1>5 DEF indexOf, lastIndexOf
<1>8. r \in Int /\ start \in Int
  <2>1. from \in Int /\ Cardinality(H) \in Int
    BY <1>1, NumbersAre, Positions32 DEF Truncated
  <2>2. r \in Int
    BY <1>1, <1>3, Positions32
  <2> HIDE DEF from, r
  <2> QED
    BY <2>1, <2>2
<1> DEFINE b == Below(H, v)
<1> HIDE DEF r, start
<1>9. (b >= start <=> ~(r < start)) /\ (b <= start <=> ~(r > start))
  BY <1>3, <1>8
<1>10. /\ indexOf(<<2 * v>>) = b /\ lastIndexOf(<<2 * v>>) = b
       /\ indexOf(<<2 * v, n>>) = IF b >= start THEN b ELSE -1
       /\ lastIndexOf(<<2 * v, n>>) = IF b <= start THEN b ELSE -1
  BY <1>3, <1>4, <1>6, <1>7, <1>9
<1> QED
  BY <1>10 DEF SearchesAgree, start

\* Size, statistics, has, rank, select, at, indexOf and lastIndexOf agree with the set of values
\* (QueriesAgree), whatever methods changed the bitmap before and however its containers are stored.
THEOREM QueriesRight == Spec => []QueriesAgree
<1>1. Inv => QueriesAgree
  <2> SUFFICES ASSUME Inv PROVE QueriesAgree
    OBVIOUS
  <2> DEFINE H == Values(bm)
  <2>1. Represents(bm, H)
    BY DEF Inv
  <2>2. StatisticsAgree(H)
    BY <2>1, StatisticsAddUp DEF StatisticsAgree, statistics
  <2>3. \A n \in Numbers : ElementsAgree(H, n) /\ \A v \in H : SearchesAgree(H, v, n)
    BY <2>1, ElementsAre, SearchesAre, QueryArgumentsAre
  <2>4. getSize = Cardinality(H)
    BY <2>1, SizeIs
  <2> QED
    BY <2>2, <2>3, <2>4 DEF QueriesAgree
<1> QED
  BY <1>1, InvHolds, PTL

-----------------------------------------------------------------------------
(* Arrays and sets of values. *)

\* The values listed in order: every array is cut from this list.
LEMMA ValuesListed ==
  ASSUME NEW H, Represents(bm, H)
  PROVE  LET all == roaring_bitmap_to_uint32_array(bm)
         IN  /\ all = Ascending(H) /\ all \in Seq(H) /\ all \in Seq(Value) /\ Len(all) = Cardinality(H) /\ Len(all) \in Nat
             /\ \A i \in 1 .. Len(all) : all[i] \in H /\ Below(H, all[i]) = i - 1
             /\ \A v \in H : \E i \in 1 .. Len(all) : all[i] = v
             /\ ToSet(all) = H
             /\ getSize = Len(all)
<1> DEFINE all == roaring_bitmap_to_uint32_array(bm)
<1>1. H \in SUBSET Value /\ H \in SUBSET Int /\ IsFiniteSet(H) /\ Cardinality(H) \in Nat
  BY BitmapHas, ValuesAreFinite, ValuesAreNumbers
<1>2. all = Ascending(H)
  BY ArrayIsAscending
<1>3. IsListOf(Ascending(H), H)
  BY <1>1, AscendingLists
<1> HIDE DEF all
<1>4. /\ all \in Seq(H) /\ Len(all) = Cardinality(H) /\ DOMAIN all = 1 .. Cardinality(H)
      /\ \A i \in 1 .. Cardinality(H) : all[i] \in H /\ Cardinality(Before(H, all[i])) = i - 1
      /\ \A v \in H : Cardinality(Before(H, v)) + 1 \in 1 .. Cardinality(H) /\ all[Cardinality(Before(H, v)) + 1] = v
  BY <1>1, <1>2, <1>3, ListsHave
<1>5. \A v : Below(H, v) = Cardinality(Before(H, v))
  BY <1>1, Positions32
<1>6. all \in Seq(Value)
  <2>1. all \in [1 .. Cardinality(H) -> H]
    BY <1>4
  <2>2. all \in [1 .. Cardinality(H) -> Value]
    BY <1>1, <2>1
  <2> QED
    BY <1>1, <2>2, FunctionIsSequence
<1>7. ToSet(all) = H
  <2>1. \A v \in H : \E i \in DOMAIN all : all[i] = v
    BY <1>4
  <2>2. \A i \in DOMAIN all : all[i] \in H
    BY <1>4
  <2>3. ToSet(all) = {all[i] : i \in DOMAIN all}
    BY DEF ToSet
  <2> QED
    BY <2>1, <2>2, <2>3
<1>8. \A v \in H : \E i \in 1 .. Len(all) : all[i] = v
  BY <1>4
<1> QED
  BY <1>1, <1>2, <1>4, <1>5, <1>6, <1>7, <1>8, SizeIs DEF all

\* A part of a list begins where it should and is cut off at the end of the list.
LEMMA PartIs ==
  ASSUME NEW X, NEW s \in Seq(X), NEW f \in Nat, NEW n \in Nat
  PROVE  LET e == Min({f + n, Len(s)})
             p == SubSeq(s, f + 1, e)
         IN  /\ e = (IF f + n <= Len(s) THEN f + n ELSE Len(s)) /\ e \in Nat
             /\ p \in Seq(X) /\ Len(p) = IF f < e THEN e - f ELSE 0
             /\ \A i \in 1 .. Len(p) : p[i] = s[f + i]
             /\ n = 0 \/ f >= Len(s) => p = <<>>
             /\ f = 0 /\ n >= Len(s) => p = s
<1> DEFINE e == Min({f + n, Len(s)})
           p == SubSeq(s, f + 1, e)
<1>1. Len(s) \in Nat /\ \A i \in 1 .. Len(s) : s[i] \in X
  BY LenProperties, ElementOfSeq
<1>2. e = (IF f + n <= Len(s) THEN f + n ELSE Len(s))
  <2>1. f + n \in Int /\ Len(s) \in Int
    BY <1>1
  <2> QED
    BY <2>1, MinOfTwo
<1> HIDE DEF e
<1>3. e \in Nat /\ e <= Len(s)
  BY <1>1, <1>2
<1>4. /\ p \in Seq(X)
      /\ Len(p) = IF f + 1 <= e THEN e - (f + 1) + 1 ELSE 0
      /\ \A i \in 1 .. e - (f + 1) + 1 : p[i] = s[f + 1 + i - 1]
  <2>1. \A i \in f + 1 .. e : s[i] \in X
    BY <1>1, <1>3
  <2> QED
    BY <1>3, <2>1, SubSeqProperties
<1>5. n = 0 \/ f >= Len(s) => p = <<>>
  <2>1. n = 0 \/ f >= Len(s) => e < f + 1
    BY <1>1, <1>2
  <2> QED
    BY <1>3, <2>1, SubSeqEmpty
<1>6. f = 0 /\ n >= Len(s) => p = s
  <2> SUFFICES ASSUME f = 0, n >= Len(s) PROVE p = s
    OBVIOUS
  <2>1. e = Len(s) /\ f + 1 = 1
    BY <1>1, <1>2
  <2> QED
    BY <2>1, SubSeqFull
<1> HIDE DEF p
<1>7. Len(p) = (IF f < e THEN e - f ELSE 0)
  BY <1>3, <1>4
<1>8. \A i \in 1 .. Len(p) : p[i] = s[f + i]
  <2> TAKE i \in 1 .. Len(p)
  <2>1. i \in 1 .. e - (f + 1) + 1 /\ f + 1 + i - 1 = f + i
    BY <1>3, <1>7
  <2> QED
    BY <1>4, <2>1
<1> QED
  BY <1>2, <1>3, <1>4, <1>5, <1>6, <1>7, <1>8 DEF e, p

\* A limit is a whole number, at most the size, and nothing is none.
LEMMA CountsAre ==
  ASSUME NEW n \in Number, NEW m \in Nat
  PROVE  /\ Counted(n) \in Nat
         /\ clampSize(n, m) = (IF Counted(n) <= m THEN Counted(n) ELSE m)
         /\ n \notin Int => Counted(n) = 0
         /\ n \in Int => Counted(n + 1) = (IF n > 0 THEN ceil(n) ELSE 0)
<1>1. IsNumber(n) <=> n \in Int
  BY NumbersAre
<1>2. n \in Int /\ n > 0 => Truncated(n) = n \div 2 /\ n \div 2 \in Nat
  BY DEF Truncated
<1>3. Counted(n) = (IF n \in Int /\ n > 0 THEN n \div 2 ELSE 0)
  BY <1>1, <1>2 DEF Counted
<1>4. clampSize(n, m) = (IF Counted(n) <= m THEN Counted(n) ELSE m)
  <2>1. CASE n \in Int /\ n > 0
    <3>1. clampSize(n, m) = Min({n \div 2, m})
      BY <1>1, <1>2, <2>1 DEF clampSize
    <3>2. n \div 2 \in Int /\ m \in Int
      BY <2>1
    <3> QED
      BY <1>3, <2>1, <3>1, <3>2, MinOfTwo
  <2>2. CASE ~(n \in Int /\ n > 0)
    <3>1. clampSize(n, m) = 0
      BY <1>1, <2>2 DEF clampSize
    <3> QED
      BY <1>3, <2>2, <3>1
  <2> QED
    BY <2>1, <2>2
<1>5. n \in Int => Counted(n + 1) = (IF n > 0 THEN ceil(n) ELSE 0)
  <2> SUFFICES ASSUME n \in Int PROVE Counted(n + 1) = (IF n > 0 THEN ceil(n) ELSE 0)
    OBVIOUS
  <2>1. n + 1 \in Int /\ IsNumber(n + 1)
    <3>1. n + 1 \in Int /\ n + 1 \in Number
      BY DEF Number
    <3> QED
      BY <3>1, NumbersAre
  <2>2. CASE n > 0
    <3>1. Counted(n + 1) = (n + 1) \div 2
      BY <2>1, <2>2 DEF Counted, Truncated
    <3>2. ceil(n) = -((-n) \div 2)
      BY DEF ceil
    <3>3. (n + 1) \div 2 = -((-n) \div 2)
      OBVIOUS
    <3> QED
      BY <2>2, <3>1, <3>2, <3>3
  <2>3. CASE n = 0
    <3>1. Truncated(1) = 0
      BY DEF Truncated
    <3> QED
      BY <2>1, <2>3, <3>1 DEF Counted
  <2>4. CASE n < 0
    BY <2>1, <2>4 DEF Counted
  <2> QED
    BY <2>2, <2>3, <2>4
<1>6. Counted(n) \in Nat
  BY <1>3
<1> QED
  BY <1>3, <1>4, <1>5, <1>6

\* The values that toArray and toSet are handed one by one are the first so many.
LEMMA HandedIs ==
  ASSUME NEW H, Represents(bm, H)
  PROVE  LET all == roaring_bitmap_to_uint32_array(bm)
         IN  /\ Handed(2 * getSize) = all
             /\ \A n \in Int : Handed(Min({n, 2 * getSize})) = SubSeq(all, 1, Min({Counted(n + 1), Len(all)}))
<1> DEFINE all == roaring_bitmap_to_uint32_array(bm)
           c == Len(all)
<1>1. all \in Seq(Value) /\ c \in Nat /\ getSize = c
  BY ValuesListed
<1>2. \A n : Handed(n) = SubSeq(all, 1, Max({0, ceil(n)}))
  BY DEF Handed
<1> HIDE DEF all
<1>3. Handed(2 * getSize) = all
  <2>1. ceil(2 * c) = c
    BY <1>1 DEF ceil
  <2>2. Max({0, c}) = c
    BY <1>1, MaxOfTwo
  <2>3. SubSeq(all, 1, c) = all
    BY <1>1, SubSeqFull
  <2> QED
    BY <1>1, <1>2, <2>1, <2>2, <2>3
<1>4. \A n \in Int : Handed(Min({n, 2 * getSize})) = SubSeq(all, 1, Min({Counted(n + 1), c}))
  <2> TAKE n \in Int
  <2>1. Min({n, 2 * getSize}) = (IF n <= 2 * c THEN n ELSE 2 * c)
    BY <1>1, MinOfTwo
  <2>2. n \in Number
    BY DEF Number
  <2>3. Counted(n + 1) = (IF n > 0 THEN ceil(n) ELSE 0)
    BY <2>2, CountsAre, <1>1
  <2>4. ceil(n) \in Int /\ (n > 0 => ceil(n) > 0) /\ (n <= 0 => ceil(n) <= 0) /\ (n <= 2 * c => ceil(n) <= c) /\ (n >= 2 * c => ceil(n) >= c)
    BY <1>1 DEF ceil
  <2>5. ceil(2 * c) = c
    BY <1>1 DEF ceil
  <2> DEFINE k == IF n > 0 THEN ceil(n) ELSE 0
             m == IF n <= 2 * c THEN n ELSE 2 * c
  <2>6. k \in Nat
    BY <2>4
  <2>7. Min({k, c}) = (IF k <= c THEN k ELSE c)
    BY <1>1, <2>6, MinOfTwo
  <2>8. Max({0, ceil(m)}) = (IF 0 <= ceil(m) THEN ceil(m) ELSE 0)
    <3>1. ceil(m) \in Int
      BY <1>1, <2>4, <2>5
    <3> QED
      BY <3>1, MaxOfTwo
  <2>9. (IF k <= c THEN k ELSE c) = (IF 0 <= ceil(m) THEN ceil(m) ELSE 0)
    BY <1>1, <2>4, <2>5
  <2> QED
    BY <1>2, <2>1, <2>3, <2>7, <2>8, <2>9
<1> QED
  BY <1>1, <1>3, <1>4 DEF all

\* toArray, toSet and toUint32Array are all the values, or the first so many.
LEMMA ToArrayIs ==
  ASSUME NEW H, Represents(bm, H)
  PROVE  LET all == roaring_bitmap_to_uint32_array(bm)
         IN  /\ toArray(Undefined) = all /\ toSet(Undefined) = H /\ toSet(NaN) = H
             /\ toUint32Array(Undefined) = all
             /\ \A n \in Int : /\ toArray(n) = SubSeq(all, 1, Min({Counted(n + 1), Len(all)}))
                               /\ toSet(n) = ToSet(toArray(n))
                               /\ toUint32Array(n) = SubSeq(all, 1, Min({Counted(n), Len(all)}))
                               /\ Len(toArray(n)) \in Nat
<1> DEFINE all == roaring_bitmap_to_uint32_array(bm)
           c == Len(all)
<1>1. all \in Seq(Value) /\ c \in Nat /\ getSize = c /\ ToSet(all) = H
  BY ValuesListed
<1>2. /\ Handed(2 * getSize) = all
      /\ \A n \in Int : Handed(Min({n, 2 * getSize})) = SubSeq(all, 1, Min({Counted(n + 1), c}))
  BY HandedIs
<1>3. ~IsNumber(Undefined) /\ ~IsNumber(NaN) /\ Undefined # NaN
  BY ArgumentAssumption DEF ArgumentAssumption, IsNumber
<1>4. \A n \in Int : n \in Number /\ IsNumber(n) /\ n # Undefined /\ n # NaN
  BY ArgumentAssumption DEF ArgumentAssumption, IsNumber, Number
<1>5. toArray(Undefined) = Handed(2 * getSize)
  BY <1>3 DEF toArray
<1>6. toSet(Undefined) = H /\ toSet(NaN) = H
  BY <1>1, <1>2, <1>3 DEF toSet
<1>7. ASSUME NEW n \in Int PROVE toArray(n) = Handed(Min({n, 2 * getSize})) /\ toSet(n) = ToSet(Handed(Min({n, 2 * getSize})))
  BY <1>4 DEF toArray, toSet
<1>8. toUint32Array(Undefined) = all
  BY DEF toUint32Array
<1>9. ASSUME NEW n \in Int PROVE toUint32Array(n) = SubSeq(all, 1, Min({Counted(n), c}))
  <2> DEFINE k == Counted(n)
             m == IF k <= c THEN k ELSE c
  <2>1. k \in Nat /\ clampSize(n, c) = m
    BY <1>1, <1>4, CountsAre
  <2>2. toUint32Array(n) = IF m < c THEN SubSeq(all, 1, Min({m, c})) ELSE all
    <3>1. 0 + 1 = 1 /\ 0 + m = m
      BY <1>1, <2>1
    <3>2. toUint32Array(n) = IF m < c THEN roaring_bitmap_range_uint32_array(bm, 0, m) ELSE all
      BY <1>1, <1>4, <2>1 DEF toUint32Array
    <3>3. roaring_bitmap_range_uint32_array(bm, 0, m) = SubSeq(all, 1, Min({m, c}))
      BY <3>1 DEF roaring_bitmap_range_uint32_array
    <3> HIDE DEF m, all
    <3> QED
      BY <3>2, <3>3
  <2>3. Min({k, c}) = m
    BY <1>1, <2>1, MinOfTwo
  <2> HIDE DEF k, all
  <2>4. CASE k < c
    <3>1. m = k /\ m < c
      BY <1>1, <2>1, <2>4
    <3>2. toUint32Array(n) = SubSeq(all, 1, Min({m, c}))
      BY <2>2, <3>1
    <3> HIDE DEF m
    <3> QED
      BY <3>1, <3>2 DEF k
  <2>5. CASE k >= c
    <3>1. m = c
      BY <1>1, <2>1, <2>5
    <3>2. SubSeq(all, 1, c) = all
      BY <1>1, SubSeqFull
    <3> QED
      BY <1>1, <2>2, <2>3, <3>1, <3>2 DEF k
  <2>6. k < c \/ k >= c
    BY <1>1, <2>1
  <2> QED
    BY <2>4, <2>5, <2>6
<1>10. ASSUME NEW n \in Int PROVE Len(toArray(n)) \in Nat
  <2> DEFINE e == Min({Counted(n + 1), c})
  <2>1. e \in Int
    <3>1. Counted(n + 1) \in Nat
      <4>1. n + 1 \in Number
        BY <1>4
      <4> QED
        BY <1>1, <4>1, CountsAre
    <3> QED
      BY <1>1, <3>1, MinOfTwo
  <2>2. toArray(n) = SubSeq(all, 1, e)
    BY <1>2, <1>7
  <2> HIDE DEF e, all
  <2>3. \A i \in 1 .. e : all[i] \in {all[j] : j \in 1 .. e}
    OBVIOUS
  <2>4. Len(SubSeq(all, 1, e)) = IF 1 <= e THEN e - 1 + 1 ELSE 0
    BY <2>1, <2>3, SubSeqProperties
  <2> QED
    BY <2>1, <2>2, <2>4
<1> QED
  BY <1>2, <1>5, <1>6, <1>7, <1>8, <1>9, <1>10

\* rangeUint32Array is the part from an offset on, with so many values at most.
LEMMA RangesOfArray ==
  ASSUME NEW H, Represents(bm, H), NEW m \in Int, NEW n \in Int
  PROVE  LET all == roaring_bitmap_to_uint32_array(bm)
         IN  rangeUint32Array(m, n) = SubSeq(all, Counted(m) + 1, Min({Counted(m) + Counted(n), Len(all)}))
<1> DEFINE all == roaring_bitmap_to_uint32_array(bm)
           c == Len(all)
           U == UINT32_MAX + 1
           f == Counted(m)
           k == Counted(n)
           from == IF f <= U THEN f ELSE U
           most == IF k <= U THEN k ELSE U
           rest == c - from
           size == IF rest < 0 THEN 0 ELSE Min({most, rest})
           part == SubSeq(all, f + 1, Min({f + k, c}))
<1>1. all \in Seq(Value) /\ c \in Nat /\ getSize = c /\ c <= U /\ U \in Nat
  <2>1. H \in SUBSET Value
    BY BitmapHas
  <2> QED
    BY <2>1, ValuesListed, Positions32, WidthIsANumber
<1>2. f \in Nat /\ k \in Nat /\ clampSize(m, U) = from /\ clampSize(n, U) = most
  <2>1. m \in Number /\ n \in Number
    BY DEF Number
  <2> QED
    BY <1>1, <2>1, CountsAre
<1>3. \A d : size = d => rangeUint32Array(m, n) =
          CASE d = 0 -> <<>>
            [] d > 0 /\ from = 0 /\ d = c -> all
            [] d > 0 /\ ~(from = 0 /\ d = c) -> SubSeq(all, from + 1, Min({from + d, c}))
  BY <1>1, <1>2 DEF rangeUint32Array, roaring_bitmap_range_uint32_array
<1> HIDE DEF all, f, k
<1>4. /\ (k = 0 \/ f >= c => part = <<>>) /\ (f = 0 /\ k >= c => part = all)
      /\ Min({f + k, c}) = (IF f + k <= c THEN f + k ELSE c)
  <2>1. LET e == Min({f + k, Len(all)})
            p == SubSeq(all, f + 1, e)
        IN  /\ e = (IF f + k <= Len(all) THEN f + k ELSE Len(all)) /\ e \in Nat
            /\ p \in Seq(Value) /\ Len(p) = IF f < e THEN e - f ELSE 0
            /\ \A i \in 1 .. Len(p) : p[i] = all[f + i]
            /\ k = 0 \/ f >= Len(all) => p = <<>>
            /\ f = 0 /\ k >= Len(all) => p = all
    BY ONLY <1>1, <1>2, PartIs
  <2> QED
    BY ONLY <2>1
<1>5. size = (IF rest <= 0 THEN 0 ELSE IF most <= rest THEN most ELSE rest)
  <2>1. most \in Nat /\ rest \in Int
    BY <1>1, <1>2
  <2>2. Min({most, rest}) = IF most <= rest THEN most ELSE rest
    BY <2>1, MinOfTwo
  <2> HIDE DEF most, rest
  <2> QED
    BY <2>1, <2>2
<1> DEFINE d == IF rest <= 0 THEN 0 ELSE IF most <= rest THEN most ELSE rest
<1>6. rangeUint32Array(m, n) =
          CASE d = 0 -> <<>>
            [] d > 0 /\ from = 0 /\ d = c -> all
            [] d > 0 /\ ~(from = 0 /\ d = c) -> SubSeq(all, from + 1, Min({from + d, c}))
  BY <1>3, <1>5
<1>7. d \in Nat
  BY <1>1, <1>2
<1>8. CASE f >= c \/ k = 0
  <2>1. d = 0
    BY <1>1, <1>2, <1>8
  <2> HIDE DEF d, part
  <2>2. rangeUint32Array(m, n) = <<>>
    BY ONLY <1>6, <2>1
  <2> QED
    BY <1>4, <1>8, <2>2 DEF part, all, f, k
<1>9. CASE f < c /\ k > 0
  <2>1. from = f /\ d > 0 /\ d = IF k <= c - f THEN k ELSE c - f
    BY <1>1, <1>2, <1>9
  <2> HIDE DEF d, part
  <2>2. CASE f = 0 /\ d = c
    <3>1. k >= c
      BY <1>1, <1>2, <2>1, <2>2
    <3>2. rangeUint32Array(m, n) = all
      <4>1. d > 0 /\ from = 0 /\ d = c /\ d # 0 /\ ~(d > 0 /\ ~(from = 0 /\ d = c))
        BY <2>1, <2>2
      <4> QED
        BY ONLY <1>6, <4>1
    <3> QED
      BY <1>4, <2>2, <3>1, <3>2 DEF part, all, f, k
  <2>3. CASE ~(f = 0 /\ d = c)
    <3>1. d # 0 /\ d > 0 /\ ~(from = 0 /\ d = c)
      BY <2>1, <2>3
    <3>2. rangeUint32Array(m, n) = SubSeq(all, from + 1, Min({from + d, c}))
      BY ONLY <1>6, <3>1
    <3>3. Min({from + d, c}) = Min({f + k, c})
      <4>1. from + d = (IF f + k <= c THEN f + k ELSE c) /\ from + d <= c /\ from + d \in Int
        BY <1>1, <1>2, <2>1
      <4>2. Min({from + d, c}) = from + d
        BY <1>1, <4>1, MinOfTwo
      <4> QED
        BY <1>4, <4>1, <4>2
    <3>4. from + 1 = f + 1
      BY <2>1
    <3> QED
      BY <3>2, <3>3, <3>4 DEF all, f, k
  <2> QED
    BY <2>2, <2>3
<1>10. f >= c \/ k = 0 \/ (f < c /\ k > 0)
  BY <1>1, <1>2
<1> QED
  BY <1>8, <1>9, <1>10

\* toReversed reads chunk by chunk and writes from the end: each value comes to the opposite
\* place.
LEMMA ReversedIs ==
  ASSUME NEW H, Represents(bm, H), NEW n \in Number, NEW m \in Number
  PROVE  LET all == roaring_bitmap_to_uint32_array(bm)
             c == Len(all)
             skip == IF Counted(m) <= c THEN Counted(m) ELSE c
             most == IF n = Undefined THEN c ELSE IF Counted(n) <= c THEN Counted(n) ELSE c
             limit == IF most <= c - skip THEN most ELSE c - skip
         IN  toReversed(n, m) = [i \in 1 .. limit |-> all[c - skip - i + 1]]
<1> DEFINE all == roaring_bitmap_to_uint32_array(bm)
           c == Len(all)
           skip == IF Counted(m) <= c THEN Counted(m) ELSE c
           most == IF n = Undefined THEN c ELSE IF Counted(n) <= c THEN Counted(n) ELSE c
           limit == IF most <= c - skip THEN most ELSE c - skip
           k == kChunkSize
           start == c - skip - limit
           buffer(processed) == SubSeq(all, start + processed + 1, Min({start + processed + Min({limit - processed, k}), c}))
           read(p) == buffer(p - (p % k))[(p % k) + 1]
<1>1. all \in Seq(Value) /\ c \in Nat /\ getSize = c
  BY ValuesListed
<1>2. k \in Nat \ {0}
  BY QueryArgumentsAre
<1>3. /\ Counted(n) \in Nat /\ Counted(m) \in Nat /\ clampSize(m, c) = skip
      /\ clampSize(n, c) = (IF Counted(n) <= c THEN Counted(n) ELSE c)
  BY <1>1, CountsAre
<1>4. skip \in Nat /\ skip <= c /\ most \in Nat /\ limit \in Nat /\ limit <= c - skip /\ start \in Nat /\ start + limit = c - skip
  BY <1>1, <1>3
<1>5. (IF n = Undefined THEN getSize ELSE clampSize(n, getSize)) = most
  BY <1>1, <1>3
<1>6. Min({most, c - skip}) = limit
  <2>1. c - skip \in Int
    BY <1>1, <1>4
  <2>2. most \in Int
    BY <1>4
  <2> HIDE DEF most, skip
  <2> QED
    BY ONLY <2>1, <2>2, MinOfTwo
<1>7. toReversed(n, m) = [i \in 1 .. limit |-> read(limit - i)]
  <2> HIDE DEF all, skip, most, limit
  <2>1. clampSize(m, getSize) = skip /\ Min({IF n = Undefined THEN getSize ELSE clampSize(n, getSize), getSize - skip}) = limit
    BY <1>1, <1>3, <1>5, <1>6
  <2>2. \A o, l : roaring_bitmap_range_uint32_array(bm, o, l) = SubSeq(all, o + 1, Min({o + l, c}))
    BY DEF roaring_bitmap_range_uint32_array, all
  <2>3. toReversed(n, m) =
           LET array(processed) ==
                   roaring_bitmap_range_uint32_array(bm, c - skip - limit + processed, Min({limit - processed, kChunkSize}))
               element(p) == array(p - (p % kChunkSize))[(p % kChunkSize) + 1]
           IN  [targetIndex \in 1 .. limit |-> element(limit - targetIndex)]
    BY ONLY <1>1, <2>1 DEF toReversed
  <2> QED
    BY ONLY <2>2, <2>3
<1> HIDE DEF all, skip, most, limit, start
<1>8. ASSUME NEW i \in 1 .. limit
      PROVE  read(limit - i) = all[c - skip - i + 1]
  <2> DEFINE p == limit - i
             r == p % k
             q == p - r
             l == IF limit - q <= k THEN limit - q ELSE k
             f == start + q
  <2>1. p \in Nat /\ p < limit
    BY <1>4
  <2>2. r \in Nat /\ r < k /\ r <= p
    <3> HIDE DEF p
    <3> QED
      BY <1>2, <2>1
  <2>3. q \in Nat /\ r < l /\ l \in Nat /\ q + l <= limit /\ q + r = p
    <3> HIDE DEF p, r
    <3> QED
      BY <1>2, <1>4, <2>1, <2>2
  <2>4. Min({limit - q, k}) = l
    <3>1. limit - q \in Int /\ k \in Int
      BY <1>2, <1>4, <2>3
    <3> HIDE DEF q, k
    <3> QED
      BY <3>1, MinOfTwo
  <2> HIDE DEF l, q, r, p, k
  <2>5. f \in Nat /\ f + l <= c /\ l # 0
    BY <1>1, <1>4, <2>2, <2>3
  <2> HIDE DEF f
  <2> DEFINE e == Min({f + l, c})
             b == SubSeq(all, f + 1, e)
  <2>6. e = f + l /\ Len(b) = l /\ \A j \in 1 .. Len(b) : b[j] = all[f + j]
    <3>1. e = f + l
      <4>1. f + l \in Int /\ c \in Int
        BY <1>1, <2>3, <2>5
      <4>2. Min({f + l, c}) = IF f + l <= c THEN f + l ELSE c
        BY ONLY <4>1, MinOfTwo
      <4> QED
        BY <2>5, <4>2
    <3> HIDE DEF e
    <3>2. \A j \in f + 1 .. e : all[j] \in Value
      BY <1>1, <2>3, <2>5, <3>1
    <3>3. f + 1 \in Int /\ e \in Int /\ f + 1 <= e /\ e - (f + 1) + 1 = l
      BY <2>3, <2>5, <3>1
    <3>4. /\ Len(b) = IF f + 1 <= e THEN e - (f + 1) + 1 ELSE 0
          /\ \A j \in 1 .. e - (f + 1) + 1 : b[j] = all[f + 1 + j - 1]
      BY <3>2, <3>3, SubSeqProperties
    <3>5. Len(b) = l
      BY <3>3, <3>4
    <3>6. \A j \in 1 .. Len(b) : b[j] = all[f + j]
      <4> TAKE j \in 1 .. Len(b)
      <4>1. j \in 1 .. e - (f + 1) + 1 /\ f + 1 + j - 1 = f + j
        BY <2>3, <2>5, <3>3, <3>5
      <4> QED
        BY <3>4, <4>1
    <3> QED
      BY <3>1, <3>5, <3>6
  <2>7. buffer(q) = b
    BY <2>4 DEF f
  <2>8. b[r + 1] = all[f + (r + 1)]
    <3>1. r + 1 \in 1 .. l
      BY <2>2, <2>3
    <3> HIDE DEF b
    <3> QED
      BY <2>6, <3>1
  <2>9. f + (r + 1) = c - skip - i + 1
    <3>1. f = start + q /\ p = limit - i
      BY DEF f, p
    <3> QED
      BY <1>1, <1>4, <2>1, <2>2, <2>3, <3>1
  <2>10. read(limit - i) = buffer(q)[r + 1]
    BY DEF p, q, r, k
  <2> HIDE DEF b, buffer, read
  <2> QED
    BY <2>7, <2>8, <2>9, <2>10
<1> HIDE DEF buffer, read
<1>9. toReversed(n, m) = [i \in 1 .. limit |-> all[c - skip - i + 1]]
  BY <1>7, <1>8
<1> QED
  BY <1>9 DEF all, skip, most, limit

\* What the reverse of a list has.
LEMMA ReverseIs ==
  ASSUME NEW X, NEW s \in Seq(X)
  PROVE  /\ Reverse(s) = [i \in 1 .. Len(s) |-> s[Len(s) - i + 1]]
         /\ Reverse(s) \in Seq(X) /\ Len(Reverse(s)) = Len(s)
<1>1. Len(s) \in Nat
  OBVIOUS
<1>2. Reverse(s) = [i \in 1 .. Len(s) |-> s[Len(s) - i + 1]]
  BY DEF Reverse
<1>3. \A i \in 1 .. Len(s) : s[Len(s) - i + 1] \in X
  <2> TAKE i \in 1 .. Len(s)
  <2>1. Len(s) - i + 1 \in 1 .. Len(s)
    BY <1>1
  <2> QED
    BY <2>1, ElementOfSeq
<1>4. [i \in 1 .. Len(s) |-> s[Len(s) - i + 1]] \in [1 .. Len(s) -> X]
  BY <1>3
<1> QED
  BY <1>1, <1>2, <1>4, FunctionIsSequence

\* toReversed is the reverse of all the values, or a part of it.
LEMMA PartsOfReversed ==
  ASSUME NEW H, Represents(bm, H)
  PROVE  LET all == roaring_bitmap_to_uint32_array(bm)
         IN  /\ toReversed(Undefined, Undefined) = Reverse(all)
             /\ \A n, m \in Int : toReversed(n, m) =
                    SubSeq(Reverse(all), Counted(m) + 1, Min({Counted(m) + Counted(n), Len(all)}))
<1> DEFINE all == roaring_bitmap_to_uint32_array(bm)
           c == Len(all)
           rev == Reverse(all)
<1>1. all \in Seq(Value) /\ c \in Nat
  BY ValuesListed
<1>2. /\ rev = [i \in 1 .. c |-> all[c - i + 1]]
      /\ rev \in Seq(Value) /\ Len(rev) = c
  BY <1>1, ReverseIs
<1>3. /\ Undefined \in Number /\ Undefined \notin Int
      /\ \A n \in Int : n \in Number /\ n # Undefined
  BY ArgumentAssumption DEF ArgumentAssumption, Number
<1>4. \A n \in Number : Counted(n) \in Nat /\ (n \notin Int => Counted(n) = 0)
  BY <1>1, CountsAre
<1>5. toReversed(Undefined, Undefined) = rev
  <2> DEFINE skip == IF Counted(Undefined) <= c THEN Counted(Undefined) ELSE c
             most == IF Undefined = Undefined THEN c ELSE IF Counted(Undefined) <= c THEN Counted(Undefined) ELSE c
             limit == IF most <= c - skip THEN most ELSE c - skip
  <2>1. toReversed(Undefined, Undefined) = [i \in 1 .. limit |-> all[c - skip - i + 1]]
    BY <1>3, ReversedIs
  <2>2. skip = 0 /\ most = c
    BY <1>1, <1>3, <1>4
  <2> HIDE DEF all, skip, most
  <2>3. limit = c
    BY <1>1, <2>2
  <2>4. \A i \in 1 .. c : c - skip - i + 1 = c - i + 1
    BY <1>1, <2>2
  <2> HIDE DEF limit
  <2> QED
    BY <1>2, <2>1, <2>3, <2>4 DEF all
<1>6. ASSUME NEW n \in Int, NEW m \in Int
      PROVE  toReversed(n, m) = SubSeq(rev, Counted(m) + 1, Min({Counted(m) + Counted(n), c}))
  <2> DEFINE f == Counted(m)
             k == Counted(n)
             skip == IF f <= c THEN f ELSE c
             most == IF n = Undefined THEN c ELSE IF k <= c THEN k ELSE c
             limit == IF most <= c - skip THEN most ELSE c - skip
             e == Min({f + k, c})
             p == SubSeq(rev, f + 1, e)
             t == [i \in 1 .. limit |-> all[c - skip - i + 1]]
  <2>1. toReversed(n, m) = t
    BY <1>3, ReversedIs
  <2>2. f \in Nat /\ k \in Nat
    BY <1>3, <1>4
  <2>3. n # Undefined
    BY <1>3
  <2> HIDE DEF all, f, k
  <2>4. /\ e = (IF f + k <= c THEN f + k ELSE c) /\ e \in Nat
        /\ p \in Seq(Value) /\ Len(p) = IF f < e THEN e - f ELSE 0
        /\ \A i \in 1 .. Len(p) : p[i] = rev[f + i]
    <3> HIDE DEF rev
    <3>1. LET x == Min({f + k, Len(rev)})
              y == SubSeq(rev, f + 1, x)
          IN  /\ x = (IF f + k <= Len(rev) THEN f + k ELSE Len(rev)) /\ x \in Nat
              /\ y \in Seq(Value) /\ Len(y) = IF f < x THEN x - f ELSE 0
              /\ \A i \in 1 .. Len(y) : y[i] = rev[f + i]
              /\ k = 0 \/ f >= Len(rev) => y = <<>>
              /\ f = 0 /\ k >= Len(rev) => y = rev
      <4>1. rev \in Seq(Value)
        BY <1>2
      <4> QED
        BY ONLY <2>2, <4>1, PartIs
    <3> QED
      BY ONLY <1>2, <3>1
  <2>5. skip \in Nat /\ skip <= c /\ most = (IF k <= c THEN k ELSE c) /\ most \in Nat /\ limit \in Nat /\ limit <= c - skip
    <3>1. most = (IF k <= c THEN k ELSE c)
      BY <2>3
    <3>2. skip \in Nat /\ skip <= c
      BY <1>1, <2>2
    <3> HIDE DEF most, skip
    <3>3. most \in Nat
      BY <1>1, <2>2, <3>1
    <3> QED
      BY <1>1, <3>1, <3>2, <3>3
  <2> HIDE DEF e, rev, p, most
  <2>6. limit = (IF f < e THEN e - f ELSE 0)
    BY <1>1, <2>2, <2>4, <2>5
  <2>7. limit > 0 => skip = f /\ f + limit <= c
    <3> HIDE DEF limit
    <3>1. limit > 0 => f < c
      BY <1>1, <2>2, <2>4, <2>6
    <3>2. f < c => skip = f
      BY <1>1, <2>2
    <3> HIDE DEF skip
    <3> QED
      BY <1>1, <2>2, <2>5, <3>1, <3>2
  <2> HIDE DEF limit, skip
  <2>8. \A i \in 1 .. limit : p[i] = all[c - skip - i + 1] /\ p[i] \in Value
    <3> TAKE i \in 1 .. limit
    <3>1. limit > 0 /\ i \in 1 .. Len(p)
      BY <2>4, <2>5, <2>6
    <3>2. f + i \in 1 .. c /\ c - (f + i) + 1 = c - skip - i + 1
      BY <1>1, <2>2, <2>5, <2>7, <3>1
    <3>3. p[i] = rev[f + i] /\ rev[f + i] = all[c - (f + i) + 1]
      BY <1>2, <2>4, <3>1, <3>2
    <3>4. p[i] \in Value
      BY <2>4, <3>1, ElementOfSeq
    <3> QED
      BY <3>2, <3>3, <3>4
  <2>9. t \in [1 .. limit -> Value]
    BY <2>8
  <2>10. t \in Seq(Value) /\ Len(t) = limit
    BY <2>5, <2>9, FunctionIsSequence
  <2>11. \A i \in 1 .. limit : t[i] = p[i]
    BY <2>8
  <2> HIDE DEF t
  <2>12. t = p
    BY <2>4, <2>6, <2>10, <2>11, SeqEqual
  <2> QED
    BY <2>1, <2>12 DEF p, e, f, k, rev, all
<1> QED
  BY <1>5, <1>6

\* toArray writes into an array that is given, and leaves the rest of it alone.
LEMMA ArrayIsFilled ==
  ASSUME NEW n, Len(toArray(n)) \in Nat
  PROVE  ArrayFilled(n)
<1> DEFINE given == [i \in 0 .. 1 |-> Undefined]
<1> SUFFICES ASSUME NEW offset \in {Undefined, 0, 2, 5}
             PROVE  LET from == IF offset = Undefined THEN 2 ELSE Truncated(offset)
                        filled == toArrayInto(given, n, offset)
                    IN  \A i \in DOMAIN filled :
                            filled[i] = IF from <= i /\ i < from + Len(toArray(n))
                                        THEN toArray(n)[i - from + 1]
                                        ELSE given[i]
  BY DEF ArrayFilled
<1> DEFINE from == IF offset = Undefined THEN 2 ELSE Truncated(offset)
           values == toArray(n)
           l == Len(values)
           written == from .. from + l - 1
<1>1. Cardinality(DOMAIN given) = 2
  <2>1. DOMAIN given = 0 .. 1 /\ 0 \in Int /\ 1 \in Int /\ 2 \in Nat /\ 2 = 1 - 0 + 1
    OBVIOUS
  <2> HIDE DEF given
  <2> QED
    BY ONLY <2>1, CountOfNumbers
<1>2. from \in Int
  BY DEF Truncated
<1> HIDE DEF from, values
<1>3. toArrayInto(given, n, offset) =
        [i \in written \cup DOMAIN given |-> IF i \in written THEN values[i - from + 1] ELSE given[i]]
  <2> HIDE DEF given
  <2> QED
    BY <1>1 DEF toArrayInto, values, from
<1>4. \A i \in Int : i \in written <=> from <= i /\ i < from + l
  BY <1>2 DEF values
<1>5. \A i \in written \cup DOMAIN given : i \in Int
  BY <1>2 DEF values
<1> HIDE DEF written
<1> QED
  BY <1>3, <1>4, <1>5 DEF from, values

\* The arrays and sets have the values in order, or in reverse, cut down to the right part
\* (ArraysAgree), for every limit, offset, number to skip and size of the chunks that are read.
THEOREM ArraysRight == Spec => []ArraysAgree
<1>1. Inv => ArraysAgree
  <2> SUFFICES ASSUME Inv PROVE ArraysAgree
    OBVIOUS
  <2> DEFINE H == Values(bm)
             all == roaring_bitmap_to_uint32_array(bm)
             size == Len(all)
             part(s, from, n) == SubSeq(s, from + 1, Min({from + n, size}))
  <2>1. Represents(bm, H)
    BY DEF Inv
  <2>2. /\ all \in Seq(Value) /\ size = Cardinality(H) /\ size \in Nat
        /\ \A i \in 1 .. size : all[i] \in H /\ Below(H, all[i]) = i - 1
    BY <2>1, ValuesListed
  <2>3. \A n \in Numbers \ {NaN, Undefined} : n \in Int
    BY QueryArgumentsAre, NumbersAre DEF IsNumber
  <2>4. /\ toArray(Undefined) = all /\ toSet(Undefined) = H /\ toSet(NaN) = H
        /\ toUint32Array(Undefined) = all
        /\ \A n \in Int : /\ toArray(n) = SubSeq(all, 1, Min({Counted(n + 1), size}))
                          /\ toSet(n) = ToSet(toArray(n))
                          /\ toUint32Array(n) = SubSeq(all, 1, Min({Counted(n), size}))
                          /\ Len(toArray(n)) \in Nat
    BY <2>1, ToArrayIs
  <2>5. /\ toReversed(Undefined, Undefined) = Reverse(all)
        /\ \A n, m \in Int : toReversed(n, m) = part(Reverse(all), Counted(m), Counted(n))
    BY <2>1, PartsOfReversed
  <2>6. \A m, n \in Int : rangeUint32Array(m, n) = part(all, Counted(m), Counted(n))
    BY <2>1, RangesOfArray
  <2>7. \A n \in Int : Counted(n) \in Nat /\ Counted(n + 1) \in Nat
    <3> TAKE n \in Int
    <3>1. n \in Number /\ n + 1 \in Number
      BY DEF Number
    <3> QED
      BY <2>2, <3>1, CountsAre
  <2> HIDE DEF all, H
  <2>8. \A n \in Int : ArrayFilled(n)
    BY <2>4, ArrayIsFilled
  <2>9. \A n \in Int : /\ toUint32Array(n) = part(all, 0, Counted(n))
                       /\ toArray(n) = part(all, 0, Counted(n + 1))
    <3> TAKE n \in Int
    <3>1. 0 + 1 = 1 /\ 0 + Counted(n) = Counted(n) /\ 0 + Counted(n + 1) = Counted(n + 1)
      BY <2>7
    <3> QED
      BY <2>4, <3>1
  <2>10. /\ Len(all) = Cardinality(H)
         /\ \A i \in 1 .. Cardinality(H) : all[i] \in H /\ Below(H, all[i]) = i - 1
    BY <2>2
  <2>11. \A n \in Numbers \ {NaN, Undefined} :
            /\ toUint32Array(n) = part(all, 0, Counted(n))
            /\ toArray(n) = part(all, 0, Counted(n + 1))
            /\ toSet(n) = ToSet(toArray(n))
            /\ ArrayFilled(n)
            /\ \A m \in Numbers \ {NaN, Undefined} :
                /\ rangeUint32Array(m, n) = part(all, Counted(m), Counted(n))
                /\ toReversed(n, m) = part(Reverse(all), Counted(m), Counted(n))
    <3> HIDE DEF part, size
    <3> QED
      BY ONLY <2>3, <2>4, <2>5, <2>6, <2>8, <2>9
  <2> DEFINE cut(s, from, n) == SubSeq(s, from + 1, Min({from + n, Cardinality(H)}))
  <2>12. \A s, from, n : part(s, from, n) = cut(s, from, n)
    BY <2>2
  <2>13. \A n \in Numbers \ {NaN, Undefined} :
            /\ toUint32Array(n) = cut(all, 0, Counted(n))
            /\ toArray(n) = cut(all, 0, Counted(n + 1))
            /\ toSet(n) = ToSet(toArray(n))
            /\ ArrayFilled(n)
            /\ \A m \in Numbers \ {NaN, Undefined} :
                /\ rangeUint32Array(m, n) = cut(all, Counted(m), Counted(n))
                /\ toReversed(n, m) = cut(Reverse(all), Counted(m), Counted(n))
    <3> HIDE DEF part, cut
    <3> QED
      BY ONLY <2>11, <2>12
  <2>14. toUint32Array(Undefined) = all /\ Values(bm) = H
    BY <2>4 DEF H
  <2>15. toReversed(Undefined, Undefined) = Reverse(all) /\ toArray(Undefined) = all /\ toSet(Undefined) = H /\ toSet(NaN) = H
    BY <2>4, <2>5
  <2> QED
    BY ONLY <2>10, <2>13, <2>14, <2>15, Zenon DEF ArraysAgree
<1> QED
  BY <1>1, InvHolds, PTL

-----------------------------------------------------------------------------
(* Comparisons. *)

\* The methods for any set of JavaScript give what they should, whichever of the two is
\* larger.
LEMMA SetMethodsAre ==
  ASSUME NEW H, Represents(bm, H), NEW S \in SUBSET Number
  PROVE  SetMethodsAgree(H, S)
<1> DEFINE doubled == {2 * v : v \in H}
<1>1. Elems = doubled
  <2>1. toSet(Undefined) = H
    BY ToArrayIs
  <2> QED
    BY <2>1 DEF Elems
<1>2. \A e \in S : has(e) <=> e \in doubled
  <2> TAKE e \in S
  <2>1. ElementsAgree(H, e)
    BY ElementsAre
  <2>2. has(e) <=> \E v \in H : e = 2 * v
    BY <2>1 DEF ElementsAgree
  <2> QED
    BY <2>2
<1> HIDE DEF doubled
<1>3. union(S) = doubled \cup S /\ symmetricDifference(S) = SymDiff(doubled, S)
  BY <1>1, <1>2 DEF union, symmetricDifference, SymDiff
<1>4. intersection(S) = doubled \cap S
  BY <1>1, <1>2 DEF intersection
<1>5. difference(S) = doubled \ S
  BY <1>1 DEF difference
<1>6. /\ isSupersetOf(S) <=> S \subseteq doubled
      /\ isSubsetOf(S) <=> doubled \subseteq S
  BY <1>1, <1>2 DEF isSupersetOf, isSubsetOf
<1>7. isDisjointFrom(S) <=> doubled \cap S = {}
  BY <1>1, <1>2 DEF isDisjointFrom
<1> QED
  BY <1>3, <1>4, <1>5, <1>6, <1>7 DEF SetMethodsAgree, doubled

\* What ComparisonsAgree says of another bitmap.
BitmapsAgree(H, x, X) ==
    /\ isEqual(x) <=> H = X
    /\ roaring_bitmap_equals(x, bm) <=> H = X
    /\ isSubset(x) <=> H \subseteq X
    /\ isSuperset(x) <=> X \subseteq H
    /\ isStrictSubset(x) <=> H \subseteq X /\ H # X
    /\ isStrictSuperset(x) <=> X \subseteq H /\ H # X
    /\ intersects(x) <=> H \cap X # {}
    /\ roaring_bitmap_intersect(x, bm) <=> H \cap X # {}
    /\ andCardinality(x) = Cardinality(H \cap X)
    /\ orCardinality(x) = Cardinality(H \cup X)
    /\ xorCardinality(x) = Cardinality(SymDiff(H, X))
    /\ andNotCardinality(x) = Cardinality(H \ X)
    /\ roaring_bitmap_andnot_cardinality(x, bm) = Cardinality(X \ H)
    /\ jaccardIndex(x) = <<Cardinality(H \cap X), Cardinality(H \cup X)>>

\* Comparisons and cardinalities of two bitmaps agree with their sets of values.
LEMMA BitmapsAreCompared ==
  ASSUME NEW H, Represents(bm, H), NEW x, NEW X, Represents(x, X)
  PROVE  BitmapsAgree(H, x, X)
<1>1. IsBitmap(x)
  BY BitmapsAreGiven
<1>2. /\ roaring_bitmap_equals(bm, x) <=> H = X
      /\ roaring_bitmap_equals(x, bm) <=> H = X
  BY BitmapsEqual
<1>3. /\ roaring_bitmap_is_subset(bm, x) <=> H \subseteq X
      /\ roaring_bitmap_is_subset(x, bm) <=> X \subseteq H
      /\ roaring_bitmap_is_strict_subset(bm, x) <=> H \subseteq X /\ H # X
      /\ roaring_bitmap_is_strict_subset(x, bm) <=> X \subseteq H /\ H # X
  BY BitmapsIncluded
<1>4. /\ roaring_bitmap_intersect(bm, x) <=> H \cap X # {}
      /\ roaring_bitmap_and_cardinality(bm, x) = Cardinality(H \cap X)
  BY BitmapsShare
<1>5. /\ roaring_bitmap_or_cardinality(bm, x) = Cardinality(H \cup X)
      /\ roaring_bitmap_jaccard_index(bm, x) = <<Cardinality(H \cap X), Cardinality(H \cup X)>>
  BY UnionsCounted
<1>6. /\ roaring_bitmap_xor_cardinality(bm, x) = Cardinality(SymDiff(H, X))
      /\ roaring_bitmap_andnot_cardinality(bm, x) = Cardinality(H \ X)
      /\ roaring_bitmap_andnot_cardinality(x, bm) = Cardinality(X \ H)
  BY DifferencesCounted
<1>7. /\ isEqual(x) <=> H = X
      /\ isSubset(x) <=> H \subseteq X
      /\ isSuperset(x) <=> X \subseteq H
      /\ isStrictSubset(x) <=> H \subseteq X /\ H # X
      /\ isStrictSuperset(x) <=> X \subseteq H /\ H # X
      /\ intersects(x) <=> H \cap X # {}
  BY <1>1, <1>2, <1>3, <1>4 DEF isEqual, isSubset, isSuperset, isStrictSubset, isStrictSuperset, intersects
<1>8. /\ andCardinality(x) = Cardinality(H \cap X)
      /\ orCardinality(x) = Cardinality(H \cup X)
      /\ xorCardinality(x) = Cardinality(SymDiff(H, X))
      /\ andNotCardinality(x) = Cardinality(H \ X)
      /\ jaccardIndex(x) = <<Cardinality(H \cap X), Cardinality(H \cup X)>>
  BY <1>1, <1>4, <1>5, <1>6 DEF andCardinality, orCardinality, xorCardinality, andNotCardinality, jaccardIndex
<1>9. roaring_bitmap_intersect(x, bm) <=> H \cap X # {}
  <2>1. roaring_bitmap_intersect(x, bm) <=> X \cap H # {}
    BY BitmapsShare
  <2> QED
    BY <2>1
<1> QED
  BY <1>2, <1>6, <1>7, <1>8, <1>9 DEF BitmapsAgree

\* A bitmap is compared with others, and with any sets of JavaScript, by its values
\* (ComparisonsAgree), however the two are stored and whichever is the larger one.
THEOREM ComparisonsRight == Spec => []ComparisonsAgree
<1>1. Inv => ComparisonsAgree
  <2> SUFFICES ASSUME Inv PROVE ComparisonsAgree
    OBVIOUS
  <2> DEFINE H == Values(bm)
             others == Operands \cup {roaring_bitmap_run_optimize(bm), roaring_bitmap_remove_run_compression(bm)}
             numbers == UNION {ToSet(list) : list \in Lists}
  <2>1. Represents(bm, H)
    BY DEF Inv
  <2>2. {0} \in SUBSET Number /\ numbers \in SUBSET Number
    <3>1. {0} \in SUBSET Number
      BY DEF Number
    <3>2. ASSUME NEW list \in Lists PROVE ToSet(list) \in SUBSET Number
      <4>1. list \in Seq(Number)
        BY ArgumentAssumption DEF ArgumentAssumption
      <4>2. \A i \in DOMAIN list : list[i] \in Number
        BY <4>1, LenProperties, ElementOfSeq
      <4>3. ToSet(list) = {list[i] : i \in DOMAIN list}
        BY DEF ToSet
      <4> QED
        BY <4>2, <4>3
    <3> QED
      BY <3>1, <3>2
  <2>3. \A S \in {{0}, numbers} : SetMethodsAgree(H, S)
    <3> HIDE DEF numbers, H
    <3> QED
      BY <2>1, <2>2, SetMethodsAre
  <2>4. \A x \in others : Represents(x, Values(x))
    <3>1. \A x \in Operands : Represents(x, Values(x))
      BY OperandsAre
    <3>2. ASSUME NEW x, Represents(x, H) PROVE Represents(x, Values(x))
      BY <3>2, BitmapHas
    <3> HIDE DEF H
    <3>3. Represents(roaring_bitmap_run_optimize(bm), H) /\ Represents(roaring_bitmap_remove_run_compression(bm), H)
      BY <2>1, RunsOptimized, RunsRemoved
    <3> QED
      BY <3>1, <3>2, <3>3
  <2>5. \A x \in others : BitmapsAgree(H, x, Values(x))
    <3> HIDE DEF others, H
    <3> QED
      BY <2>1, <2>4, BitmapsAreCompared
  <2> QED
    BY ONLY <2>3, <2>5, Zenon DEF ComparisonsAgree, BitmapsAgree
<1> QED
  BY <1>1, InvHolds, PTL

-----------------------------------------------------------------------------
(* Ranges of values. *)

\* A range of arguments is counted right; it intersects only if it has a value, and
\* does if it has one before its last integer.
LEMMA RangeIsCounted ==
  ASSUME NEW H, Represents(bm, H), NEW args \in Number \X Number
  PROVE  LET inside == Promise!Between(args[1], args[2])
         IN  /\ rangeCardinality(args) = Cardinality(H \cap inside)
             /\ intersectsWithRange(args) => H \cap inside # {}
             /\ (\E v \in H \cap inside : v + 1 \in inside) => intersectsWithRange(args)
<1> DEFINE r == getRangeOperationParameters(args)
           inside == Promise!Between(args[1], args[2])
<1>1. IsRange(r, inside)
  BY RangeOfArguments
<1>2. H \in SUBSET Value /\ \A v \in H : v \in Int
  BY BitmapHas, ValuesAreNumbers
<1>3. /\ rangeCardinality(args) = IF r.valid THEN roaring_bitmap_range_cardinality(bm, r.first, r.end) ELSE 0
      /\ intersectsWithRange(args) <=> r.valid /\ roaring_bitmap_intersect_with_range(bm, r.first, r.end - 1)
  BY DEF rangeCardinality, intersectsWithRange
<1> HIDE DEF r, inside
<1>4. CASE r.valid
  <2> DEFINE first == r.first
             end == r.end
  <2>1. first \in Value /\ end - 1 \in Value /\ end \in Nat /\ first <= end - 1 /\ inside = first .. end - 1
    BY <1>1, <1>4 DEF IsRange
  <2> HIDE DEF first, end
  <2>2. first \in Int /\ end \in 0 .. UINT32_MAX + 1
    <3>1. end - 1 <= UINT32_MAX /\ UINT32_MAX \in Int /\ first \in Int
      BY <2>1, WidthIsANumber DEF Value
    <3> QED
      BY <2>1, <3>1
  <2>3. roaring_bitmap_range_cardinality(bm, first, end) = Cardinality({v \in H : first <= v /\ v < end})
    BY <2>1, <2>2, RangeCounted
  <2>4. {v \in H : first <= v /\ v < end} = H \cap inside
    <3>1. \A v \in H : v \in inside <=> first <= v /\ v < end
      BY <1>2, <2>1, <2>2
    <3> QED
      BY ONLY <3>1
  <2>5. roaring_bitmap_intersect_with_range(bm, first, end - 1) <=> \E v \in H : first <= v /\ v < end - 1
    <3>1. end - 1 \in Int
      BY <2>1
    <3> QED
      BY <2>1, <3>1, RangeMet
  <2>6. (\E v \in H : first <= v /\ v < end - 1) => H \cap inside # {}
    BY <1>2, <2>1, <2>2
  <2>7. (\E v \in H \cap inside : v + 1 \in inside) => \E v \in H : first <= v /\ v < end - 1
    <3>1. ASSUME NEW v \in H \cap inside, v + 1 \in inside
          PROVE  v \in H /\ first <= v /\ v < end - 1
      BY <1>2, <2>1, <2>2, <3>1
    <3> QED
      BY ONLY <3>1
  <2> QED
    BY <1>3, <1>4, <2>3, <2>4, <2>5, <2>6, <2>7 DEF first, end, inside
<1>5. CASE ~ r.valid
  <2>1. inside = {}
    BY <1>1, <1>5 DEF IsRange
  <2>2. Cardinality(H \cap inside) = 0
    BY <2>1, FS_EmptySet
  <2> QED
    BY <1>3, <1>5, <2>1, <2>2 DEF inside
<1> QED
  BY <1>4, <1>5

\* Rounding up keeps the integers on their side.
LEMMA CeilingIs ==
  \A n \in Int : ceil(n) \in Int /\ \A i \in Int : (n <= 2 * i <=> ceil(n) <= i) /\ (2 * i < n <=> i < ceil(n))
<1> SUFFICES ASSUME NEW n \in Int
             PROVE  ceil(n) \in Int /\ \A i \in Int : (n <= 2 * i <=> ceil(n) <= i) /\ (2 * i < n <=> i < ceil(n))
  OBVIOUS
<1> DEFINE c == ceil(n)
<1>1. c \in Int /\ (n = 2 * c \/ n = 2 * c - 1)
  BY DEF ceil
<1> HIDE DEF c
<1>2. \A i \in Int : (n <= 2 * i <=> c <= i) /\ (2 * i < n <=> i < c)
  BY <1>1
<1> QED
  BY <1>1, <1>2 DEF c

\* hasRange is true when there are integers in the range and all of them are values.
LEMMA RangeIsThere ==
  ASSUME NEW H, Represents(bm, H), NEW args \in Number \X Number
  PROVE  LET integers == {i \in -UINT32_MAX .. 2 * UINT32_MAX :
                             /\ IsNumber(args[1]) /\ IsNumber(args[2])
                             /\ args[1] <= 2 * i /\ 2 * i < args[2]}
         IN  hasRange(args) <=> integers # {} /\ integers \subseteq H
<1> DEFINE integers == {i \in -UINT32_MAX .. 2 * UINT32_MAX :
                           /\ IsNumber(args[1]) /\ IsNumber(args[2])
                           /\ args[1] <= 2 * i /\ 2 * i < args[2]}
           a == ceil(args[1])
           b == ceil(args[2])
           U == UINT32_MAX
<1>1. /\ U \in Nat /\ U > 1
      /\ \A i : i \in Value <=> i \in Int /\ 0 <= i /\ i <= U
  <2>1. ChunkSize \in Nat /\ ChunkSize > 2 /\ KeyCount \in Nat /\ KeyCount > 0
    <3> DEFINE d == DEFAULT_MAX_SIZE
    <3>1. d \in Nat \ {0} /\ 2 * d < ChunkSize /\ ChunkSize \in Nat /\ KeyCount \in Nat \ {0}
      BY ContainerConstants, KeyConstants
    <3> HIDE DEF d
    <3> QED
      BY <3>1
  <2>2. KeyCount * ChunkSize >= ChunkSize /\ KeyCount * ChunkSize \in Int
    BY <2>1
  <2>3. U \in Nat /\ U > 1
    BY <2>1, <2>2 DEF UINT32_MAX
  <2> HIDE DEF U
  <2> QED
    BY <2>3 DEF Value, U
<1>2. H \in SUBSET Value /\ \A v \in H : v \in Int /\ 0 <= v /\ v <= U
  BY <1>1, BitmapHas
<1>3. /\ IsNumber(args[1]) <=> args[1] \in Int
      /\ IsNumber(args[2]) <=> args[2] \in Int
  <2>1. args[1] \in Number /\ args[2] \in Number
    OBVIOUS
  <2> QED
    BY <2>1, NumbersAre
<1> HIDE DEF U
<1>4. hasRange(args) <=> /\ IsNumber(args[1]) /\ IsNumber(args[2])
                         /\ a >= 0 /\ b <= U + 1 /\ a < b
                         /\ roaring_bitmap_contains_range(bm, a, b)
  BY DEF hasRange, U
<1> HIDE DEF integers
<1>5. CASE ~ (IsNumber(args[1]) /\ IsNumber(args[2]))
  <2>1. integers = {}
    BY <1>5 DEF integers
  <2> QED
    BY <1>4, <1>5, <2>1 DEF integers
<1>6. CASE IsNumber(args[1]) /\ IsNumber(args[2])
  <2>1. args[1] \in Int /\ args[2] \in Int
    BY <1>3, <1>6
  <2>2. a \in Int /\ b \in Int
    BY <2>1, CeilingIs
  <2>3. \A i : i \in integers <=> i \in -U .. 2 * U /\ a <= i /\ i < b
    <3>1. \A i \in -U .. 2 * U : (args[1] <= 2 * i <=> a <= i) /\ (2 * i < args[2] <=> i < b)
      <4> TAKE i \in -U .. 2 * U
      <4>1. i \in Int
        BY <1>1
      <4> QED
        BY <2>1, <4>1, CeilingIs
    <3>2. integers = {i \in -U .. 2 * U : args[1] <= 2 * i /\ 2 * i < args[2]}
      BY <1>6 DEF integers, U
    <3> HIDE DEF a, b
    <3> QED
      BY <3>1, <3>2
  <2> HIDE DEF a, b
  <2>4. \A i \in -U .. 2 * U : i \in Int
    BY <1>1
  <2>5. CASE a >= 0 /\ b <= U + 1 /\ a < b
    <3>1. a \in Value /\ b \in 0 .. UINT32_MAX + 1
      BY <1>1, <2>2, <2>5 DEF U
    <3>2. roaring_bitmap_contains_range(bm, a, b) <=> \A v \in Value : a <= v /\ v < b => v \in H
      BY <3>1, RangeContained
    <3>3. a \in integers
      BY <1>1, <2>2, <2>3, <2>5
    <3>4. \A i : i \in integers <=> i \in Value /\ a <= i /\ i < b
      <4>1. \A i : i \in Value /\ a <= i /\ i < b => i \in -U .. 2 * U
        BY <1>1
      <4>2. \A i \in -U .. 2 * U : a <= i /\ i < b => i \in Value
        BY <1>1, <2>2, <2>5
      <4> QED
        BY <2>3, <4>1, <4>2
    <3>5. integers # {} /\ (integers \subseteq H <=> \A v \in Value : a <= v /\ v < b => v \in H)
      BY <3>3, <3>4
    <3>6. hasRange(args) <=> roaring_bitmap_contains_range(bm, a, b)
      BY <1>4, <1>6, <2>5
    <3> QED
      BY <3>2, <3>5, <3>6 DEF integers
  <2>6. CASE ~(a >= 0 /\ b <= U + 1 /\ a < b)
    <3>1. ~ hasRange(args)
      BY <1>4, <2>6
    <3>2. ASSUME integers # {} PROVE ~(integers \subseteq H)
      <4>1. PICK i \in integers : TRUE
        BY <3>2
      <4>2. i \in Int /\ -U <= i /\ i <= 2 * U /\ a <= i /\ i < b
        BY <1>1, <2>3, <4>1
      <4>3. CASE a < 0
        <5> DEFINE j == IF a < -U THEN -U ELSE a
        <5>1. j \in -U .. 2 * U /\ a <= j /\ j < b /\ j < 0
          BY <1>1, <2>2, <4>2, <4>3
        <5> HIDE DEF j
        <5>2. j \in integers /\ j \notin H
          BY <1>2, <2>3, <2>4, <5>1
        <5> QED
          BY <5>2
      <4>4. CASE a >= 0
        <5> DEFINE j == IF i > U THEN i ELSE U + 1
        <5>1. b > U + 1
          BY <1>1, <2>2, <2>6, <4>2, <4>4
        <5>2. j \in -U .. 2 * U /\ a <= j /\ j < b /\ j > U
          BY <1>1, <2>2, <4>2, <4>4, <5>1
        <5> HIDE DEF j
        <5>3. j \in integers /\ j \notin H
          <6>1. j \in Int
            BY <2>4, <5>2
          <6> QED
            BY <1>1, <1>2, <2>3, <5>2, <6>1
        <5> QED
          BY <5>3
      <4> QED
        BY <2>2, <4>3, <4>4
    <3> QED
      BY <3>1, <3>2 DEF integers
  <2> QED
    BY <2>5, <2>6
<1> QED
  BY <1>5, <1>6

\* For every pair of arguments, with fractions, left out, out of bounds or in the wrong
\* order, rangeCardinality and hasRange are right, and intersectsWithRange is wrong at most
\* in missing a value that is the last integer of the range (RangesAgree).
THEOREM RangesRight == Spec => []RangesAgree
<1>1. Inv => RangesAgree
  <2> SUFFICES ASSUME Inv, NEW args \in Ranges
               PROVE  LET H == Values(bm)
                          inside == Promise!Between(args[1], args[2])
                          integers == {i \in -UINT32_MAX .. 2 * UINT32_MAX :
                                          /\ IsNumber(args[1]) /\ IsNumber(args[2])
                                          /\ args[1] <= 2 * i /\ 2 * i < args[2]}
                      IN  /\ rangeCardinality(args) = Cardinality(H \cap inside)
                          /\ intersectsWithRange(args) => H \cap inside # {}
                          /\ (\E v \in H \cap inside : v + 1 \in inside) => intersectsWithRange(args)
                          /\ hasRange(args) <=> integers # {} /\ integers \subseteq H
    BY DEF RangesAgree
  <2>1. args \in Number \X Number
    BY ArgumentAssumption DEF ArgumentAssumption
  <2> DEFINE H == Values(bm)
  <2>2. Represents(bm, H)
    BY DEF Inv
  <2> HIDE DEF H
  <2>3. LET inside == Promise!Between(args[1], args[2])
        IN  /\ rangeCardinality(args) = Cardinality(H \cap inside)
            /\ intersectsWithRange(args) => H \cap inside # {}
            /\ (\E v \in H \cap inside : v + 1 \in inside) => intersectsWithRange(args)
    BY ONLY <2>1, <2>2, RangeIsCounted
  <2>4. LET integers == {i \in -UINT32_MAX .. 2 * UINT32_MAX :
                            /\ IsNumber(args[1]) /\ IsNumber(args[2])
                            /\ args[1] <= 2 * i /\ 2 * i < args[2]}
        IN  hasRange(args) <=> integers # {} /\ integers \subseteq H
    BY ONLY <2>1, <2>2, RangeIsThere, Zenon
  <2> QED
    BY ONLY <2>3, <2>4 DEF H
<1> QED
  BY <1>1, InvHolds, PTL

\* Every format of the addon and of the library gives a bitmap back (FormatsRoundTrip): with the same
\* containers where containers are stored, although their types mostly are not, with the same values
\* and valid otherwise, and nothing when a byte is missing.
THEOREM FormatsRight == Spec => []FormatsRoundTrip
<1>1. Inv => FormatsRoundTrip
  <2> SUFFICES ASSUME Inv PROVE FormatsRoundTrip
    OBVIOUS
  <2> DEFINE H == Values(bm)
             written(format) == serializeToBuffer(bm, format)
             size(format) == computeSerializedSize(bm, format)
             back(format, missing) == deserializeBuf(written(format), size(format) - missing, format)
  <2>1. Represents(bm, H)
    BY DEF Inv
  <2> HIDE DEF H
  <2>2. /\ back("portable", 0) = {bm} /\ back("portable", 1) = {}
        /\ written("portable").bytes = size("portable")
        /\ deserializeBuf(written("portable"), size("portable"), "unsafe_frozen_portable") = {bm}
        /\ back("unsafe_frozen_croaring", 0) = {bm} /\ back("unsafe_frozen_croaring", 1) = {}
        /\ back("croaring", 0) # {} /\ back("croaring", 1) = {}
        /\ \A x \in back("croaring", 0) : Represents(x, H)
        /\ back("uint32_array", 0) # {} /\ (size("uint32_array") > 0 => back("uint32_array", 1) = {})
        /\ \A x \in back("uint32_array", 0) : Represents(x, H)
    BY ONLY <2>1, FormatsAreReadBack, Zenon
  <2> HIDE DEF written, size, back
  <2>3. ASSUME NEW x \in back("croaring", 0) \cup back("uint32_array", 0)
        PROVE  Values(x) = Values(bm) /\ roaring_bitmap_internal_validate(x)
    <3>1. Represents(x, H)
      BY <2>2
    <3>2. Values(x) = H /\ roaring_bitmap_internal_validate(x)
      BY <3>1, BitmapHas, BitmapIsValid
    <3> QED
      BY <3>2 DEF H
  <2>4. \A format \in {"portable", "croaring", "unsafe_frozen_croaring"} : back(format, 1) = {}
    BY <2>2
  <2>5. /\ back("portable", 0) = {bm}
        /\ written("portable").bytes = size("portable")
        /\ deserializeBuf(written("portable"), size("portable"), "unsafe_frozen_portable") = {bm}
        /\ back("unsafe_frozen_croaring", 0) = {bm}
        /\ \A x \in back("croaring", 0) \cup back("uint32_array", 0) :
                Values(x) = Values(bm) /\ roaring_bitmap_internal_validate(x)
        /\ back("croaring", 0) # {} /\ back("uint32_array", 0) # {}
        /\ \A format \in {"portable", "croaring", "unsafe_frozen_croaring"} : back(format, 1) = {}
        /\ size("uint32_array") > 0 => back("uint32_array", 1) = {}
    BY <2>2, <2>3, <2>4
  <2> QED
    BY <2>5, Zenon DEF FormatsRoundTrip, back, written, size
<1> QED
  BY <1>1, InvHolds, PTL

==============================================================================
