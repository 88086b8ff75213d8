--------------------------- MODULE BitmapMethods ---------------------------
(* The methods of RoaringBitmap32 on what a bitmap holds: how each one       *)
(* normalizes its arguments (src/src/cpp/RoaringBitmap32-ops.h, -ranges.h,   *)
(* -static-ops.h, -main.h, v8utils.h), which operation of the library it     *)
(* calls, and what it answers.  Frozen bitmaps, views and user code that     *)
(* runs in between are in module RoaringBitmap32.                            *)
(*                                                                           *)
(* Numbers are counted in halves, as in IntegerSet: n stands for n/2.  An    *)
(* answer is a set, empty for undefined and for a method that answers with   *)
(* the bitmap.                                                               *)
EXTENDS RoaringFormats

CONSTANTS Lists,      \* sequences of numbers given as arguments or as one list
          Ranges,     \* pairs of range arguments
          Steps,      \* third argument of fromRange
          Offsets,    \* second argument of addOffset
          Operands,   \* the bitmaps given as arguments
          Companions, \* those of them given in lists of bitmaps
          NaN,        \* the number that is none
          Undefined   \* an argument that is left out

(* The containers there are between two calls, and a map of them. *)
Container ==
    [type : {"array"}, values : SUBSET Low]
        \cup [type : {"bitset"}, values : SUBSET Low, cardinality : 0 .. ChunkSize]
        \cup [type : {"run"}, runs : SUBSET (Low \X Low)]
IsContainers(x) == DOMAIN x \subseteq Key /\ x \in [DOMAIN x -> Container]

(* Two values that are no integers, numbers, and bitmaps that are valid. *)
Number == Int \cup {NaN, Undefined}
ASSUME ArgumentAssumption ==
    /\ NaN \notin Int /\ Undefined \notin Int /\ NaN # Undefined
    /\ Lists \subseteq Seq(Number)
    /\ Ranges \subseteq Number \X Number
    /\ Steps \cup Offsets \subseteq Number
ASSUME OperandAssumption ==
    /\ Companions \subseteq Operands
    /\ \A x \in Operands : IsContainers(x) /\ roaring_bitmap_internal_validate(x)

VARIABLES bm,   \* the containers of the bitmap
          call, \* the method called last and its arguments, Idle when the answer was taken
          ret   \* its answer

vars == <<bm, call, ret>>

Idle == [op |-> "idle"]
Nothing == {}
IsNumber(n) == n \notin {NaN, Undefined}

---------------------------------------------------------------------------
(* Arguments. *)

Truncated(n) == IF n >= 0 THEN n \div 2 ELSE -((-n) \div 2)
ceil(n) == -((-n) \div 2)

(* A value to add or remove; empty for an argument that is skipped. *)
v8ValueToUint32Fast(n) == {v \in {Truncated(x) : x \in {n} \ {NaN, Undefined}} : 0 <= v /\ v <= UINT32_MAX}

(* Whether an argument is taken by the methods that convert nothing. *)
IsUint32(n) == IsNumber(n) /\ n % 2 = 0 /\ 0 <= n /\ n <= 2 * UINT32_MAX

(* The elements of a typed array made from a list. *)
TypedArray(list) ==
    [i \in DOMAIN list |-> IF IsNumber(list[i]) THEN Truncated(list[i]) % (UINT32_MAX + 1) ELSE 0]

(* The first integer of a range and the one after its last; not valid when    *)
(* there is nothing to do.                                                   *)
getRangeOperationParameters(args) ==
    LET minimum == IF args[1] = Undefined THEN 0 ELSE args[1]
        maximum == IF args[2] = Undefined THEN 2 * (UINT32_MAX + 1) ELSE args[2]
        first == ceil(Max({minimum, 0}))
        end == Min({ceil(maximum), UINT32_MAX + 1})
    IN  IF NaN \in {minimum, maximum} \/ minimum > 2 * UINT32_MAX \/ maximum <= 0 \/ first >= end
        THEN [valid |-> FALSE]
        ELSE [valid |-> TRUE, first |-> first, end |-> end]

(* The third argument of fromRange, and the second of addOffset. *)
RangeStep(n) ==
    LET step == IF IsNumber(n) THEN Truncated(n) % (UINT32_MAX + 1) ELSE 0
    IN  IF step = 0 THEN 1 ELSE step
ClampedOffset(n) ==
    IF IsNumber(n)
    THEN Truncated(Max({-2 * (UINT32_MAX + 1), Min({n, 2 * (UINT32_MAX + 1)})}))
    ELSE 0

---------------------------------------------------------------------------
(* A call puts what it does to the bitmap and its answer in place at once.   *)
(* The static methods return a new bitmap; it takes the place of bm, so that *)
(* calls go on with results of every operation.                              *)

Init == bm = Empty /\ call = Idle /\ ret = Nothing

Returns(op, args, after, answer) ==
    /\ call = Idle
    /\ call' = [op |-> op, args |-> args]
    /\ bm' = after
    /\ ret' = answer

Take == call # Idle /\ call' = Idle /\ ret' = Nothing /\ UNCHANGED bm

(* Arguments that are no integers are skipped; result says if one changed the *)
(* bitmap.                                                                   *)
EachArgument(op, args) ==
    LET checked(x, v) == IF op = "remove" THEN roaring_bitmap_remove_checked(x, v) ELSE roaring_bitmap_add_checked(x, v)
        step(acc, n) ==
            LET v == v8ValueToUint32Fast(n)
                after == checked(acc.bm, CHOOSE x \in v : TRUE)
            IN  IF v = {} THEN acc ELSE [bm |-> after.bm, result |-> acc.result \/ after.result]
    IN  Loop(step, [bm |-> bm, result |-> FALSE], args)

Add == \E args \in Lists : Returns("add", args, EachArgument("add", args).bm, Nothing)
TryAdd == \E args \in Lists :
    LET after == EachArgument("add", args) IN Returns("tryAdd", args, after.bm, {after.result})
RemoveEach == \E args \in Lists :
    LET after == EachArgument("remove", args) IN Returns("remove", args, after.bm, {after.result})

(* A list, or another bitmap. *)
AddMany == \E list \in Lists :
    Returns("addMany", list, roaring_bitmap_add_many(bm, TypedArray(list)), Nothing)
AddBitmap == \E x \in Operands :
    Returns("addBitmap", Values(x), roaring_bitmap_or_inplace(bm, x), Nothing)
RemoveMany == \E list \in Lists :
    Returns("removeMany", list, roaring_bitmap_remove_many(bm, TypedArray(list)), Nothing)
RemoveBitmap == \E x \in Operands :
    Returns("removeBitmap", Values(x), roaring_bitmap_andnot_inplace(bm, x), Nothing)
CopyElements == \E list \in Lists :
    Returns("copyElements", list, roaring_bitmap_add_many(Empty, TypedArray(list)), Nothing)
CopyFrom == \E x \in Operands : Returns("copyFrom", Values(x), x, Nothing)

(* A list is made into a bitmap first. *)
OtherBitmaps == Operands \cup {roaring_bitmap_add_many(Empty, TypedArray(list)) : list \in Lists}
AndInPlace == \E x \in OtherBitmaps :
    Returns("andInPlace", Values(x), roaring_bitmap_and_inplace(bm, x), Nothing)
XorInPlace == \E x \in OtherBitmaps :
    Returns("xorInPlace", Values(x), roaring_bitmap_xor_inplace(bm, x), Nothing)

(* The maximum of an empty bitmap is 0 and its minimum 2^32 - 1; removing it  *)
(* then changes nothing.                                                     *)
Pop ==
    LET v == roaring_bitmap_maximum(bm)
        after == roaring_bitmap_remove_checked(bm, v)
    IN  Returns("pop", Nothing, after.bm, {x \in {v} : after.result})
Shift ==
    LET v == roaring_bitmap_minimum(bm)
        after == roaring_bitmap_remove_checked(bm, v)
    IN  Returns("shift", Nothing, after.bm, {x \in {v} : after.result})
Clear == Returns("clear", Nothing, Empty, {DOMAIN bm # {}})

RunOptimize ==
    LET after == roaring_bitmap_run_optimize(bm)
    IN  Returns("runOptimize", Nothing, after, {HasRuns(after)})
RemoveRunCompression ==
    Returns("removeRunCompression", Nothing, roaring_bitmap_remove_run_compression(bm), {HasRuns(bm)})

(* The end of a range is not part of it. *)
AddRange == \E args \in Ranges :
    LET r == getRangeOperationParameters(args)
    IN  Returns("addRange", args,
                IF r.valid THEN roaring_bitmap_add_range_closed(bm, r.first, r.end - 1) ELSE bm, Nothing)
(* Mutant: the end of the range is removed too. *)
RemoveRangeAndEnd == \E args \in Ranges :
    LET r == getRangeOperationParameters(args)
    IN  Returns("removeRange", args,
                IF r.valid THEN roaring_bitmap_remove_range_closed(bm, r.first, Min({r.end, UINT32_MAX})) ELSE bm, Nothing)
RemoveRange == \E args \in Ranges :
    LET r == getRangeOperationParameters(args)
    IN  Returns("removeRange", args,
                IF r.valid THEN roaring_bitmap_remove_range_closed(bm, r.first, r.end - 1) ELSE bm, Nothing)
FlipRange == \E args \in Ranges :
    LET r == getRangeOperationParameters(args)
    IN  Returns("flipRange", args, IF r.valid THEN roaring_bitmap_flip_inplace(bm, r.first, r.end) ELSE bm, Nothing)

(* The new bitmap does not depend on bm.  Left out are the large steps with  *)
(* which the counter of the library wraps around.                            *)
StepFits(r, step) == r.valid => RangeEnds(r.first, r.end, step) /\ ~RangeWraps(r.first, r.end, step)
FromRange == \E args \in Ranges, n \in Steps :
    LET r == getRangeOperationParameters(args)
    IN  /\ bm = Empty
        /\ StepFits(r, RangeStep(n))
        /\ Returns("fromRange", Append(args, n),
                   IF r.valid THEN roaring_bitmap_from_range(r.first, r.end, RangeStep(n)) ELSE Empty, Nothing)

AddOffset == \E n \in Offsets :
    Returns("addOffset", n, roaring_bitmap_add_offset(bm, ClampedOffset(n)), Nothing)

(* The static operations, with bm as the one argument or the other. *)
And == \E x \in Operands : \/ Returns("and", Values(x), roaring_bitmap_and(bm, x), Nothing)
                          \/ Returns("and", Values(x), roaring_bitmap_and(x, bm), Nothing)
Or == \E x \in Operands : \/ Returns("or", Values(x), roaring_bitmap_or(bm, x), Nothing)
                         \/ Returns("or", Values(x), roaring_bitmap_or(x, bm), Nothing)
Xor == \E x \in Operands : \/ Returns("xor", Values(x), roaring_bitmap_xor(bm, x), Nothing)
                          \/ Returns("xor", Values(x), roaring_bitmap_xor(x, bm), Nothing)
AndNot == \E x \in Operands : \/ Returns("andNot", Values(x), roaring_bitmap_andnot(bm, x), Nothing)
                             \/ Returns("andNotOf", Values(x), roaring_bitmap_andnot(x, bm), Nothing)

(* Lists of bitmaps in which bm is once or twice; a list of one is copied. *)
ListsOfBitmaps ==
    {<<>>, <<bm>>} \cup {<<bm, bm, x>> : x \in Companions} \cup UNION {{<<x, bm, y>>, <<x, bm, y, bm>>} : x, y \in Companions}
ValuesOfEach(xs) == [i \in DOMAIN xs |-> Values(xs[i])]
OrMany == call = Idle /\ \E xs \in ListsOfBitmaps : \E after \in roaring_bitmap_or_many_heap(xs) :
    Returns("orMany", ValuesOfEach(xs), after, Nothing)
XorMany == call = Idle /\ \E xs \in ListsOfBitmaps :
    Returns("xorMany", ValuesOfEach(xs), roaring_bitmap_xor_many(xs), Nothing)

Next ==
    \/ Add \/ TryAdd \/ RemoveEach
    \/ AddMany \/ AddBitmap \/ RemoveMany \/ RemoveBitmap \/ CopyElements \/ CopyFrom
    \/ AndInPlace \/ XorInPlace
    \/ Pop \/ Shift \/ Clear
    \/ RunOptimize \/ RemoveRunCompression
    \/ AddRange \/ RemoveRange \/ FlipRange \/ FromRange
    \/ AddOffset \/ And \/ Or \/ Xor \/ AndNot \/ OrMany \/ XorMany
    \/ Take

Spec == Init /\ [][Next]_vars

---------------------------------------------------------------------------
(* Properties. *)

(* Every bitmap is a map from keys to containers of one of three types, and  *)
(* no method leaves one behind whose cardinality is unknown.                 *)
TypeOK == IsContainers(bm)

(* What every method leaves behind passes the library's own validation: no   *)
(* container is empty, arrays and bitsets are on their side of the limit, the *)
(* cached cardinality of a bitset is right, runs are apart from each other.  *)
WellFormed == roaring_bitmap_internal_validate(bm)

Promise == INSTANCE IntegerSet WITH set <- Values(bm), Width <- UINT32_MAX + 1

(* Through every container type and conversion a bitmap behaves like a set of *)
(* integers, and pop, shift, remove, tryAdd and clear answer accordingly.    *)
ImplementsIntegerSet == Promise!Spec
============================================================================
