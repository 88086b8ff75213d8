--------------------------- MODULE BitmapQueries ---------------------------
(* The methods that only look at a bitmap (src/src/cpp/RoaringBitmap32-main.h *)
(* and -ranges.h): each one as the answer it gives, and what the answers     *)
(* have to be in terms of the set of values.  Answers that may be undefined  *)
(* are sets.                                                                 *)
EXTENDS BitmapMethods

CONSTANTS Numbers,     \* arguments of the queries
          kChunkSize   \* values toReversed reads at a time (1024)

(* What is left out is no bitmap either. *)
ASSUME QueryAssumption ==
    /\ Numbers \subseteq Number
    /\ kChunkSize \in Nat \ {0}
    /\ \A K \in SUBSET Key : Undefined \notin [K -> Container]

---------------------------------------------------------------------------
(* Elements and positions.  These methods convert nothing but the index that *)
(* "at" takes and the one a search begins at.                                *)

getSize == roaring_bitmap_get_cardinality(bm)

has(n) == IsUint32(n) /\ roaring_bitmap_contains(bm, n \div 2)

(* A negative index counts from the end. *)
FromIndex(n) ==
    LET index == IF IsNumber(n) THEN Truncated(n) ELSE 0
    IN  IF index < 0 THEN index + getSize ELSE index
indexOf(args) ==
    LET r == roaring_bitmap_get_index(bm, args[1] \div 2)
    IN  IF ~IsUint32(args[1]) \/ (Len(args) > 1 /\ r < FromIndex(args[2])) THEN -1 ELSE r
lastIndexOf(args) ==
    LET r == roaring_bitmap_get_index(bm, args[1] \div 2)
    IN  IF ~IsUint32(args[1]) \/ (Len(args) > 1 /\ r > FromIndex(args[2])) THEN -1 ELSE r

rankOf(n) == IF IsUint32(n) THEN roaring_bitmap_rank(bm, n \div 2) ELSE 0
select(n) == IF IsUint32(n) THEN roaring_bitmap_select(bm, n \div 2) ELSE {}
statistics == roaring_bitmap_statistics(bm)

at(n) ==
    LET d == Truncated(n) + (IF Truncated(n) < 0 THEN getSize ELSE 0)
    IN  IF v8ValueToUint32Fast(n) # {}
        THEN UNION {roaring_bitmap_select(bm, index) : index \in v8ValueToUint32Fast(n)}
        ELSE IF ~IsNumber(n) \/ d < 0 \/ d > UINT32_MAX THEN {} ELSE roaring_bitmap_select(bm, d)

---------------------------------------------------------------------------
(* Ranges. *)

rangeCardinality(args) ==
    LET r == getRangeOperationParameters(args)
    IN  IF r.valid THEN roaring_bitmap_range_cardinality(bm, r.first, r.end) ELSE 0

(* The end was made exclusive already, and is taken down once more. *)
intersectsWithRange(args) ==
    LET r == getRangeOperationParameters(args)
    IN  r.valid /\ roaring_bitmap_intersect_with_range(bm, r.first, r.end - 1)

(* Both arguments have to be given, and none of them is clamped. *)
hasRange(args) ==
    /\ IsNumber(args[1]) /\ IsNumber(args[2])
    /\ ceil(args[1]) >= 0
    /\ ceil(args[2]) <= UINT32_MAX + 1
    /\ ceil(args[1]) < ceil(args[2])
    /\ roaring_bitmap_contains_range(bm, ceil(args[1]), ceil(args[2]))

---------------------------------------------------------------------------
(* Arrays. *)

(* A number of elements, at most so many. *)
clampSize(n, maxValue) == IF IsNumber(n) /\ n > 0 THEN Min({Truncated(n), maxValue}) ELSE 0

toUint32Array(n) ==
    LET maxSize == clampSize(n, getSize)
    IN  IF n # Undefined /\ maxSize < getSize
        THEN roaring_bitmap_range_uint32_array(bm, 0, maxSize)
        ELSE roaring_bitmap_to_uint32_array(bm)

rangeUint32Array(offset, limit) ==
    LET from == clampSize(offset, UINT32_MAX + 1)
        rest == getSize - from
        size == IF rest < 0 THEN 0 ELSE Min({clampSize(limit, UINT32_MAX + 1), rest})
    IN  CASE size = 0 -> <<>>
          [] size > 0 /\ from = 0 /\ size = getSize -> roaring_bitmap_to_uint32_array(bm)
          [] size > 0 /\ ~(from = 0 /\ size = getSize) -> roaring_bitmap_range_uint32_array(bm, from, size)

(* Mutant: what is skipped from the end is cut off at the beginning. *)
toReversedOfEnd(n, skipFromEnd) ==
    LET skip == clampSize(skipFromEnd, getSize)
        limit == Min({IF n = Undefined THEN getSize ELSE clampSize(n, getSize), getSize - skip})
        startOffset == getSize - limit
        buffer(processed) ==
            roaring_bitmap_range_uint32_array(bm, startOffset + processed, Min({limit - processed, kChunkSize}))
        read(p) == buffer(p - (p % kChunkSize))[(p % kChunkSize) + 1]
    IN  [targetIndex \in 1 .. limit |-> read(limit - targetIndex)]

(* The values are read in ascending order, so many at a time, into the array  *)
(* from its end on.                                                          *)
toReversed(n, skipFromEnd) ==
    LET skip == clampSize(skipFromEnd, getSize)
        limit == Min({IF n = Undefined THEN getSize ELSE clampSize(n, getSize), getSize - skip})
        startOffset == getSize - skip - limit
        buffer(processed) ==
            roaring_bitmap_range_uint32_array(bm, startOffset + processed, Min({limit - processed, kChunkSize}))
        read(p) == buffer(p - (p % kChunkSize))[(p % kChunkSize) + 1]
    IN  [targetIndex \in 1 .. limit |-> read(limit - targetIndex)]

(* The values are handed out one by one while fewer than the limit were, so  *)
(* that a fraction takes one more than toUint32Array.                        *)
Handed(n) == SubSeq(roaring_bitmap_to_uint32_array(bm), 1, Max({0, ceil(n)}))
toArray(n) ==
    CASE n = Undefined -> Handed(2 * getSize)
      [] n = NaN       -> <<>>
      [] IsNumber(n)   -> Handed(Min({n, 2 * getSize}))
toSet(n) == ToSet(IF IsNumber(n) THEN Handed(Min({n, 2 * getSize})) ELSE Handed(2 * getSize))

(* They follow the elements of an array that is given, or begin at an offset *)
(* in it; what they do not reach stays.  The indices begin with 0.           *)
toArrayInto(array, n, offset) ==
    LET index == IF offset = Undefined THEN Cardinality(DOMAIN array) ELSE Truncated(offset)
        values == toArray(n)
        written == index .. index + Len(values) - 1
    IN  [i \in written \cup DOMAIN array |-> IF i \in written THEN values[i - index + 1] ELSE array[i]]

---------------------------------------------------------------------------
(* Two bitmaps.  An argument that is no bitmap is never equal, contained or  *)
(* met, and has no cardinality.                                              *)

IsBitmap(x) == x # Undefined
isEqual(x) == IsBitmap(x) /\ roaring_bitmap_equals(bm, x)
isSubset(x) == IsBitmap(x) /\ roaring_bitmap_is_subset(bm, x)
isSuperset(x) == IsBitmap(x) /\ roaring_bitmap_is_subset(x, bm)
isStrictSubset(x) == IsBitmap(x) /\ roaring_bitmap_is_strict_subset(bm, x)
isStrictSuperset(x) == IsBitmap(x) /\ roaring_bitmap_is_strict_subset(x, bm)
intersects(x) == IsBitmap(x) /\ roaring_bitmap_intersect(bm, x)

andCardinality(x) == IF IsBitmap(x) THEN roaring_bitmap_and_cardinality(bm, x) ELSE -1
orCardinality(x) == IF IsBitmap(x) THEN roaring_bitmap_or_cardinality(bm, x) ELSE -1
xorCardinality(x) == IF IsBitmap(x) THEN roaring_bitmap_xor_cardinality(bm, x) ELSE -1
andNotCardinality(x) == IF IsBitmap(x) THEN roaring_bitmap_andnot_cardinality(bm, x) ELSE -1
jaccardIndex(x) == IF IsBitmap(x) THEN roaring_bitmap_jaccard_index(bm, x) ELSE -1

---------------------------------------------------------------------------
(* The methods of index.js that take any set of JavaScript: anything may be  *)
(* in it, and numbers are counted in halves here too.  Some of them walk     *)
(* over the smaller of the two.                                              *)

Elems == {2 * v : v \in toSet(Undefined)}
union(other) == Elems \cup other
intersection(other) ==
    IF getSize <= Cardinality(other) THEN {e \in Elems : e \in other} ELSE {e \in other : has(e)}
difference(other) ==
    IF getSize <= Cardinality(other)
    THEN Elems \ {e \in Elems : e \in other}
    ELSE {e \in Elems : e \notin other}
symmetricDifference(other) == (Elems \ {e \in other : has(e)}) \cup {e \in other : ~has(e)}
isSupersetOf(other) == \A e \in other : has(e)
isSubsetOf(other) == \A e \in Elems : e \in other
isDisjointFrom(other) ==
    IF getSize <= Cardinality(other) THEN \A e \in Elems : e \notin other ELSE \A e \in other : ~has(e)

---------------------------------------------------------------------------
(* Properties, of a bitmap between two calls. *)

Quiet == call = Idle
Below(H, v) == Cardinality({w \in H : w < v})
IsAt(H, v, i) == Below(H, v) = i
Counted(n) == IF IsNumber(n) /\ n > 0 THEN Truncated(n) ELSE 0

ElementsAgree(H, n) ==
    /\ has(n) <=> \E v \in H : n = 2 * v
    /\ rankOf(n) = IF IsUint32(n) THEN Cardinality({v \in H : 2 * v <= n}) ELSE 0
    /\ select(n) = {v \in H : n = 2 * Below(H, v)}
    /\ IF IsNumber(n)
       THEN at(n) = {v \in H : \/ IsAt(H, v, Truncated(n))
                               \/ n < 0 /\ IsAt(H, v, Truncated(n) + Cardinality(H))}
       ELSE at(n) = {}
    /\ ~has(n) => indexOf(<<n>>) = -1 /\ lastIndexOf(<<n>>) = -1

(* An index to search from cuts off what comes before it, or after it. *)
SearchesAgree(H, v, n) ==
    LET from == IF IsNumber(n) THEN Truncated(n) ELSE 0
        start == IF from < 0 THEN from + Cardinality(H) ELSE from
    IN  /\ indexOf(<<2 * v>>) = Below(H, v) /\ lastIndexOf(<<2 * v>>) = Below(H, v)
        /\ indexOf(<<2 * v, n>>) = IF Below(H, v) >= start THEN Below(H, v) ELSE -1
        /\ lastIndexOf(<<2 * v, n>>) = IF Below(H, v) <= start THEN Below(H, v) ELSE -1

StatisticsAgree(H) ==
    LET stats == statistics
        total(f) == f["array"] + f["bitset"] + f["run"]
    IN  /\ total(stats.n_of) = stats.n_containers
        /\ total(stats.n_values) = Cardinality(H)
        /\ stats.cardinality = Cardinality(H)
        /\ stats.min_value = Min(H \cup {UINT32_MAX})
        /\ stats.max_value = Max(H \cup {0})

(* Size, ends, membership, positions and elements at positions agree with    *)
(* the set of values, and so with each other, although every container type   *)
(* counts in its own way and cardinalities are cached; statistics add up.    *)
QueriesAgree == Quiet =>
    LET H == Values(bm)
    IN  /\ getSize = Cardinality(H)
        /\ StatisticsAgree(H)
        /\ \A n \in Numbers : ElementsAgree(H, n) /\ \A v \in H : SearchesAgree(H, v, n)

(* Ranges with fractions, with ends that are left out or out of bounds, in   *)
(* one container, in neighbours and across several are counted right.  A     *)
(* range is there when it has integers and all of them are values.           *)
(* intersectsWithRange is never true without a value in the range, and always *)
(* true with one before the last integer of the range; a value that is the    *)
(* last integer it may miss, see IntersectsWithRangeFindsValues.              *)
RangesAgree == Quiet =>
    LET H == Values(bm)
    IN  \A args \in Ranges :
            LET inside == Promise!Between(args[1], args[2])
                integers == {i \in -UINT32_MAX .. 2 * UINT32_MAX :
                                /\ IsNumber(args[1]) /\ IsNumber(args[2])
                                /\ args[1] <= 2 * i /\ 2 * i < args[2]}
            IN  /\ rangeCardinality(args) = Cardinality(H \cap inside)
                /\ intersectsWithRange(args) => H \cap inside # {}
                /\ (\E v \in H \cap inside : v + 1 \in inside) => intersectsWithRange(args)
                /\ hasRange(args) <=> integers # {} /\ integers \subseteq H

(* What the documentation says of intersectsWithRange: a bitmap with a value  *)
(* in the range intersects it.  Whether or not the end is part of the range, *)
(* the values before the end are.                                            *)
IntersectsWithRangeFindsValues == Quiet =>
    \A args \in Ranges : Values(bm) \cap Promise!Between(args[1], args[2]) # {} => intersectsWithRange(args)

(* Of two elements given, those stay that the values do not overwrite. *)
ArrayFilled(n) ==
    LET given == [i \in 0 .. 1 |-> Undefined]
    IN  \A offset \in {Undefined, 0, 2, 5} :
            LET from == IF offset = Undefined THEN 2 ELSE Truncated(offset)
                filled == toArrayInto(given, n, offset)
            IN  \A i \in DOMAIN filled :
                    filled[i] = IF from <= i /\ i < from + Len(toArray(n))
                                THEN toArray(n)[i - from + 1]
                                ELSE given[i]

(* The arrays have the values in order, or in reverse; a limit, an offset and *)
(* elements to skip from the end, whole or not, small or larger than the      *)
(* bitmap, cut them down to the right part, however many are read at a time. *)
(* For toArray and toSet a fraction is the next whole number.                *)
ArraysAgree == Quiet =>
    LET H == Values(bm)
        size == Cardinality(H)
        all == toUint32Array(Undefined)
        part(s, from, n) == SubSeq(s, from + 1, Min({from + n, size}))
    IN  /\ Len(all) = size
        /\ \A i \in 1 .. size : all[i] \in H /\ Below(H, all[i]) = i - 1
        /\ toReversed(Undefined, Undefined) = Reverse(all)
        /\ toArray(Undefined) = all /\ toSet(Undefined) = H /\ toSet(NaN) = H
        /\ \A n \in Numbers \ {NaN, Undefined} :
            /\ toUint32Array(n) = part(all, 0, Counted(n))
            /\ toArray(n) = part(all, 0, Counted(n + 1))
            /\ toSet(n) = ToSet(toArray(n))
            /\ ArrayFilled(n)
            /\ \A m \in Numbers \ {NaN, Undefined} :
                /\ rangeUint32Array(m, n) = part(all, Counted(m), Counted(n))
                /\ toReversed(n, m) = part(Reverse(all), Counted(m), Counted(n))

SetMethodsAgree(H, S) ==
    LET doubled == {2 * v : v \in H}
    IN  /\ union(S) = doubled \cup S
        /\ intersection(S) = doubled \cap S
        /\ difference(S) = doubled \ S
        /\ symmetricDifference(S) = SymDiff(doubled, S)
        /\ isSupersetOf(S) <=> S \subseteq doubled
        /\ isSubsetOf(S) <=> doubled \subseteq S
        /\ isDisjointFrom(S) <=> doubled \cap S = {}

(* A bitmap is compared with another one by its values, however the two are  *)
(* stored, and cardinalities of operations are right without the operation.  *)
(* With a set that may hold anything it behaves as a set, whichever of the   *)
(* two is the larger one.                                                    *)
ComparisonsAgree == Quiet =>
    LET H == Values(bm)
    IN  /\ \A S \in {{0}, UNION {ToSet(list) : list \in Lists}} : SetMethodsAgree(H, S)
        /\ \A x \in Operands \cup {roaring_bitmap_run_optimize(bm), roaring_bitmap_remove_run_compression(bm)} :
                LET X == Values(x)
                IN  /\ isEqual(x) <=> H = X
                    /\ roaring_bitmap_equals(x, bm) <=> H = X
                    /\ isSubset(x) <=> H \subseteq X
                    /\ isSuperset(x) <=> X \subseteq H
                    /\ isStrictSubset(x) <=> H \subseteq X /\ H # X
                    /\ isStrictSuperset(x) <=> X \subseteq H /\ H # X
                    /\ intersects(x) <=> H \cap X # {}
                    /\ roaring_bitmap_intersect(x, bm) <=> H \cap X # {}
                    /\ andCardinality(x) = Cardinality(H \cap X)
                    /\ orCardinality(x) = Cardinality(H \cup X)
                    /\ xorCardinality(x) = Cardinality(SymDiff(H, X))
                    /\ andNotCardinality(x) = Cardinality(H \ X)
                    /\ roaring_bitmap_andnot_cardinality(x, bm) = Cardinality(X \ H)
                    /\ jaccardIndex(x) = <<Cardinality(H \cap X), Cardinality(H \cup X)>>

(* What is written has the size computed for it and is read back: with the   *)
(* same containers where a format stores containers, although it does not    *)
(* say which type most of them have, and with the same values otherwise.  A   *)
(* buffer that is one byte short is not read as something else.              *)
FormatsRoundTrip == Quiet =>
    LET written(format) == serializeToBuffer(bm, format)
        size(format) == computeSerializedSize(bm, format)
        back(format, missing) == deserializeBuf(written(format), size(format) - missing, format)
    IN  /\ back("portable", 0) = {bm}
        /\ written("portable").bytes = size("portable")
        /\ deserializeBuf(written("portable"), size("portable"), "unsafe_frozen_portable") = {bm}
        /\ back("unsafe_frozen_croaring", 0) = {bm}
        /\ \A x \in back("croaring", 0) \cup back("uint32_array", 0) :
                Values(x) = Values(bm) /\ roaring_bitmap_internal_validate(x)
        /\ back("croaring", 0) # {} /\ back("uint32_array", 0) # {}
        /\ \A format \in {"portable", "croaring", "unsafe_frozen_croaring"} : back(format, 1) = {}
        /\ size("uint32_array") > 0 => back("uint32_array", 1) = {}
============================================================================
