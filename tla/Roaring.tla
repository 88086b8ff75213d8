------------------------------ MODULE Roaring ------------------------------
(* The bitmaps of CRoaring (src/roaring-node.cpp): the changes that add,     *)
(* remove and flip values, the conversions of all containers and the set     *)
(* operations of two bitmaps.  A bitmap is a function from the keys that are *)
(* present, the high halves of its values, to their containers.  The library *)
(* keeps the keys in a sorted array and merges two of them with two indices; *)
(* what the merge does with a key depends only on which bitmaps have it.     *)
EXTENDS ContainerMerges, Functions

CONSTANTS KeyCount,            \* keys there are (2^16)
          NO_OFFSET_THRESHOLD  \* fewer containers than this are stored without offsets if one has runs (4)

ASSUME KeyAssumption == KeyCount \in Nat \ {0} /\ NO_OFFSET_THRESHOLD \in Nat

Key == 0 .. KeyCount - 1
UINT32_MAX == KeyCount * ChunkSize - 1
Value == 0 .. UINT32_MAX

high(v) == v \div ChunkSize
low(v) == v % ChunkSize
Empty == [k \in {} |-> NULL]

Ascending(S) == Sorted(S, <)

(* The values of a bitmap, as a set. *)
Values(bm) ==
    UNION {{k * ChunkSize + v : v \in container_to_uint32_array(bm[k])} : k \in DOMAIN bm}

With(bm, k, c) == [x \in DOMAIN bm \cup {k} |-> IF x = k THEN c ELSE bm[x]]
Without(bm, k) == Restrict(bm, DOMAIN bm \ {k})

(* Puts a container at a key, or takes the key out when nothing is left. *)
WithNonempty(bm, k, c) == IF container_nonzero_cardinality(c) THEN With(bm, k, c) ELSE Without(bm, k)
Nonempty(bm) == Restrict(bm, {k \in DOMAIN bm : container_nonzero_cardinality(bm[k])})

roaring_bitmap_get_cardinality(bm) ==
    SumFunction([k \in DOMAIN bm |-> container_get_cardinality(bm[k])])

---------------------------------------------------------------------------
(* Single values and lists of values. *)

roaring_bitmap_add(bm, v) ==
    LET c == IF high(v) \in DOMAIN bm THEN bm[high(v)] ELSE Array({})
    IN  With(bm, high(v), container_add(c, low(v)))

(* Whether the value was new is told from the container: it is another one,  *)
(* or its cardinality changed.                                               *)
roaring_bitmap_add_checked(bm, v) ==
    LET k == high(v)
        after == roaring_bitmap_add(bm, v)
    IN  [bm |-> after,
         result |-> \/ k \notin DOMAIN bm
                    \/ bm[k].type # after[k].type
                    \/ container_get_cardinality(bm[k]) # container_get_cardinality(after[k])]

roaring_bitmap_add_many(bm, vals) == Loop(roaring_bitmap_add, bm, vals)

roaring_bitmap_remove(bm, v) ==
    LET c == container_remove(bm[high(v)], low(v))
    IN  IF high(v) \notin DOMAIN bm
        THEN bm
        ELSE IF container_get_cardinality(c) # 0 THEN With(bm, high(v), c) ELSE Without(bm, high(v))

roaring_bitmap_remove_checked(bm, v) ==
    LET k == high(v)
        after == roaring_bitmap_remove(bm, v)
    IN  [bm |-> after,
         result |-> /\ k \in DOMAIN bm
                    /\ k \in DOMAIN after =>
                            container_get_cardinality(bm[k]) # container_get_cardinality(after[k])]

roaring_bitmap_remove_many(bm, vals) == Loop(roaring_bitmap_remove, bm, vals)

---------------------------------------------------------------------------
(* Ranges. *)

(* The first and last value of min .. max in the chunk of a key. *)
ContainerMin(k, min) == IF high(min) = k THEN low(min) ELSE 0
ContainerMax(k, max) == IF high(max) = k THEN low(max) ELSE ChunkSize - 1

roaring_bitmap_add_range_closed(bm, min, max) ==
    LET keys == {k \in Key : high(min) <= k /\ k <= high(max)}
        changed(k) ==
            IF k \in DOMAIN bm
            THEN container_add_range(bm[k], ContainerMin(k, min), ContainerMax(k, max))
            ELSE container_from_range(ContainerMin(k, min), ContainerMax(k, max) + 1, 1)
    IN  IF min > max
        THEN bm
        ELSE [k \in DOMAIN bm \cup keys |-> IF k \in keys THEN changed(k) ELSE bm[k]]

roaring_bitmap_remove_range_closed(bm, min, max) ==
    LET keys == {k \in DOMAIN bm : high(min) <= k /\ k <= high(max)}
        changed == [k \in DOMAIN bm |->
                        IF k \in keys
                        THEN container_remove_range(bm[k], ContainerMin(k, min), ContainerMax(k, max))
                        ELSE bm[k]]
    IN  IF min > max THEN bm ELSE Restrict(changed, {k \in DOMAIN bm : changed[k] # NULL})

(* From a step of 2^16 on single values are added, with a counter of 32 bits *)
(* that wraps around: the loop is left at the first value that is not below  *)
(* max, and there may be none.                                               *)
SteppedValue(min, step, n) == (min + n * step) % (UINT32_MAX + 1)
SteppedEnd(min, max, step) == {n \in 1 .. UINT32_MAX + 1 : SteppedValue(min, step, n) >= max}
RangeEnds(min, max, step) == step < ChunkSize \/ SteppedEnd(min, max, step) # {}
RangeWraps(min, max, step) ==
    step >= ChunkSize /\ \E n \in 1 .. UINT32_MAX + 1 : /\ min + n * step > UINT32_MAX
                                                       /\ \A m \in 1 .. n : SteppedValue(min, step, m) < max
(* The smallest value of the range that is in the chunk of a key or later. *)
SteppedContainer(min, max, step, k) ==
    LET from == Max({min, k * ChunkSize})
        first == min + ((from - min + step - 1) \div step) * step
    IN  container_from_range(low(first), Min({max - k * ChunkSize, ChunkSize}), step)

(* Requires min < max and step > 0. *)
roaring_bitmap_from_range(min, max, step) ==
    IF step >= ChunkSize
    THEN roaring_bitmap_add_many(Empty,
            [n \in 1 .. Min(SteppedEnd(min, max, step)) |-> SteppedValue(min, step, n - 1)])
    ELSE [k \in {x \in Key : \E v \in min .. max - 1 : high(v) = x /\ (v - min) % step = 0} |->
            SteppedContainer(min, max, step, k)]

inplace_flip_container(bm, k, first, last) ==
    IF k \in DOMAIN bm
    THEN WithNonempty(bm, k, container_not_range(bm[k], first, last + 1))
    ELSE With(bm, k, container_range_of_ones(first, last + 1))
inplace_fully_flip_container(bm, k) ==
    IF k \in DOMAIN bm
    THEN WithNonempty(bm, k, container_not(bm[k]))
    ELSE With(bm, k, container_range_of_ones(0, ChunkSize))

(* A chunk that lies in the range as a whole is flipped as a whole, unless   *)
(* the range is in one chunk.                                                *)
FlippedAt(bm, k, first, last) ==
    IF high(first) # high(last) /\ ContainerMin(k, first) = 0 /\ ContainerMax(k, last) = ChunkSize - 1
    THEN inplace_fully_flip_container(bm, k)
    ELSE inplace_flip_container(bm, k, ContainerMin(k, first), ContainerMax(k, last))
roaring_bitmap_flip_inplace_closed(bm, first, last) ==
    LET flip(b, k) == FlippedAt(b, k, first, last)
        count == high(last) - high(first) + 1
    IN  IF first > last THEN bm ELSE Loop(flip, bm, [n \in 1 .. count |-> high(first) + n - 1])
roaring_bitmap_flip_inplace(bm, first, end) ==
    IF first >= end \/ first > UINT32_MAX + 1 THEN bm ELSE roaring_bitmap_flip_inplace_closed(bm, first, end - 1)

---------------------------------------------------------------------------
(* Conversions of all containers. *)

roaring_bitmap_run_optimize(bm) == [k \in DOMAIN bm |-> convert_run_optimize(bm[k])]
roaring_bitmap_remove_run_compression(bm) ==
    [k \in DOMAIN bm |->
        IF bm[k].type = "run"
        THEN convert_to_bitset_or_array_container(bm[k], run_container_cardinality(bm[k]))
        ELSE bm[k]]
(* Mutant: what was left to the end is not done. *)
roaring_bitmap_left_lazy(bm) == bm

roaring_bitmap_repair_after_lazy(bm) == [k \in DOMAIN bm |-> container_repair_after_lazy(bm[k])]

---------------------------------------------------------------------------
(* Operations of two bitmaps.  Merge takes a container of one bitmap as it is *)
(* unless the other has its key too.                                         *)

CommonKeys(bm1, bm2) == DOMAIN bm1 \cap DOMAIN bm2
Merge(bm1, bm2, both) ==
    [k \in DOMAIN bm1 \cup DOMAIN bm2 |->
        CASE k \in DOMAIN both -> both[k]
          [] k \in DOMAIN bm1 \ DOMAIN both -> bm1[k]
          [] k \in DOMAIN bm2 \ DOMAIN bm1 -> bm2[k]]

(* Only the keys of both are kept. *)
roaring_bitmap_and(bm1, bm2) ==
    Nonempty([k \in CommonKeys(bm1, bm2) |-> container_and(bm1[k], bm2[k])])
roaring_bitmap_and_inplace(bm1, bm2) ==
    Nonempty([k \in CommonKeys(bm1, bm2) |-> container_iand(bm1[k], bm2[k])])

roaring_bitmap_or(bm1, bm2) == Merge(bm1, bm2, [k \in CommonKeys(bm1, bm2) |-> container_or(bm1[k], bm2[k])])
roaring_bitmap_or_inplace(bm1, bm2) ==
    LET or(c1, c2) == IF container_is_full(c1) THEN c1 ELSE container_ior(c1, c2)
    IN  Merge(bm1, bm2, [k \in CommonKeys(bm1, bm2) |-> or(bm1[k], bm2[k])])

roaring_bitmap_xor(bm1, bm2) == Nonempty(Merge(bm1, bm2, [k \in CommonKeys(bm1, bm2) |-> container_xor(bm1[k], bm2[k])]))
roaring_bitmap_xor_inplace(bm1, bm2) == Nonempty(Merge(bm1, bm2, [k \in CommonKeys(bm1, bm2) |-> container_ixor(bm1[k], bm2[k])]))

roaring_bitmap_andnot(bm1, bm2) ==
    Nonempty([k \in DOMAIN bm1 |-> IF k \in DOMAIN bm2 THEN container_andnot(bm1[k], bm2[k]) ELSE bm1[k]])
roaring_bitmap_andnot_inplace(bm1, bm2) ==
    Nonempty([k \in DOMAIN bm1 |-> IF k \in DOMAIN bm2 THEN container_iandnot(bm1[k], bm2[k]) ELSE bm1[k]])

(* Every container falls into two neighbouring chunks.  The part that falls  *)
(* into the lower chunk is merged with what fell there from the one before.  *)
(* With a multiple of the chunk size only the keys change.                   *)
roaring_bitmap_add_offset(bm, offset) ==
    LET container_offset == offset \div ChunkSize
        in_offset == offset % ChunkSize
        lo(k) == IF k - container_offset \in DOMAIN bm
                 THEN container_add_offset(bm[k - container_offset], in_offset).lo ELSE NULL
        hi(k) == IF k - 1 - container_offset \in DOMAIN bm
                 THEN container_add_offset(bm[k - 1 - container_offset], in_offset).hi ELSE NULL
        offset_append_with_merge(last, c) ==
            IF last = NULL THEN c ELSE IF c = NULL THEN last ELSE container_ior(last, c)
    IN  CASE offset = 0 -> bm
          [] offset # 0 /\ in_offset = 0 ->
                [k \in {x \in Key : x - container_offset \in DOMAIN bm} |-> bm[k - container_offset]]
          [] offset # 0 /\ in_offset # 0 ->
                roaring_bitmap_repair_after_lazy(
                    [k \in {x \in Key : lo(x) # NULL \/ hi(x) # NULL} |->
                        offset_append_with_merge(hi(k), lo(k))])

---------------------------------------------------------------------------
(* Unions and symmetric differences of many bitmaps are computed lazily, and *)
(* repaired at the end.                                                      *)

roaring_bitmap_lazy_or(bm1, bm2) == Merge(bm1, bm2, [k \in CommonKeys(bm1, bm2) |-> container_lazy_or(bm1[k], bm2[k])])
roaring_bitmap_lazy_or_inplace(bm1, bm2) ==
    LET or(c1, c2) == IF container_is_full(c1) THEN c1 ELSE container_lazy_ior(c1, c2)
    IN  Merge(bm1, bm2, [k \in CommonKeys(bm1, bm2) |-> or(bm1[k], bm2[k])])
lazy_or_from_lazy_inputs(bm1, bm2) ==
    LET or(c1, c2) == IF c2.type = "bitset" /\ c1.type # "bitset"
                      THEN container_lazy_ior(c2, c1)
                      ELSE container_lazy_ior(c1, c2)
    IN  Merge(bm1, bm2, [k \in CommonKeys(bm1, bm2) |-> or(bm1[k], bm2[k])])

roaring_bitmap_lazy_xor(bm1, bm2) == Nonempty(Merge(bm1, bm2, [k \in CommonKeys(bm1, bm2) |-> container_lazy_xor(bm1[k], bm2[k])]))
roaring_bitmap_lazy_xor_inplace(bm1, bm2) == Nonempty(Merge(bm1, bm2, [k \in CommonKeys(bm1, bm2) |-> container_lazy_ixor(bm1[k], bm2[k])]))

roaring_bitmap_xor_many(xs) ==
    CASE xs = <<>> -> Empty
      [] Len(xs) = 1 -> xs[1]
      [] Len(xs) > 1 ->
            roaring_bitmap_repair_after_lazy(
                Loop(roaring_bitmap_lazy_xor_inplace, roaring_bitmap_lazy_xor(xs[1], xs[2]),
                         SubSeq(xs, 3, Len(xs))))

(* What a bitmap takes in the portable format: cookie, which containers are  *)
(* runs, keys and cardinalities, offsets, and the containers.                *)
HasRuns(bm) == \E k \in DOMAIN bm : bm[k].type = "run"
ra_portable_header_size(bm) ==
    LET size == Cardinality(DOMAIN bm)
    IN  IF HasRuns(bm)
        THEN 4 + (size + 7) \div 8 + (IF size < NO_OFFSET_THRESHOLD THEN 4 ELSE 8) * size
        ELSE 8 + 8 * size
roaring_bitmap_portable_size_in_bytes(bm) ==
    ra_portable_header_size(bm) + SumFunction([k \in DOMAIN bm |-> container_size_in_bytes(bm[k])])

(* A queue of bitmaps.  The two smallest are united and put back, and one    *)
(* that is a result itself is changed in place.  Which of several bitmaps of *)
(* one size comes out of the heap first is left open.                        *)
SmallestPairs(queue) ==
    LET size(i) == roaring_bitmap_portable_size_in_bytes(queue[i].bitmap)
        smallest(I) == LET least == Min({size(i) : i \in I}) IN {i \in I : size(i) = least}
    IN  UNION {{<<i, j>> : j \in smallest(DOMAIN queue \ {i})} : i \in smallest(DOMAIN queue)}
United(x1, x2) ==
    CASE x1.is_temporary /\ x2.is_temporary -> lazy_or_from_lazy_inputs(x1.bitmap, x2.bitmap)
      [] ~x1.is_temporary /\ x2.is_temporary -> roaring_bitmap_lazy_or_inplace(x2.bitmap, x1.bitmap)
      [] x1.is_temporary /\ ~x2.is_temporary -> roaring_bitmap_lazy_or_inplace(x1.bitmap, x2.bitmap)
      [] ~x1.is_temporary /\ ~x2.is_temporary -> roaring_bitmap_lazy_or(x1.bitmap, x2.bitmap)
WithUnited(queue, p) ==
    Append(RemoveAt(RemoveAt(queue, Max({p[1], p[2]})), Min({p[1], p[2]})),
           [bitmap |-> United(queue[p[1]], queue[p[2]]), is_temporary |-> TRUE])

WithSmallestUnited(queues, n) == UNION {{WithUnited(q, p) : p \in SmallestPairs(q)} : q \in queues}

(* The set of the possible results. *)
roaring_bitmap_or_many_heap(xs) ==
    LET pq == [i \in DOMAIN xs |-> [bitmap |-> xs[i], is_temporary |-> FALSE]]
    IN  CASE xs = <<>> -> {Empty}
          [] Len(xs) = 1 -> {xs[1]}
          [] Len(xs) > 1 ->
                {roaring_bitmap_repair_after_lazy(q[1].bitmap) :
                    q \in Loop(WithSmallestUnited, {pq}, [n \in 1 .. Len(xs) - 1 |-> n])}
============================================================================
