-------------------------- MODULE RoaringQueries ---------------------------
(* What CRoaring (src/roaring-node.cpp) answers about one bitmap and about   *)
(* two.  The answers are put together from answers about containers, which   *)
(* look at cached cardinalities, ends of runs and positions in arrays rather *)
(* than at the values.                                                       *)
EXTENDS Roaring

---------------------------------------------------------------------------
(* One value, positions, ends. *)

roaring_bitmap_contains(bm, v) == high(v) \in DOMAIN bm /\ container_contains(bm[high(v)], low(v))

CardinalityBelow(bm, key) ==
    SumFunction([k \in {x \in DOMAIN bm : x < key} |-> container_get_cardinality(bm[k])])

roaring_bitmap_rank(bm, x) ==
    CardinalityBelow(bm, high(x)) +
        IF high(x) \in DOMAIN bm THEN container_rank(bm[high(x)], low(x)) ELSE 0

roaring_bitmap_get_index(bm, x) ==
    LET index == container_get_index(bm[high(x)], low(x))
    IN  IF high(x) \notin DOMAIN bm THEN -1
        ELSE IF index < 0 THEN -1 ELSE CardinalityBelow(bm, high(x)) + index

(* The element of the given rank, in a set that is empty when there is none. *)
roaring_bitmap_select(bm, rank) ==
    {k * ChunkSize + container_select(bm[k], CardinalityBelow(bm, k), rank) :
        k \in {x \in DOMAIN bm : /\ CardinalityBelow(bm, x) <= rank
                                 /\ rank < CardinalityBelow(bm, x) + container_get_cardinality(bm[x])}}

roaring_bitmap_is_empty(bm) == DOMAIN bm = {}
roaring_bitmap_minimum(bm) ==
    LET k == Min(DOMAIN bm)
    IN  IF DOMAIN bm = {} THEN UINT32_MAX ELSE k * ChunkSize + container_minimum(bm[k])
roaring_bitmap_maximum(bm) ==
    LET k == Max(DOMAIN bm)
    IN  IF DOMAIN bm = {} THEN 0 ELSE k * ChunkSize + container_maximum(bm[k])

(* An iterator goes to the container of a value, or to the next one when the *)
(* container ends before it; the result is empty when nothing is left.       *)
roaring_uint32_iterator_move_equalorlarger(bm, v) ==
    LET here == high(v) \in DOMAIN bm /\ container_maximum(bm[high(v)]) >= low(v)
        later == {k \in DOMAIN bm : k > high(v)}
        from(k, first) == k * ChunkSize + Min({x \in container_to_uint32_array(bm[k]) : x >= first})
    IN  IF here THEN {from(high(v), low(v))}
        ELSE IF later # {} THEN {from(Min(later), 0)} ELSE {}

roaring_bitmap_statistics(bm) ==
    LET of(type) == {k \in DOMAIN bm : bm[k].type = type}
        values(type) == SumFunction([k \in of(type) |-> container_get_cardinality(bm[k])])
        bytes(type) == SumFunction([k \in of(type) |-> container_size_in_bytes(bm[k])])
    IN  [n_containers |-> Cardinality(DOMAIN bm),
         cardinality |-> roaring_bitmap_get_cardinality(bm),
         min_value |-> roaring_bitmap_minimum(bm),
         max_value |-> roaring_bitmap_maximum(bm),
         n_of |-> [t \in {"array", "bitset", "run"} |-> Cardinality(of(t))],
         n_values |-> [t \in {"array", "bitset", "run"} |-> values(t)],
         n_bytes |-> [t \in {"array", "bitset", "run"} |-> bytes(t)]]

---------------------------------------------------------------------------
(* Ranges of values. *)

(* Counts up to the last value of the range in its container, and takes back *)
(* what comes before the first one in the container of that.                 *)
roaring_bitmap_range_cardinality_closed(bm, first, last) ==
    LET upTo(k) == IF k = high(last)
                   THEN container_rank(bm[k], low(last))
                   ELSE container_get_cardinality(bm[k])
        before == IF high(first) \in DOMAIN bm /\ low(first) # 0
                  THEN container_rank(bm[high(first)], low(first) - 1)
                  ELSE 0
    IN  IF first > last
        THEN 0
        ELSE SumFunction([k \in {x \in DOMAIN bm : high(first) <= x /\ x <= high(last)} |-> upTo(k)]) - before
roaring_bitmap_range_cardinality(bm, first, end) ==
    IF first >= end \/ first > UINT32_MAX + 1 THEN 0 ELSE roaring_bitmap_range_cardinality_closed(bm, first, end - 1)

(* The containers between the first and the last one have to be full. *)
roaring_bitmap_contains_range_closed(bm, first, last) ==
    LET kf == high(first)
        kl == high(last)
        between == {k \in DOMAIN bm : kf <= k /\ k <= kl}
    IN  CASE first > last -> TRUE
          [] first = last -> roaring_bitmap_contains(bm, first)
          [] first < last ->
                /\ {kf, kl} \subseteq DOMAIN bm
                /\ Cardinality(between) = kl - kf + 1
                /\ IF kf = kl
                   THEN container_contains_range(bm[kf], low(first), low(last) + 1)
                   ELSE /\ container_contains_range(bm[kf], low(first), ChunkSize)
                        /\ container_contains_range(bm[kl], 0, low(last) + 1)
                        /\ \A k \in between \ {kf, kl} : container_is_full(bm[k])
roaring_bitmap_contains_range(bm, first, end) ==
    \/ first >= end
    \/ first > UINT32_MAX + 1
    \/ roaring_bitmap_contains_range_closed(bm, first, end - 1)

(* y is not part of the range. *)
roaring_bitmap_intersect_with_range(bm, x, y) ==
    x < y /\ \E v \in roaring_uint32_iterator_move_equalorlarger(bm, x) : v < y

(* The values in order; then those that an iterator reads after it skipped. *)
roaring_bitmap_to_uint32_array(bm) ==
    LET chunk(k) == Ascending({k * ChunkSize + v : v \in container_to_uint32_array(bm[k])})
        extended(values, k) == values \o chunk(k)
    IN  Loop(extended, <<>>, Ascending(DOMAIN bm))
roaring_bitmap_range_uint32_array(bm, offset, limit) ==
    LET all == roaring_bitmap_to_uint32_array(bm)
    IN  SubSeq(all, offset + 1, Min({offset + limit, Len(all)}))

---------------------------------------------------------------------------
(* Two bitmaps. *)

roaring_bitmap_equals(bm1, bm2) ==
    DOMAIN bm1 = DOMAIN bm2 /\ \A k \in DOMAIN bm1 : container_equals(bm1[k], bm2[k])
roaring_bitmap_is_subset(bm1, bm2) ==
    DOMAIN bm1 \subseteq DOMAIN bm2 /\ \A k \in DOMAIN bm1 : container_is_subset(bm1[k], bm2[k])
roaring_bitmap_is_strict_subset(bm1, bm2) ==
    /\ roaring_bitmap_get_cardinality(bm2) > roaring_bitmap_get_cardinality(bm1)
    /\ roaring_bitmap_is_subset(bm1, bm2)
roaring_bitmap_intersect(bm1, bm2) ==
    \E k \in DOMAIN bm1 \cap DOMAIN bm2 : container_intersect(bm1[k], bm2[k])

(* Only the intersection is looked at; the rest follows from cardinalities. *)
roaring_bitmap_and_cardinality(bm1, bm2) ==
    SumFunction([k \in DOMAIN bm1 \cap DOMAIN bm2 |-> container_and_cardinality(bm1[k], bm2[k])])
roaring_bitmap_or_cardinality(bm1, bm2) ==
    roaring_bitmap_get_cardinality(bm1) + roaring_bitmap_get_cardinality(bm2)
        - roaring_bitmap_and_cardinality(bm1, bm2)
roaring_bitmap_andnot_cardinality(bm1, bm2) ==
    roaring_bitmap_get_cardinality(bm1) - roaring_bitmap_and_cardinality(bm1, bm2)
roaring_bitmap_xor_cardinality(bm1, bm2) ==
    roaring_bitmap_get_cardinality(bm1) + roaring_bitmap_get_cardinality(bm2)
        - 2 * roaring_bitmap_and_cardinality(bm1, bm2)
(* Numerator and denominator of the index. *)
roaring_bitmap_jaccard_index(bm1, bm2) ==
    LET inter == roaring_bitmap_and_cardinality(bm1, bm2)
    IN  <<inter, roaring_bitmap_get_cardinality(bm1) + roaring_bitmap_get_cardinality(bm2) - inter>>

---------------------------------------------------------------------------
(* What the library accepts as a bitmap. *)

roaring_bitmap_internal_validate(bm) ==
    /\ DOMAIN bm \subseteq Key
    /\ \A k \in DOMAIN bm : container_internal_validate(bm[k])
============================================================================
