-------------------------- MODULE ContainerPairs ---------------------------
(* Equality, subset and intersection of two containers of CRoaring           *)
(* (src/roaring-node.cpp), and what the operations on two containers share.  *)
(* Each pair of representations has its own code, which decides the          *)
(* representation of the result and, for a bitset, its cached cardinality.   *)
EXTENDS Containers

CONSTANTS ARRAY_LAZY_LOWERBOUND, \* two arrays with more values than this give a lazy bitset (1024)
          XorThreshold,          \* below this many values an array is xored as runs (32)
          AndNotThreshold        \* up to this many values runs stay runs when an array is removed (32)

ASSUME ThresholdAssumption ==
    /\ {ARRAY_LAZY_LOWERBOUND, XorThreshold, AndNotThreshold} \subseteq Nat
    /\ ARRAY_LAZY_LOWERBOUND <= DEFAULT_MAX_SIZE

Pair(c1, c2) == <<c1.type, c2.type>>
Among(c1, c2, type) == type \in {c1.type, c2.type}
Both(c1, c2, type) == c1.type = type /\ c2.type = type

(* The operand of the given type, and the other one. *)
TheOne(c1, c2, type) == IF c1.type = type THEN c1 ELSE c2
TheOther(c1, c2, type) == IF c1.type = type THEN c2 ELSE c1

(* Lists of values set, flipped or cleared in a bitset with a running count. *)
bitset_set_list(b, S) == Bitset(b.values \cup S, BITSET_UNKNOWN_CARDINALITY)
bitset_set_list_withcard(b, S) == Bitset(b.values \cup S, b.cardinality + Cardinality(S \ b.values))
bitset_flip_list(b, S) == Bitset(SymDiff(b.values, S), BITSET_UNKNOWN_CARDINALITY)
bitset_flip_list_withcard(b, S) ==
    Bitset(SymDiff(b.values, S), b.cardinality + Cardinality(S \ b.values) - Cardinality(S \cap b.values))
bitset_clear_list(b, S) == Bitset(b.values \ S, b.cardinality - Cardinality(S \cap b.values))

---------------------------------------------------------------------------
(* Comparisons. *)

bitset_container_equals(b1, b2) ==
    /\ BITSET_UNKNOWN_CARDINALITY \notin {b1.cardinality, b2.cardinality} =>
            b1.cardinality = b2.cardinality
    /\ b1.values = b2.values
array_container_equals(a1, a2) == a1.values = a2.values
run_container_equals(r1, r2) == r1.runs = r2.runs
array_container_equal_bitset(a, b) ==
    /\ b.cardinality # BITSET_UNKNOWN_CARDINALITY => b.cardinality = Cardinality(a.values)
    /\ a.values = b.values

(* Only the ends of each run are looked up in the array, at the positions    *)
(* the lengths of the runs before it say.                                    *)
run_container_equals_array(r, a) ==
    LET at(pos, v) == v \in a.values /\ Cardinality({w \in a.values : w < v}) = pos
        position(s) == SumFunction([t \in {u \in r.runs : u[1] < s[1]} |-> t[2] - t[1] + 1])
    IN  /\ run_container_cardinality(r) = Cardinality(a.values)
        /\ \A s \in r.runs : at(position(s), s[1]) /\ at(position(s) + s[2] - s[1], s[2])
(* Mutant: the last value of each run is not looked up. *)
run_container_equals_begun(r, b) ==
    /\ run_container_cardinality(r) = IF b.cardinality = BITSET_UNKNOWN_CARDINALITY
                                      THEN Cardinality(b.values)
                                      ELSE b.cardinality
    /\ \A s \in r.runs : container_contains_range(b, s[1], s[2])

run_container_equals_bitset(r, b) ==
    /\ run_container_cardinality(r) = IF b.cardinality = BITSET_UNKNOWN_CARDINALITY
                                      THEN Cardinality(b.values)
                                      ELSE b.cardinality
    /\ \A s \in r.runs : container_contains_range(b, s[1], s[2] + 1)

container_equals(c1, c2) ==
    CASE Both(c1, c2, "bitset") -> bitset_container_equals(c1, c2)
      [] Both(c1, c2, "array") -> array_container_equals(c1, c2)
      [] Both(c1, c2, "run") -> run_container_equals(c1, c2)
      [] c1.type # c2.type /\ ~Among(c1, c2, "run") ->
            array_container_equal_bitset(TheOne(c1, c2, "array"), TheOne(c1, c2, "bitset"))
      [] c1.type # c2.type /\ ~Among(c1, c2, "bitset") ->
            run_container_equals_array(TheOne(c1, c2, "run"), TheOne(c1, c2, "array"))
      [] c1.type # c2.type /\ ~Among(c1, c2, "array") ->
            run_container_equals_bitset(TheOne(c1, c2, "run"), TheOne(c1, c2, "bitset"))

bitset_container_is_subset(b1, b2) ==
    /\ BITSET_UNKNOWN_CARDINALITY \notin {b1.cardinality, b2.cardinality} =>
            b1.cardinality <= b2.cardinality
    /\ b1.values \subseteq b2.values
array_container_is_subset(a1, a2) ==
    Cardinality(a1.values) <= Cardinality(a2.values) /\ a1.values \subseteq a2.values
array_container_is_subset_bitset(a, b) ==
    /\ b.cardinality # BITSET_UNKNOWN_CARDINALITY => b.cardinality >= Cardinality(a.values)
    /\ \A v \in a.values : container_contains(b, v)

(* A run fits an array when its ends are there, as far apart as in the run. *)
run_container_is_subset_array(r, a) ==
    LET index(v) == Cardinality({w \in a.values : w < v})
    IN  /\ run_container_cardinality(r) <= Cardinality(a.values)
        /\ \A s \in r.runs : /\ {s[1], s[2]} \subseteq a.values
                             /\ index(s[2]) - index(s[1]) = s[2] - s[1]
array_container_is_subset_run(a, r) ==
    /\ Cardinality(a.values) <= run_container_cardinality(r)
    /\ \A v \in a.values : container_contains(r, v)
run_container_is_subset_bitset(r, b) ==
    /\ run_container_cardinality(r) <= IF b.cardinality = BITSET_UNKNOWN_CARDINALITY
                                       THEN Cardinality(b.values)
                                       ELSE b.cardinality
    /\ RunValues(r.runs) \subseteq b.values
bitset_container_is_subset_run(b, r) ==
    /\ b.cardinality # BITSET_UNKNOWN_CARDINALITY => b.cardinality <= run_container_cardinality(r)
    /\ \A v \in b.values : container_contains(r, v)
run_container_is_subset(r1, r2) ==
    \A s \in r1.runs : \E t \in r2.runs : t[1] <= s[1] /\ s[2] <= t[2]

(* A bitset is never a subset of an array: it has more values than one.  *)
container_is_subset(c1, c2) ==
    CASE Pair(c1, c2) = <<"bitset", "bitset">> -> bitset_container_is_subset(c1, c2)
      [] Pair(c1, c2) = <<"bitset", "run">>    -> bitset_container_is_subset_run(c1, c2)
      [] Pair(c1, c2) = <<"run", "bitset">>    -> run_container_is_subset_bitset(c1, c2)
      [] Pair(c1, c2) = <<"bitset", "array">>  -> FALSE
      [] Pair(c1, c2) = <<"array", "bitset">>  -> array_container_is_subset_bitset(c1, c2)
      [] Pair(c1, c2) = <<"array", "run">>     -> array_container_is_subset_run(c1, c2)
      [] Pair(c1, c2) = <<"run", "array">>     -> run_container_is_subset_array(c1, c2)
      [] Pair(c1, c2) = <<"array", "array">>   -> array_container_is_subset(c1, c2)
      [] Pair(c1, c2) = <<"run", "run">>       -> run_container_is_subset(c1, c2)

---------------------------------------------------------------------------
(* Intersection. *)

(* The parts two sets of runs share. *)
SharedRuns(R1, R2) ==
    {rle16(Max({p[1][1], p[2][1]}), Min({p[1][2], p[2][2]})) :
        p \in {q \in R1 \X R2 : q[1][1] <= q[2][2] /\ q[2][1] <= q[1][2]}}

run_container_intersection(r1, r2) ==
    CASE run_container_is_full(r1) -> r2
      [] ~run_container_is_full(r1) /\ run_container_is_full(r2) -> r1
      [] ~run_container_is_full(r1) /\ ~run_container_is_full(r2) -> Run(SharedRuns(r1.runs, r2.runs))
bitset_container_and_justcard(b1, b2) == Cardinality(b1.values \cap b2.values)
bitset_container_and_nocard(b1, b2) == Bitset(b1.values \cap b2.values, BITSET_UNKNOWN_CARDINALITY)
bitset_bitset_container_intersection(b1, b2) ==
    LET newCardinality == bitset_container_and_justcard(b1, b2)
        words == bitset_container_and_nocard(b1, b2)
    IN  IF newCardinality > DEFAULT_MAX_SIZE
        THEN [words EXCEPT !.cardinality = newCardinality]
        ELSE array_container_from_bitset(words)
array_container_intersection(a1, a2) == Array(a1.values \cap a2.values)
array_bitset_container_intersection(a, b) == Array({v \in a.values : container_contains(b, v)})
array_run_container_intersection(a, r) ==
    IF run_container_is_full(r) THEN a ELSE Array({v \in a.values : container_contains(r, v)})
run_bitset_container_intersection(r, b) ==
    CASE run_container_is_full(r) -> b
      [] ~run_container_is_full(r) /\ run_container_cardinality(r) <= DEFAULT_MAX_SIZE ->
            Array({v \in RunValues(r.runs) : container_contains(b, v)})
      [] ~run_container_is_full(r) /\ run_container_cardinality(r) > DEFAULT_MAX_SIZE ->
            ArrayIfSmall(bitset_container_compute_cardinality(b.values \cap RunValues(r.runs)))

container_and(c1, c2) ==
    CASE Both(c1, c2, "bitset") -> bitset_bitset_container_intersection(c1, c2)
      [] Both(c1, c2, "array") -> array_container_intersection(c1, c2)
      [] Both(c1, c2, "run") -> convert_run_to_efficient_container(run_container_intersection(c1, c2))
      [] c1.type # c2.type /\ ~Among(c1, c2, "run") ->
            array_bitset_container_intersection(TheOne(c1, c2, "array"), TheOne(c1, c2, "bitset"))
      [] c1.type # c2.type /\ ~Among(c1, c2, "array") ->
            run_bitset_container_intersection(TheOne(c1, c2, "run"), TheOne(c1, c2, "bitset"))
      [] c1.type # c2.type /\ ~Among(c1, c2, "bitset") ->
            array_run_container_intersection(TheOne(c1, c2, "array"), TheOne(c1, c2, "run"))

(* In place the first bitset keeps its words when the result is a bitset;    *)
(* apart from two bitsets and two arrays the operations are the same.        *)
bitset_bitset_container_intersection_inplace(b1, b2) ==
    LET newCardinality == bitset_container_and_justcard(b1, b2)
    IN  IF newCardinality > DEFAULT_MAX_SIZE
        THEN [bitset_container_and_nocard(b1, b2) EXCEPT !.cardinality = newCardinality]
        ELSE Array(b1.values \cap b2.values)
array_container_intersection_inplace(a1, a2) == Array(a1.values \cap a2.values)
container_iand(c1, c2) ==
    CASE Both(c1, c2, "bitset") -> bitset_bitset_container_intersection_inplace(c1, c2)
      [] Both(c1, c2, "array") -> array_container_intersection_inplace(c1, c2)
      [] c1.type # c2.type \/ Both(c1, c2, "run") -> container_and(c1, c2)

run_container_intersection_cardinality(r1, r2) ==
    CASE run_container_is_full(r1) -> run_container_cardinality(r2)
      [] ~run_container_is_full(r1) /\ run_container_is_full(r2) -> run_container_cardinality(r1)
      [] ~run_container_is_full(r1) /\ ~run_container_is_full(r2) ->
            SumFunction([s \in SharedRuns(r1.runs, r2.runs) |-> s[2] - s[1] + 1])
run_bitset_container_intersection_cardinality(r, b) ==
    IF run_container_is_full(r)
    THEN b.cardinality
    ELSE SumFunction([s \in r.runs |-> Cardinality(b.values \cap s[1] .. s[2])])
array_run_container_intersection_cardinality(a, r) ==
    IF run_container_is_full(r)
    THEN Cardinality(a.values)
    ELSE Cardinality({v \in a.values : container_contains(r, v)})

array_container_intersection_cardinality(a1, a2) == Cardinality(a1.values \cap a2.values)
array_bitset_container_intersection_cardinality(a, b) ==
    Cardinality({v \in a.values : bitset_container_contains(b, v)})

container_and_cardinality(c1, c2) ==
    CASE Both(c1, c2, "bitset") -> bitset_container_and_justcard(c1, c2)
      [] Both(c1, c2, "array") -> array_container_intersection_cardinality(c1, c2)
      [] c1.type # c2.type /\ ~Among(c1, c2, "run") ->
            array_bitset_container_intersection_cardinality(TheOne(c1, c2, "array"), TheOne(c1, c2, "bitset"))
      [] Both(c1, c2, "run") -> run_container_intersection_cardinality(c1, c2)
      [] Among(c1, c2, "run") /\ Among(c1, c2, "bitset") ->
            run_bitset_container_intersection_cardinality(TheOne(c1, c2, "run"), TheOne(c1, c2, "bitset"))
      [] Among(c1, c2, "run") /\ Among(c1, c2, "array") ->
            array_run_container_intersection_cardinality(TheOne(c1, c2, "array"), TheOne(c1, c2, "run"))

array_container_intersect(a1, a2) == a1.values \cap a2.values # {}
bitset_container_intersect(b1, b2) == b1.values \cap b2.values # {}
array_bitset_container_intersect(a, b) == \E v \in a.values : bitset_container_contains(b, v)
run_container_intersect(r1, r2) ==
    CASE run_container_is_full(r1) -> r2.runs # {}
      [] ~run_container_is_full(r1) /\ run_container_is_full(r2) -> r1.runs # {}
      [] ~run_container_is_full(r1) /\ ~run_container_is_full(r2) -> SharedRuns(r1.runs, r2.runs) # {}
run_bitset_container_intersect(r, b) ==
    IF run_container_is_full(r)
    THEN b.values # {}
    ELSE \E s \in r.runs : \E v \in s[1] .. s[2] : v \in b.values
array_run_container_intersect(a, r) ==
    IF run_container_is_full(r) THEN a.values # {} ELSE \E v \in a.values : container_contains(r, v)

container_intersect(c1, c2) ==
    CASE Both(c1, c2, "bitset") -> bitset_container_intersect(c1, c2)
      [] Both(c1, c2, "array") -> array_container_intersect(c1, c2)
      [] c1.type # c2.type /\ ~Among(c1, c2, "run") ->
            array_bitset_container_intersect(TheOne(c1, c2, "array"), TheOne(c1, c2, "bitset"))
      [] Both(c1, c2, "run") -> run_container_intersect(c1, c2)
      [] Among(c1, c2, "run") /\ Among(c1, c2, "bitset") ->
            run_bitset_container_intersect(TheOne(c1, c2, "run"), TheOne(c1, c2, "bitset"))
      [] Among(c1, c2, "run") /\ Among(c1, c2, "array") ->
            array_run_container_intersect(TheOne(c1, c2, "array"), TheOne(c1, c2, "run"))
============================================================================
