-------------------------- MODULE ContainerMerges --------------------------
(* Union, symmetric difference and difference of two containers of CRoaring  *)
(* (src/roaring-node.cpp).  Each has an exact form and, but for the          *)
(* difference, a lazy one.  Which representation comes out is decided before *)
(* the values are known, from an upper bound of their number, and corrected  *)
(* afterwards where the code corrects it.                                    *)
EXTENDS ContainerPairs

Full == Run({rle16(0, ChunkSize - 1)})

(* The runs of two containers in the order in which they begin, those of the *)
(* first one first.                                                          *)
MergedRuns(R1, R2) ==
    LET sorted == Sorted((R1 \X {1}) \cup (R2 \X {2}),
                         LAMBDA p, q : p[1][1] < q[1][1] \/ (p[1][1] = q[1][1] /\ p[2] < q[2]))
    IN  [i \in DOMAIN sorted |-> sorted[i][1]]
ValueRuns(S) == {rle16(v, v) : v \in S}

---------------------------------------------------------------------------
(* Union. *)

(* The two sets are made a bitset, the first without counting, the second on *)
(* top of the number of values of the first.                                 *)
array_container_union(a1, a2) == Array(a1.values \cup a2.values)
array_array_container_union(a1, a2) ==
    LET first == bitset_set_list(Bitset({}, 0), a1.values)
    IN  IF Cardinality(a1.values) + Cardinality(a2.values) <= DEFAULT_MAX_SIZE
        THEN array_container_union(a1, a2)
        ELSE ArrayIfSmall(bitset_set_list_withcard(
                            Bitset(first.values, Cardinality(a1.values)), a2.values))
array_bitset_container_union(a, b) == bitset_set_list_withcard(b, a.values)
run_bitset_container_union(r, b) ==
    IF run_container_is_full(r)
    THEN r
    ELSE bitset_container_compute_cardinality(b.values \cup RunValues(r.runs))

(* A run is put behind the others, or makes the last one longer. *)
run_container_append(runs, vl) ==
    LET last == runs[Len(runs)]
    IN  CASE vl[1] > last[2] + 1 -> Append(runs, vl)
          [] vl[1] <= last[2] + 1 /\ vl[2] >= last[2] -> Front(runs) \o <<rle16(last[1], vl[2])>>
          [] vl[1] <= last[2] + 1 /\ vl[2] < last[2]  -> runs
AppendedRuns(runs) == Run(ToSet(Loop(run_container_append, <<runs[1]>>, Tail(runs))))
array_run_container_union(a, r) ==
    IF run_container_is_full(r) THEN r ELSE AppendedRuns(MergedRuns(r.runs, ValueRuns(a.values)))
run_container_union(r1, r2) ==
    CASE run_container_is_full(r1) -> r1
      [] ~run_container_is_full(r1) /\ run_container_is_full(r2) -> r2
      [] ~run_container_is_full(r1) /\ ~run_container_is_full(r2) -> AppendedRuns(MergedRuns(r1.runs, r2.runs))
bitset_container_or(b1, b2) == bitset_container_compute_cardinality(b1.values \cup b2.values)
bitset_container_or_nocard(b1, b2) == Bitset(b1.values \cup b2.values, BITSET_UNKNOWN_CARDINALITY)

container_or(c1, c2) ==
    CASE Both(c1, c2, "bitset") -> bitset_container_or(c1, c2)
      [] Both(c1, c2, "array") -> array_array_container_union(c1, c2)
      [] Both(c1, c2, "run") -> convert_run_to_efficient_container(run_container_union(c1, c2))
      [] c1.type # c2.type /\ ~Among(c1, c2, "run") ->
            array_bitset_container_union(TheOne(c1, c2, "array"), TheOne(c1, c2, "bitset"))
      [] c1.type # c2.type /\ ~Among(c1, c2, "array") ->
            run_bitset_container_union(TheOne(c1, c2, "run"), TheOne(c1, c2, "bitset"))
      [] c1.type # c2.type /\ ~Among(c1, c2, "bitset") ->
            convert_run_to_efficient_container(
                array_run_container_union(TheOne(c1, c2, "array"), TheOne(c1, c2, "run")))

(* In place the old content is moved behind the room for the result and read *)
(* from there.  Two bitsets that fill the chunk become one run, in place only. *)
array_array_container_inplace_union(a1, a2) == array_array_container_union(a1, a2)
run_container_union_inplace(r1, r2) == run_container_union(r1, r2)
array_run_container_inplace_union(a, r) == array_run_container_union(a, r)
FullIfFull(b) == IF b.cardinality = ChunkSize THEN Full ELSE b
container_ior(c1, c2) ==
    CASE Both(c1, c2, "bitset") -> FullIfFull(bitset_container_or(c1, c2))
      [] Both(c1, c2, "array") -> array_array_container_inplace_union(c1, c2)
      [] Both(c1, c2, "run") -> convert_run_to_efficient_container(run_container_union_inplace(c1, c2))
      [] Pair(c1, c2) = <<"run", "array">> ->
            convert_run_to_efficient_container(array_run_container_inplace_union(c2, c1))
      [] c1.type # c2.type /\ Pair(c1, c2) # <<"run", "array">> -> container_or(c1, c2)

array_array_container_lazy_union(a1, a2) ==
    IF Cardinality(a1.values) + Cardinality(a2.values) <= ARRAY_LAZY_LOWERBOUND
    THEN array_container_union(a1, a2)
    ELSE bitset_set_list(bitset_set_list(Bitset({}, 0), a1.values), a2.values)
array_bitset_container_lazy_union(a, b) == bitset_set_list(b, a.values)
run_bitset_container_lazy_union(r, b) ==
    IF run_container_is_full(r) THEN r ELSE bitset_set_list(b, RunValues(r.runs))

(* Runs that were united with an array are not made smaller. *)
container_lazy_or(c1, c2) ==
    CASE Both(c1, c2, "bitset") -> bitset_container_or_nocard(c1, c2)
      [] Both(c1, c2, "array") -> array_array_container_lazy_union(c1, c2)
      [] Both(c1, c2, "run") -> convert_run_to_efficient_container(run_container_union(c1, c2))
      [] c1.type # c2.type /\ ~Among(c1, c2, "run") ->
            array_bitset_container_lazy_union(TheOne(c1, c2, "array"), TheOne(c1, c2, "bitset"))
      [] c1.type # c2.type /\ ~Among(c1, c2, "array") ->
            run_bitset_container_lazy_union(TheOne(c1, c2, "run"), TheOne(c1, c2, "bitset"))
      [] c1.type # c2.type /\ ~Among(c1, c2, "bitset") ->
            array_run_container_union(TheOne(c1, c2, "array"), TheOne(c1, c2, "run"))
array_array_container_lazy_inplace_union(a1, a2) == array_array_container_lazy_union(a1, a2)
container_lazy_ior(c1, c2) ==
    CASE Both(c1, c2, "bitset") -> FullIfFull(bitset_container_or(c1, c2))
      [] Both(c1, c2, "array") -> array_array_container_lazy_inplace_union(c1, c2)
      [] Both(c1, c2, "run") -> convert_run_to_efficient_container(run_container_union_inplace(c1, c2))
      [] Pair(c1, c2) = <<"run", "array">> -> array_run_container_inplace_union(c2, c1)
      [] c1.type # c2.type /\ Pair(c1, c2) # <<"run", "array">> -> container_lazy_or(c1, c2)

---------------------------------------------------------------------------
(* Symmetric difference. *)

ExclusiveRuns(runs) == Run(ToSet(Loop(run_container_smart_append_exclusive, <<>>, runs)))
run_container_xor(r1, r2) == ExclusiveRuns(MergedRuns(r1.runs, r2.runs))
run_run_container_xor(r1, r2) == convert_run_to_efficient_container(run_container_xor(r1, r2))
array_container_xor(a1, a2) == Array(SymDiff(a1.values, a2.values))
array_array_container_xor(a1, a2) ==
    IF Cardinality(a1.values) + Cardinality(a2.values) <= DEFAULT_MAX_SIZE
    THEN array_container_xor(a1, a2)
    ELSE ArrayIfSmall(bitset_flip_list_withcard(bitset_container_from_array(a1), a2.values))
array_bitset_container_xor(a, b) == ArrayIfSmall(bitset_flip_list_withcard(b, a.values))
run_bitset_container_xor(r, b) ==
    ArrayIfSmall(bitset_container_compute_cardinality(SymDiff(b.values, RunValues(r.runs))))
bitset_container_xor(b1, b2) == bitset_container_compute_cardinality(SymDiff(b1.values, b2.values))
bitset_container_xor_nocard(b1, b2) == Bitset(SymDiff(b1.values, b2.values), BITSET_UNKNOWN_CARDINALITY)
bitset_bitset_container_xor(b1, b2) == ArrayIfSmall(bitset_container_xor(b1, b2))
array_run_container_lazy_xor(a, r) == ExclusiveRuns(MergedRuns(r.runs, ValueRuns(a.values)))

(* A short array keeps the runs; otherwise the number of values in the runs  *)
(* says whether an array or a bitset is guessed.                             *)
array_run_container_xor(a, r) ==
    CASE Cardinality(a.values) < XorThreshold ->
            convert_run_to_efficient_container(array_run_container_lazy_xor(a, r))
      [] Cardinality(a.values) >= XorThreshold /\ run_container_cardinality(r) <= DEFAULT_MAX_SIZE ->
            array_array_container_xor(array_container_from_run(r), a)
      [] Cardinality(a.values) >= XorThreshold /\ run_container_cardinality(r) > DEFAULT_MAX_SIZE ->
            array_bitset_container_xor(a, bitset_container_from_run(r))

container_xor(c1, c2) ==
    CASE Both(c1, c2, "bitset") -> bitset_bitset_container_xor(c1, c2)
      [] Both(c1, c2, "array") -> array_array_container_xor(c1, c2)
      [] Both(c1, c2, "run") -> run_run_container_xor(c1, c2)
      [] c1.type # c2.type /\ ~Among(c1, c2, "run") ->
            array_bitset_container_xor(TheOne(c1, c2, "array"), TheOne(c1, c2, "bitset"))
      [] c1.type # c2.type /\ ~Among(c1, c2, "array") ->
            run_bitset_container_xor(TheOne(c1, c2, "run"), TheOne(c1, c2, "bitset"))
      [] c1.type # c2.type /\ ~Among(c1, c2, "bitset") ->
            array_run_container_xor(TheOne(c1, c2, "array"), TheOne(c1, c2, "run"))
container_ixor(c1, c2) == container_xor(c1, c2)

array_array_container_lazy_xor(a1, a2) ==
    IF Cardinality(a1.values) + Cardinality(a2.values) <= ARRAY_LAZY_LOWERBOUND
    THEN array_container_xor(a1, a2)
    ELSE bitset_flip_list(bitset_container_from_array(a1), a2.values)
array_bitset_container_lazy_xor(a, b) == bitset_flip_list(b, a.values)
run_bitset_container_lazy_xor(r, b) == bitset_flip_list(b, RunValues(r.runs))

container_lazy_xor(c1, c2) ==
    CASE Both(c1, c2, "bitset") -> bitset_container_xor_nocard(c1, c2)
      [] Both(c1, c2, "array") -> array_array_container_lazy_xor(c1, c2)
      [] Both(c1, c2, "run") -> run_run_container_xor(c1, c2)
      [] c1.type # c2.type /\ ~Among(c1, c2, "run") ->
            array_bitset_container_lazy_xor(TheOne(c1, c2, "array"), TheOne(c1, c2, "bitset"))
      [] c1.type # c2.type /\ ~Among(c1, c2, "array") ->
            run_bitset_container_lazy_xor(TheOne(c1, c2, "run"), TheOne(c1, c2, "bitset"))
      [] c1.type # c2.type /\ ~Among(c1, c2, "bitset") ->
            array_run_container_lazy_xor(TheOne(c1, c2, "array"), TheOne(c1, c2, "run"))

(* Only two bitsets are lazy in place: otherwise the exact operation is      *)
(* used, and a bitset that was left uncounted is counted for it.             *)
container_lazy_ixor(c1, c2) ==
    CASE Both(c1, c2, "bitset") -> bitset_container_xor_nocard(c1, c2)
      [] ~Both(c1, c2, "bitset") /\ c1.type = "bitset" /\ c1.cardinality = BITSET_UNKNOWN_CARDINALITY ->
            container_ixor(bitset_container_compute_cardinality(c1.values), c2)
      [] ~Both(c1, c2, "bitset") /\ (c1.type = "bitset" => c1.cardinality # BITSET_UNKNOWN_CARDINALITY) ->
            container_ixor(c1, c2)

---------------------------------------------------------------------------
(* Difference. *)

bitset_container_andnot(b1, b2) == bitset_container_compute_cardinality(b1.values \ b2.values)
bitset_bitset_container_andnot(b1, b2) == ArrayIfSmall(bitset_container_andnot(b1, b2))
array_container_andnot(a1, a2) == Array(a1.values \ a2.values)
bitset_array_container_andnot(b, a) == ArrayIfSmall(bitset_clear_list(b, a.values))
bitset_run_container_andnot(b, r) ==
    ArrayIfSmall(bitset_container_compute_cardinality(b.values \ RunValues(r.runs)))
array_bitset_container_andnot(a, b) == Array({v \in a.values : ~container_contains(b, v)})
array_run_container_andnot(a, r) == Array({v \in a.values : ~container_contains(r, v)})
run_bitset_container_andnot(r, b) ==
    LET kept == RunValues(r.runs) \ b.values
    IN  IF run_container_cardinality(r) <= DEFAULT_MAX_SIZE
        THEN Array(kept)
        ELSE ArrayIfSmall(bitset_container_compute_cardinality(kept))

(* What the runs of R1 keep when those of R2 are taken out of them. *)
run_container_andnot(r1, r2) == Run(RunsOf(RunValues(r1.runs) \ RunValues(r2.runs)))
run_run_container_andnot(r1, r2) == convert_run_to_efficient_container(run_container_andnot(r1, r2))
run_array_array_subtract(r, a) == Array(RunValues(r.runs) \ a.values)
run_array_container_andnot(r, a) ==
    LET card == run_container_cardinality(r)
    IN  CASE card <= AndNotThreshold /\ a.values = {} -> r
          [] card <= AndNotThreshold /\ a.values # {} ->
                convert_run_to_efficient_container(run_container_andnot(r, Run(ValueRuns(a.values))))
          [] card > AndNotThreshold /\ card <= DEFAULT_MAX_SIZE -> run_array_array_subtract(r, a)
          [] card > AndNotThreshold /\ card > DEFAULT_MAX_SIZE ->
                bitset_array_container_andnot(bitset_container_from_run(r), a)

(* In place: the same containers result but for the shortcut below. *)
container_iandnot(c1, c2) ==
    CASE Pair(c1, c2) = <<"bitset", "bitset">> -> bitset_bitset_container_andnot(c1, c2)
      [] Pair(c1, c2) = <<"array", "array">>   -> array_container_andnot(c1, c2)
      [] Pair(c1, c2) = <<"run", "run">>       -> run_run_container_andnot(c1, c2)
      [] Pair(c1, c2) = <<"bitset", "array">>  -> bitset_array_container_andnot(c1, c2)
      [] Pair(c1, c2) = <<"array", "bitset">>  -> array_bitset_container_andnot(c1, c2)
      [] Pair(c1, c2) = <<"bitset", "run">>    -> bitset_run_container_andnot(c1, c2)
      [] Pair(c1, c2) = <<"run", "bitset">>    -> run_bitset_container_andnot(c1, c2)
      [] Pair(c1, c2) = <<"array", "run">>     -> array_run_container_andnot(c1, c2)
      [] Pair(c1, c2) = <<"run", "array">>     -> run_array_container_andnot(c1, c2)

(* Nothing is left of a container from which a full run is taken. *)
container_andnot(c1, c2) ==
    IF c2.type = "run" /\ run_container_is_full(c2) THEN Array({}) ELSE container_iandnot(c1, c2)
============================================================================
