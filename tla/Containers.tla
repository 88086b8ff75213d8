---------------------------- MODULE Containers ----------------------------
(* The containers of CRoaring (src/roaring-node.cpp): the set of the low     *)
(* halves of the values of one chunk, stored as a sorted array, a bitset     *)
(* with a cached cardinality, or a set of runs.  Which of the three a        *)
(* container is, what its cached cardinality says and where its runs begin   *)
(* and end is state the operations have to keep right; the order in which a  *)
(* loop visits words or values is not, and is left out.                      *)
EXTENDS Integers, FiniteSets, FiniteSetsExt, SequencesExt

CONSTANTS ChunkSize,        \* values of a chunk (2^16)
          DEFAULT_MAX_SIZE, \* most values an array holds (4096)
          WordBits,         \* values of a word of a bitset (64)
          ValueBytes,       \* serialized size of a value of an array (2)
          RunHeaderBytes,   \* serialized size of the run count (2)
          RunBytes          \* serialized size of a run (4)

ASSUME ContainerAssumption ==
    /\ {ChunkSize, DEFAULT_MAX_SIZE, WordBits, ValueBytes, RunHeaderBytes, RunBytes} \subseteq Nat \ {0}
    /\ 2 * DEFAULT_MAX_SIZE < ChunkSize
    /\ WordBits <= DEFAULT_MAX_SIZE

BITSET_UNKNOWN_CARDINALITY == -1
Low == 0 .. ChunkSize - 1

Array(S) == [type |-> "array", values |-> S]
Bitset(S, card) == [type |-> "bitset", values |-> S, cardinality |-> card]
Run(R) == [type |-> "run", runs |-> R]
rle16(first, last) == <<first, last>>

(* The elements of a set in the order of "before". *)
Sorted(S, before(_, _)) ==
    [i \in 1 .. Cardinality(S) |-> CHOOSE x \in S : Cardinality({y \in S : before(y, x)}) = i - 1]
SortedRuns(R) == Sorted(R, LAMBDA r, s : r[1] < s[1])

(* What a loop over a sequence makes of its start: FoldLeft as a recursive   *)
(* function.                                                                 *)
Loop(step(_, _), start, seq) ==
    LET after[n \in 0 .. Len(seq)] == IF n = 0 THEN start ELSE step(after[n - 1], seq[n])
    IN  after[Len(seq)]

---------------------------------------------------------------------------
(* Contents, cardinalities and serialized sizes. *)

RunValues(R) == UNION {r[1] .. r[2] : r \in R}
container_to_uint32_array(c) == IF c.type = "run" THEN RunValues(c.runs) ELSE c.values

(* The lengths of the runs are added up, whether they overlap or not. *)
run_container_cardinality(c) == SumFunction([r \in c.runs |-> r[2] - r[1] + 1])
container_get_cardinality(c) ==
    CASE c.type = "bitset" -> c.cardinality
      [] c.type = "array"  -> Cardinality(c.values)
      [] c.type = "run"    -> run_container_cardinality(c)

run_container_is_full(c) == c.runs = {rle16(0, ChunkSize - 1)}
container_is_full(c) ==
    IF c.type = "run" THEN run_container_is_full(c) ELSE container_get_cardinality(c) = ChunkSize

container_nonzero_cardinality(c) ==
    CASE c.type = "bitset" -> c.values # {}
      [] c.type = "array"  -> Cardinality(c.values) > 0
      [] c.type = "run"    -> c.runs # {}

array_container_serialized_size_in_bytes(card) == ValueBytes * card
run_container_serialized_size_in_bytes(n) == RunHeaderBytes + RunBytes * n
bitset_container_serialized_size_in_bytes == ValueBytes * DEFAULT_MAX_SIZE
container_size_in_bytes(c) ==
    CASE c.type = "bitset" -> bitset_container_serialized_size_in_bytes
      [] c.type = "array"  -> array_container_serialized_size_in_bytes(Cardinality(c.values))
      [] c.type = "run"    -> run_container_serialized_size_in_bytes(Cardinality(c.runs))

(* What the library itself accepts as a container. *)
array_container_validate(c) == Cardinality(c.values) \in 1 .. DEFAULT_MAX_SIZE
bitset_container_validate(c) ==
    /\ c.cardinality = Cardinality(c.values)
    /\ c.cardinality > DEFAULT_MAX_SIZE
run_container_validate(c) ==
    /\ c.runs # {}
    /\ \A r \in c.runs : r[1] <= r[2] /\ r[2] < ChunkSize
    /\ \A r, s \in c.runs : r[1] < s[1] => r[2] + 1 < s[1]
    /\ \A r, s \in c.runs : r[1] = s[1] => r = s
container_internal_validate(c) ==
    CASE c.type = "bitset" -> bitset_container_validate(c)
      [] c.type = "array"  -> array_container_validate(c)
      [] c.type = "run"    -> run_container_validate(c)

---------------------------------------------------------------------------
(* Conversions between the three representations. *)

RunsOf(S) ==
    {r \in S \X S : r[1] <= r[2] /\ r[1] .. r[2] \subseteq S /\ r[1] - 1 \notin S /\ r[2] + 1 \notin S}
array_container_number_of_runs(c) == Cardinality({v \in c.values : v - 1 \notin c.values})
bitset_container_number_of_runs(c) == Cardinality({v \in c.values : v + 1 \notin c.values})

bitset_container_compute_cardinality(S) == Bitset(S, Cardinality(S))
bitset_container_from_array(c) == Bitset(c.values, Cardinality(c.values))
bitset_container_from_run(c) == Bitset(RunValues(c.runs), run_container_cardinality(c))
array_container_from_run(c) == Array(RunValues(c.runs))
array_container_from_bitset(c) == Array(c.values)
run_container_from_array(c) == Run(RunsOf(c.values))
container_to_bitset(c) ==
    CASE c.type = "bitset" -> c
      [] c.type = "array"  -> bitset_container_from_array(c)
      [] c.type = "run"    -> bitset_container_from_run(c)

(* A bitset that became small enough is replaced by an array. *)
ArrayIfSmall(b) == IF b.cardinality <= DEFAULT_MAX_SIZE THEN array_container_from_bitset(b) ELSE b

convert_to_bitset_or_array_container(c, card) ==
    IF card <= DEFAULT_MAX_SIZE THEN array_container_from_run(c) ELSE Bitset(RunValues(c.runs), card)

convert_run_to_efficient_container(c) ==
    LET card == run_container_cardinality(c)
        smallest == Min({bitset_container_serialized_size_in_bytes,
                         array_container_serialized_size_in_bytes(card)})
    IN  IF container_size_in_bytes(c) <= smallest
        THEN c
        ELSE convert_to_bitset_or_array_container(c, card)

convert_run_optimize(c) ==
    LET worth(n_runs) == run_container_serialized_size_in_bytes(n_runs) < container_size_in_bytes(c)
    IN  CASE c.type = "run"    -> convert_run_to_efficient_container(c)
          [] c.type = "array"  -> IF worth(array_container_number_of_runs(c)) THEN run_container_from_array(c) ELSE c
          [] c.type = "bitset" -> IF worth(bitset_container_number_of_runs(c)) THEN Run(RunsOf(c.values)) ELSE c

container_repair_after_lazy(c) ==
    CASE c.type = "bitset" -> ArrayIfSmall(bitset_container_compute_cardinality(c.values))
      [] c.type = "array"  -> c
      [] c.type = "run"    -> convert_run_to_efficient_container(c)

---------------------------------------------------------------------------
(* One value. *)

bitset_container_set(c, v) ==
    Bitset(c.values \cup {v}, c.cardinality + (IF v \in c.values THEN 0 ELSE 1))
bitset_container_remove(c, v) ==
    Bitset(c.values \ {v}, c.cardinality - (IF v \in c.values THEN 1 ELSE 0))

(* The new value joins the run that ends just before it and the run that     *)
(* begins just after it.                                                     *)
run_container_add(c, v) ==
    LET joined == {r \in c.runs : r[2] + 1 = v \/ r[1] = v + 1}
        first == Min({v} \cup {r[1] : r \in joined})
        last == Max({v} \cup {r[2] : r \in joined})
    IN  IF v \in RunValues(c.runs) THEN c ELSE Run((c.runs \ joined) \cup {rle16(first, last)})

(* The run around the value is cut on its left, on its right, or in two. *)
run_container_remove(c, v) ==
    LET hit == {r \in c.runs : v \in r[1] .. r[2]}
        left == {rle16(r[1], v - 1) : r \in {s \in hit : s[1] < v}}
        right == {rle16(v + 1, r[2]) : r \in {s \in hit : v < s[2]}}
    IN  Run((c.runs \ hit) \cup left \cup right)

(* An array at its limit becomes a bitset when a new value comes. *)
array_container_try_add(c, v, max) == v \in c.values \/ Cardinality(c.values) < max
container_add(c, v) ==
    CASE c.type = "bitset" -> bitset_container_set(c, v)
      [] c.type = "array"  -> IF array_container_try_add(c, v, DEFAULT_MAX_SIZE)
                              THEN Array(c.values \cup {v})
                              ELSE bitset_container_set(bitset_container_from_array(c), v)
      [] c.type = "run"    -> run_container_add(c, v)

(* Mutant: a bitset stays a bitset however few values are left. *)
container_remove_only(c, v) ==
    CASE c.type = "bitset" -> IF v \in c.values THEN bitset_container_remove(c, v) ELSE c
      [] c.type = "array"  -> Array(c.values \ {v})
      [] c.type = "run"    -> run_container_remove(c, v)

container_remove(c, v) ==
    CASE c.type = "bitset" -> IF v \in c.values THEN ArrayIfSmall(bitset_container_remove(c, v)) ELSE c
      [] c.type = "array"  -> Array(c.values \ {v})
      [] c.type = "run"    -> run_container_remove(c, v)

bitset_container_contains(c, v) == v \in c.values
array_container_contains(c, v) == v \in c.values
(* Looks at the last run that does not begin after the value. *)
run_container_contains(c, v) ==
    \E r \in c.runs : /\ r[1] <= v /\ v - r[1] <= r[2] - r[1]
                     /\ \A s \in c.runs : s[1] <= v => s[1] <= r[1]
container_contains(c, v) ==
    CASE c.type = "bitset" -> bitset_container_contains(c, v)
      [] c.type = "array"  -> array_container_contains(c, v)
      [] c.type = "run"    -> run_container_contains(c, v)

---------------------------------------------------------------------------
(* Queries. *)

(* Mutant: the run that holds the first value counts from its beginning. *)
run_container_contains_unclipped(c, first, end) ==
    LET holders == {r \in c.runs : first \in r[1] .. r[2]}
        counted == {r \in c.runs : r[1] < end /\ \E h \in holders : h[1] <= r[1]}
        count(r) == IF r[2] >= end THEN end - r[1] ELSE r[2] - r[1]
    IN  holders # {} /\ SumFunction([r \in counted |-> count(r)]) >= end - first - 1

(* A run container adds up what each run from the one that holds the first   *)
(* value on covers; every run but a clipped one counts one value too few.    *)
run_container_contains_range(c, first, end) ==
    LET holders == {r \in c.runs : first \in r[1] .. r[2]}
        counted == {r \in c.runs : r[1] < end /\ \E h \in holders : h[1] <= r[1]}
        count(r) == IF r[2] >= end THEN end - r[1] ELSE Min({r[2] - first, r[2] - r[1]})
    IN  holders # {} /\ SumFunction([r \in counted |-> count(r)]) >= end - first - 1

(* Only the place of the first value and the value so many places later are  *)
(* looked at in an array.                                                    *)
array_container_contains_range(c, first, end) ==
    LET before == Cardinality({v \in c.values : v < first})
    IN  \/ end - first <= 0
        \/ /\ end - first <= Cardinality(c.values)
           /\ first \in c.values
           /\ \E v \in c.values : /\ v = end - 1
                                  /\ Cardinality({w \in c.values : w < v}) = before + end - first - 1

bitset_container_get_range(c, first, end) == first .. end - 1 \subseteq c.values
container_contains_range(c, first, end) ==
    CASE c.type = "bitset" -> bitset_container_get_range(c, first, end)
      [] c.type = "array"  -> array_container_contains_range(c, first, end)
      [] c.type = "run"    -> run_container_contains_range(c, first, end)

(* Mutant: the value itself is not counted within its run. *)
run_container_rank_below(c, x) ==
    SumFunction([r \in c.runs |-> IF x > r[2] THEN r[2] - r[1] + 1
                                  ELSE IF x < r[1] THEN 0 ELSE x - r[1]])

run_container_rank(c, x) ==
    SumFunction([r \in c.runs |-> IF x > r[2] THEN r[2] - r[1] + 1
                                  ELSE IF x < r[1] THEN 0 ELSE x - r[1] + 1])
bitset_container_rank(c, x) == Cardinality({v \in c.values : v <= x})
(* The position of the value in the array, or where it would be. *)
array_container_rank(c, x) ==
    LET position == Cardinality({v \in c.values : v < x})
    IN  IF x \in c.values THEN position + 1 ELSE position
container_rank(c, x) ==
    CASE c.type = "bitset" -> bitset_container_rank(c, x)
      [] c.type = "array"  -> array_container_rank(c, x)
      [] c.type = "run"    -> run_container_rank(c, x)

container_get_index(c, x) == IF container_contains(c, x) THEN container_rank(c, x) - 1 ELSE -1

(* The value with "rank" values before it, start_rank of them in earlier     *)
(* containers.  A run is entered when the rank is at most its last one.      *)
run_container_select(c, start_rank, rank) ==
    LET before(r) == start_rank + SumFunction([s \in {t \in c.runs : t[1] < r[1]} |-> s[2] - s[1] + 1])
        entered == CHOOSE r \in c.runs : before(r) <= rank /\ rank <= before(r) + r[2] - r[1]
    IN  entered[1] + rank - before(entered)
array_container_select(c, start_rank, rank) ==
    CHOOSE v \in c.values : Cardinality({w \in c.values : w < v}) = rank - start_rank
bitset_container_select(c, start_rank, rank) ==
    CHOOSE v \in c.values : start_rank + Cardinality({w \in c.values : w < v}) = rank
container_select(c, start_rank, rank) ==
    CASE c.type = "bitset" -> bitset_container_select(c, start_rank, rank)
      [] c.type = "array"  -> array_container_select(c, start_rank, rank)
      [] c.type = "run"    -> run_container_select(c, start_rank, rank)

bitset_container_minimum(c) == IF c.values = {} THEN ChunkSize - 1 ELSE Min(c.values)
array_container_minimum(c) == IF c.values = {} THEN 0 ELSE Min(c.values)
run_container_minimum(c) == IF c.runs = {} THEN 0 ELSE Min({r[1] : r \in c.runs})
container_minimum(c) ==
    CASE c.type = "bitset" -> bitset_container_minimum(c)
      [] c.type = "array"  -> array_container_minimum(c)
      [] c.type = "run"    -> run_container_minimum(c)

(* The search for the last word that is not empty ends before the first one:  *)
(* a bitset is expected to have more values than fit there.                  *)
bitset_container_maximum(c) ==
    LET later == {v \in c.values : v >= WordBits} IN IF later = {} THEN 0 ELSE Max(later)
array_container_maximum(c) == IF c.values = {} THEN 0 ELSE Max(c.values)
run_container_maximum(c) == IF c.runs = {} THEN 0 ELSE Max({r[2] : r \in c.runs})
container_maximum(c) ==
    CASE c.type = "bitset" -> bitset_container_maximum(c)
      [] c.type = "array"  -> array_container_maximum(c)
      [] c.type = "run"    -> run_container_maximum(c)

---------------------------------------------------------------------------
(* Ranges.  NULL is what the code returns when nothing is left. *)

NULL == [type |-> "null"]

container_range_of_ones(first, end) ==
    IF end - first + 1 <= 2 THEN Array(first .. end - 1) ELSE Run({rle16(first, end - 1)})

container_from_range(first, end, step) ==
    LET size == (end - first + step - 1) \div step
        values == {v \in first .. end - 1 : (v - first) % step = 0}
    IN  CASE step = 1 -> container_range_of_ones(first, end)
          [] step # 1 /\ size <= DEFAULT_MAX_SIZE -> Array(values)
          [] step # 1 /\ size > DEFAULT_MAX_SIZE  -> Bitset(values, size)

(* The runs that touch the range become one with it. *)
run_container_add_range_nruns(c, min, max, less, greater) ==
    LET common == c.runs \ (less \cup greater)
    IN  Run(less \cup greater \cup {rle16(Min({min} \cup {r[1] : r \in common}),
                                          Max({max} \cup {r[2] : r \in common}))})

container_from_run_range(c, min, max) ==
    LET values == RunValues(c.runs)
        card == run_container_cardinality(c) + (max - min + 1) - Cardinality(values \cap min .. max)
    IN  ArrayIfSmall(Bitset(values \cup min .. max, card))

bitset_container_add_range(c, min, max) ==
    LET card == c.cardinality + (max - min + 1) - Cardinality(c.values \cap min .. max)
    IN  IF card = ChunkSize THEN Run({rle16(0, ChunkSize - 1)}) ELSE Bitset(c.values \cup min .. max, card)

array_container_add_range(c, min, max) ==
    LET greater == {v \in c.values : v > max}
        less == {v \in c.values : v < min}
        card == Cardinality(less) + (max - min + 1) + Cardinality(greater)
    IN  CASE card = ChunkSize         -> Run({rle16(0, ChunkSize - 1)})
          [] card <= DEFAULT_MAX_SIZE -> Array(less \cup min .. max \cup greater)
          [] card > DEFAULT_MAX_SIZE /\ card # ChunkSize -> Bitset(c.values \cup min .. max, card)

run_container_add_range(c, min, max) ==
    LET greater == {r \in c.runs : r[1] > max + 1}
        less == {r \in c.runs : r[2] + 1 < min}
        bytes == (Cardinality(less) + 1 + Cardinality(greater)) * RunBytes
    IN  IF bytes <= bitset_container_serialized_size_in_bytes
        THEN run_container_add_range_nruns(c, min, max, less, greater)
        ELSE container_from_run_range(c, min, max)

container_add_range(c, min, max) ==
    CASE c.type = "bitset" -> bitset_container_add_range(c, min, max)
      [] c.type = "array"  -> array_container_add_range(c, min, max)
      [] c.type = "run"    -> run_container_add_range(c, min, max)

bitset_container_remove_range(c, min, max) ==
    LET card == c.cardinality - Cardinality(c.values \cap min .. max)
    IN  IF card = 0 THEN NULL ELSE ArrayIfSmall(Bitset(c.values \ (min .. max), card))

array_container_remove_range(c, min, max) ==
    LET kept == c.values \ (min .. max) IN IF kept = {} THEN NULL ELSE Array(kept)

run_container_remove_range(c, min, max) ==
    LET left == {rle16(r[1], Min({r[2], min - 1})) : r \in {s \in c.runs : s[1] < min}}
        right == {rle16(Max({r[1], max + 1}), r[2]) : r \in {s \in c.runs : s[2] > max}}
    IN  IF min <= run_container_minimum(c) /\ max >= run_container_maximum(c)
        THEN NULL
        ELSE convert_run_to_efficient_container(Run(left \cup right))

container_remove_range(c, min, max) ==
    CASE c.type = "bitset" -> bitset_container_remove_range(c, min, max)
      [] c.type = "array"  -> array_container_remove_range(c, min, max)
      [] c.type = "run"    -> run_container_remove_range(c, min, max)

---------------------------------------------------------------------------
(* Negation, of all of the chunk or of the values from first to end - 1. *)

(* The number of values that change is computed from the two positions in    *)
(* the array, before the values are.                                         *)
array_container_negation_range(c, first, end) ==
    LET inside == Cardinality(c.values \cap first .. end - 1)
        card == Cardinality(c.values) + (end - first - inside) - inside
        flipped == SymDiff(c.values, first .. end - 1)
    IN  CASE first >= end -> c
          [] first < end /\ card > DEFAULT_MAX_SIZE  -> Bitset(flipped, card)
          [] first < end /\ card <= DEFAULT_MAX_SIZE -> Array(flipped)

bitset_container_negation_range(c, first, end) ==
    ArrayIfSmall(bitset_container_compute_cardinality(SymDiff(c.values, first .. end - 1)))

(* Runs are put behind those of a new container in the order in which they   *)
(* begin.  An exclusive one takes out what it shares with the last one: what  *)
(* comes before it stays, and so does the part beyond the end of the other.  *)
run_container_smart_append_exclusive(runs, r) ==
    LET last == runs[Len(runs)]
        before == IF r[1] = last[1] THEN <<>> ELSE <<rle16(last[1], r[1] - 1)>>
        after == IF r[2] = last[2] THEN <<>>
                 ELSE <<rle16(Min({r[2], last[2]}) + 1, Max({r[2], last[2]}))>>
    IN  IF runs = <<>> \/ r[1] > last[2] + 1
        THEN Append(runs, r)
        ELSE IF r[1] = last[2] + 1
             THEN Front(runs) \o <<rle16(last[1], r[2])>>
             ELSE Front(runs) \o before \o after

(* The range goes behind the runs that begin before it. *)
run_container_negation_range(c, first, end) ==
    LET before == SortedRuns({r \in c.runs : r[1] < first})
        after == SortedRuns({r \in c.runs : r[1] >= first})
        negated == Loop(run_container_smart_append_exclusive, before, <<rle16(first, end - 1)>> \o after)
    IN  IF end <= first THEN c ELSE convert_run_to_efficient_container(Run(ToSet(negated)))

container_not_range(c, first, end) ==
    CASE c.type = "bitset" -> bitset_container_negation_range(c, first, end)
      [] c.type = "array"  -> array_container_negation_range(c, first, end)
      [] c.type = "run"    -> run_container_negation_range(c, first, end)

(* A whole array becomes a bitset without looking at how many values it has. *)
array_container_negation(c) == Bitset(Low \ c.values, ChunkSize - Cardinality(c.values))
container_not(c) ==
    IF c.type = "array" THEN array_container_negation(c) ELSE container_not_range(c, 0, ChunkSize)

---------------------------------------------------------------------------
(* A container moved up by 0 < offset < ChunkSize falls into two chunks.  A  *)
(* bitset stays a bitset on both sides, however few values a side has.       *)

bitset_container_offset(c, offset) ==
    LET part(S) == IF S = {} THEN NULL ELSE bitset_container_compute_cardinality(S)
    IN  [lo |-> part({v + offset : v \in c.values} \cap Low),
         hi |-> part({v + offset - ChunkSize : v \in c.values} \cap Low)]
array_container_offset(c, offset) ==
    LET part(S) == IF S = {} THEN NULL ELSE Array(S)
    IN  [lo |-> part({v + offset : v \in c.values} \cap Low),
         hi |-> part({v + offset - ChunkSize : v \in c.values} \cap Low)]
run_container_offset(c, offset) ==
    LET top == ChunkSize - offset
        part(R) == IF R = {} THEN NULL ELSE Run(R)
    IN  [lo |-> part({rle16(r[1] + offset, Min({r[2] + offset, ChunkSize - 1})) :
                        r \in {s \in c.runs : s[1] < top}}),
         hi |-> part({rle16(Max({r[1], top}) - top, r[2] - top) :
                        r \in {s \in c.runs : s[2] >= top}})]
container_add_offset(c, offset) ==
    CASE c.type = "bitset" -> bitset_container_offset(c, offset)
      [] c.type = "array"  -> array_container_offset(c, offset)
      [] c.type = "run"    -> run_container_offset(c, offset)
============================================================================
