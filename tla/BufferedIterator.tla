--------------------------- MODULE BufferedIterator ---------------------------
(***************************************************************************)
(* The two iterators over a bitmap: the JavaScript one of index.js, which  *)
(* hands out the values of a chunk, and the native one it asks to fill the *)
(* chunk again.  Chunks of the default length come from a pool that all    *)
(* iterators share; others are private or given by the user.  Between two  *)
(* values the user may change the bitmap, stop, or run other iterators,    *)
(* also from the callback of forEach, map, every and their like.           *)
(***************************************************************************)
EXTENDS Integers, FiniteSets, Sequences

CONSTANTS
  Iterator,   \* the iterator objects that may be made
  Reversed,   \* those made by reverseIterator()
  Bitmap,
  Value,      \* the integers a bitmap may hold
  Array,      \* the arrays a user may pass as chunk
  ArrayLen,   \* their length
  None,
  DefaultLen, \* _iteratorBufferPoolDefaultLen, 2048
  MaxLen,     \* the cap of normalizeIteratorChunkLength, 16777216
  PoolMax,    \* _iteratorBufferPoolMax, 32
  MaxVersion, \* bound: changes of one bitmap
  Halves,     \* bound: the numbers, in halves, passed as chunk length
  Lent        \* may the user lend one array to two iterators at once?

ASSUME Assumption ==
  /\ Value \subseteq Nat /\ IsFiniteSet(Value)
  /\ Reversed \subseteq Iterator
  /\ Iterator \cap Array = {}
  /\ None \notin Iterator \cup Array \cup Bitmap
  /\ ArrayLen \in Nat \ {0}
  /\ DefaultLen \in Nat \ {0}
  /\ MaxLen \in Nat /\ MaxLen >= DefaultLen
  /\ PoolMax \in Nat
  /\ MaxVersion \in Nat /\ Halves \subseteq Int
  /\ Lent \in BOOLEAN

\* A Uint32Array made by an iterator is named after it: it makes one at most.
Buffer == Iterator \cup Array

VARIABLES
  bits,     \* the content of each bitmap
  version,  \* its version
  pool,     \* the buffers in _iteratorBufferPool, the last one on top
  memory,   \* what each buffer holds
  js,       \* the variables captured by each JavaScript iterator
  native,   \* each native iterator
  loop,     \* the helper that drives each iterator with for...of
  stack,    \* the iterators of the helpers running, the innermost last
  over,     \* the bitmap each iterator was made for
  taken,    \* its values, in order, when the native iterator was made
  yielded,  \* the values handed out so far
  told      \* what the caller last learnt of the iteration

vars == <<bits, version, pool, memory, js, native, loop, stack, over, taken,
          yielded, told>>
-----------------------------------------------------------------------------
(* Values in order, and lengths.                                            *)

Rank(v, S) == Cardinality({ u \in S : u < v })
Ascending ==
  [ S \in SUBSET Value |->
      [ k \in 1..Cardinality(S) |-> CHOOSE v \in S : Rank(v, S) = k - 1 ] ]
Descending ==
  [ S \in SUBSET Value |->
      [ k \in 1..Cardinality(S) |-> CHOOSE v \in S : Rank(v, S) = Cardinality(S) - k ] ]
InOrder(i) == IF i \in Reversed THEN Descending ELSE Ascending

AtMost(k, n) == IF k < n THEN k ELSE n

\* halves: a number, in halves, so that 0 < length < 1 occurs; None for NaN.
NormalizeIteratorChunkLength(halves) ==
  IF halves = None THEN DefaultLen
  ELSE IF halves <= 0 THEN DefaultLen
  ELSE IF halves > 2 * MaxLen THEN MaxLen
  ELSE IF halves \div 2 > 0 THEN halves \div 2 ELSE 1
-----------------------------------------------------------------------------
(* State.                                                                   *)

ClosedReader ==
  [on |-> None, version |-> 0, buffer |-> None, length |-> 0,
   hasValue |-> FALSE, value |-> 0]

Native ==
  [on : Bitmap \cup {None}, version : Nat, buffer : Buffer \cup {None},
   length : Nat, hasValue : BOOLEAN, value : Nat]

Js ==
  [made : BOOLEAN, bitmap : Bitmap \cup {None}, chunk : Buffer \cup {None},
   bufferLength : Nat, bufferReusable : BOOLEAN, bufferIndex : Nat,
   bufferCount : Nat, reader : BOOLEAN, done : BOOLEAN]

Loop == [helper : {"none", "forEach", "every", "some", "reduceRight"},
         index : Int, at : {"next", "callback", "over"}]

TypeOK ==
  /\ bits \in [Bitmap -> SUBSET Value]
  /\ version \in [Bitmap -> Nat]
  /\ pool \in Seq(Iterator)
  /\ memory \in [Buffer -> Seq(Value \cup {0})]
  /\ js \in [Iterator -> Js]
  /\ native \in [Iterator -> Native]
  /\ loop \in [Iterator -> Loop]
  /\ stack \in Seq(Iterator)
  /\ over \in [Iterator -> Bitmap \cup {None}]
  /\ taken \in [Iterator -> Seq(Value)] /\ yielded \in [Iterator -> Seq(Value)]
  /\ told \in [Iterator -> {"ready", "going", "ended", "failed", "stopped"}]

Init ==
  /\ bits \in [Bitmap -> SUBSET Value]
  /\ version = [b \in Bitmap |-> 0]
  /\ pool = <<>>
  /\ memory = [b \in Buffer |-> IF b \in Array THEN [k \in 1..ArrayLen |-> 0] ELSE <<>>]
  /\ js = [i \in Iterator |->
       [made |-> FALSE, bitmap |-> None, chunk |-> None, bufferLength |-> 0,
        bufferReusable |-> FALSE, bufferIndex |-> 0, bufferCount |-> 0,
        reader |-> FALSE, done |-> FALSE]]
  /\ native = [i \in Iterator |-> ClosedReader]
  /\ loop = [i \in Iterator |-> [helper |-> "none", index |-> 0, at |-> "over"]]
  /\ stack = <<>>
  /\ over = [i \in Iterator |-> None]
  /\ taken = [i \in Iterator |-> <<>>]
  /\ yielded = [i \in Iterator |-> <<>>]
  /\ told = [i \in Iterator |-> "ready"]
-----------------------------------------------------------------------------
(* The user.                                                                *)

\* Between the return of a callback and the next value no user code runs.
UserRuns == \A i \in Iterator : loop[i].at # "next"

\* Any method that changes a bitmap, or may have: it increments the version.
Change(b) ==
  /\ UserRuns
  /\ version[b] < MaxVersion
  /\ \E S \in SUBSET Value : bits' = [bits EXCEPT ![b] = S]
  /\ version' = [version EXCEPT ![b] = @ + 1]
  /\ UNCHANGED <<pool, memory, js, native, loop, stack, over, taken, yielded, told>>

LentOut(a) == \E i \in Iterator : js[i].chunk = a /\ ~js[i].done

\* Faulty: any chunk of the default length goes to the pool.
ReusableByLength(buffer, length) == length = DefaultLen

\* Only a chunk the iterator makes itself goes to the pool.
BufferReusable(buffer, length) == buffer = None /\ length = DefaultLen

\* The second argument is a Uint32Array, a number of halves or nothing; an
\* iterator over no bitmap is done from the start.
NormalizeIteratorInputs(i, b, buffer, halves) ==
  LET length == IF buffer = None THEN NormalizeIteratorChunkLength(halves) ELSE ArrayLen
  IN  IF b = None THEN js' = [js EXCEPT ![i].made = TRUE, ![i].done = TRUE]
      ELSE js' = [js EXCEPT ![i].made = TRUE, ![i].bitmap = b, ![i].chunk = buffer,
                            ![i].bufferLength = length,
                            ![i].bufferReusable = BufferReusable(buffer, length)]

\* new RoaringBitmap32Iterator, by the user.
NewIterator(i, b, buffer, halves) ==
  /\ UserRuns
  /\ ~js[i].made
  /\ buffer # None => Lent \/ ~LentOut(buffer)
  /\ NormalizeIteratorInputs(i, b, buffer, halves)
  /\ over' = [over EXCEPT ![i] = b]
  /\ told' = [told EXCEPT ![i] = IF b = None THEN "ended" ELSE @]
  /\ UNCHANGED <<bits, version, pool, memory, native, loop, stack, taken, yielded>>

\* Faulty: one more than the index of the last value.
FirstIndexIsSize(helper, b) == IF helper = "reduceRight" THEN Cardinality(bits[b]) ELSE 0

FirstIndex(helper, b) == IF helper = "reduceRight" THEN Cardinality(bits[b]) - 1 ELSE 0

\* forEach, map, filter and reduce go over all values; every stops at the first
\* false answer; some, find and findIndex at the first true one.
StartHelper(i, b, helper) ==
  /\ UserRuns
  /\ ~js[i].made
  /\ helper = "reduceRight" <=> i \in Reversed
  /\ NormalizeIteratorInputs(i, b, None, 2 * DefaultLen)
  /\ over' = [over EXCEPT ![i] = b]
  /\ loop' = [loop EXCEPT ![i] =
       [helper |-> helper, index |-> FirstIndex(helper, b), at |-> "next"]]
  /\ stack' = Append(stack, i)
  /\ UNCHANGED <<bits, version, pool, memory, native, taken, yielded, told>>
-----------------------------------------------------------------------------
(* The buffer pool.                                                         *)

AcquireIteratorBuffer(i) ==
  IF js[i].bufferLength = DefaultLen /\ pool # <<>> THEN pool[Len(pool)] ELSE i

PoolAfterAcquire(i) ==
  IF js[i].chunk = None /\ js[i].bufferLength = DefaultLen /\ pool # <<>>
  THEN SubSeq(pool, 1, Len(pool) - 1) ELSE pool

Chunk(i) == IF js[i].chunk = None THEN AcquireIteratorBuffer(i) ELSE js[i].chunk

\* The content of that chunk: a new Uint32Array is zero.
ChunkContent(i) ==
  IF Chunk(i) = i /\ memory[i] = <<>> THEN [k \in 1..js[i].bufferLength |-> 0]
  ELSE memory[Chunk(i)]

PoolAfterRelease(i, chunk, p) ==
  IF js[i].bufferReusable /\ chunk # None /\ Len(p) < PoolMax THEN Append(p, chunk) ELSE p
-----------------------------------------------------------------------------
(* The native iterator.                                                     *)

\* Where roaring_iterator_init or roaring_iterator_init_last positions it.
Opened(i, b, chunk) ==
  LET all == InOrder(i)[bits[b]] IN
  [on |-> b, version |-> version[b], buffer |-> chunk, length |-> Len(ChunkContent(i)),
   hasValue |-> all # <<>>, value |-> IF all = <<>> THEN 0 ELSE all[1]]

\* What is left from its position on.
Rest(i, r) ==
  IF ~r.hasValue THEN <<>>
  ELSE InOrder(i)[{ v \in bits[r.on] : IF i \in Reversed THEN v <= r.value ELSE v >= r.value }]

FillCount(i, r) == AtMost(Len(Rest(i, r)), r.length)

\* _fill: writes the next values and moves on; without one it lets go of all.
Filled(i, r) ==
  LET rest == Rest(i, r)
      n == FillCount(i, r) IN
  IF n = 0 THEN [r EXCEPT !.on = None, !.buffer = None, !.length = 0]
  ELSE [r EXCEPT !.hasValue = n < Len(rest),
                 !.value = IF n < Len(rest) THEN rest[n + 1] ELSE 0]

FilledChunk(i, r, content) ==
  LET rest == Rest(i, r)
      n == FillCount(i, r)
  IN  [ k \in DOMAIN content |-> IF k <= n THEN rest[k] ELSE content[k] ]
-----------------------------------------------------------------------------
(* next().                                                                  *)

Asked(i) ==
  /\ js[i].made
  /\ ~js[i].done
  /\ IF loop[i].helper = "none" THEN UserRuns ELSE loop[i].at = "next"

\* Faulty: a helper asks again after an exception.
HelperRetries(i, result) ==
  IF loop[i].helper = "none" THEN loop[i]
  ELSE [loop[i] EXCEPT !.at = CASE result = "value" -> "callback"
                                [] result = "throws" -> "next"
                                [] OTHER -> "over"]

\* for...of goes on with a value; the end or an exception leaves the loop.
HelperAfter(i, result) ==
  IF loop[i].helper = "none" THEN loop[i]
  ELSE [loop[i] EXCEPT !.at = IF result = "value" THEN "callback" ELSE "over"]

Answer(i, result) ==
  /\ loop' = [loop EXCEPT ![i] = HelperAfter(i, result)]
  /\ stack' = IF loop[i].helper = "none" \/ HelperAfter(i, result).at # "over" THEN stack
              ELSE SubSeq(stack, 1, Len(stack) - 1)

HandOut(i, v) ==
  /\ yielded' = [yielded EXCEPT ![i] = Append(@, v)]
  /\ told' = [told EXCEPT ![i] = "going"]
  /\ Answer(i, "value")

NextBuffered(i) ==
  /\ Asked(i)
  /\ js[i].bufferIndex < js[i].bufferCount
  /\ js' = [js EXCEPT ![i].bufferIndex = @ + 1]
  /\ HandOut(i, memory[js[i].chunk][js[i].bufferIndex + 1])
  /\ UNCHANGED <<bits, version, pool, memory, native, over, taken>>

\* After a fill by the native iterator r: a value, or the end.
AfterFill(i, r, p) ==
  LET chunk == Chunk(i)
      content == FilledChunk(i, r, ChunkContent(i)) IN
  /\ memory' = [memory EXCEPT ![chunk] = content]
  /\ IF FillCount(i, r) > 0
     THEN /\ native' = [native EXCEPT ![i] = Filled(i, r)]
          /\ pool' = p
          /\ js' = [js EXCEPT ![i].bitmap = None, ![i].chunk = chunk,
                              ![i].reader = TRUE, ![i].bufferIndex = 1,
                              ![i].bufferCount = FillCount(i, r)]
          /\ HandOut(i, content[1])
     ELSE /\ native' = [native EXCEPT ![i] = ClosedReader]
          /\ pool' = PoolAfterRelease(i, chunk, p)
          /\ js' = [js EXCEPT ![i].bitmap = None, ![i].chunk = None,
                              ![i].reader = FALSE, ![i].bufferReusable = FALSE,
                              ![i].bufferIndex = 0, ![i].bufferCount = 0,
                              ![i].done = TRUE]
          /\ told' = [told EXCEPT ![i] = "ended"]
          /\ Answer(i, "end")
          /\ UNCHANGED yielded

MustFill(i) == Asked(i) /\ js[i].bufferIndex >= js[i].bufferCount

\* The first call takes a chunk and makes the native iterator, which fills it.
NextOpens(i) ==
  /\ MustFill(i)
  /\ ~js[i].reader
  /\ taken' = [taken EXCEPT ![i] = InOrder(i)[bits[js[i].bitmap]]]
  /\ AfterFill(i, Opened(i, js[i].bitmap, Chunk(i)), PoolAfterAcquire(i))
  /\ UNCHANGED <<bits, version, over>>

\* ... or its constructor throws: the chunk stays with the iterator.
NextOpensFails(i) ==
  /\ MustFill(i)
  /\ ~js[i].reader
  /\ js' = [js EXCEPT ![i].chunk = Chunk(i)]
  /\ memory' = [memory EXCEPT ![Chunk(i)] = ChunkContent(i)]
  /\ pool' = PoolAfterAcquire(i)
  /\ Answer(i, "throws")
  /\ UNCHANGED <<bits, version, native, over, taken, yielded, told>>

\* Faulty: fill() does not look at the version.
NeverChanged(i) == FALSE

Changed(i) == version[native[i].on] # native[i].version

NextRefills(i) ==
  /\ MustFill(i)
  /\ js[i].reader
  /\ ~Changed(i)
  /\ AfterFill(i, native[i], pool)
  /\ UNCHANGED <<bits, version, over, taken>>

\* Faulty: the chunk goes back to the pool and stays with the iterator.
NextThrowsReleasing(i) ==
  /\ MustFill(i)
  /\ js[i].reader
  /\ Changed(i)
  /\ pool' = PoolAfterRelease(i, js[i].chunk, pool)
  /\ told' = [told EXCEPT ![i] = "failed"]
  /\ Answer(i, "throws")
  /\ UNCHANGED <<bits, version, memory, js, native, over, taken, yielded>>

\* "RoaringBitmap32 iterator - bitmap changed while iterating"
NextThrows(i) ==
  /\ MustFill(i)
  /\ js[i].reader
  /\ Changed(i)
  /\ told' = [told EXCEPT ![i] = "failed"]
  /\ Answer(i, "throws")
  /\ UNCHANGED <<bits, version, pool, memory, js, native, over, taken, yielded>>
-----------------------------------------------------------------------------
(* return() and dispose().                                                  *)

\* Faulty: the buffer is dropped.
ReturnLosing(i) ==
  /\ js' = [js EXCEPT ![i].bitmap = None, ![i].chunk = None, ![i].reader = FALSE,
                      ![i].bufferReusable = FALSE, ![i].done = TRUE]
  /\ native' = [native EXCEPT ![i] = ClosedReader]
  /\ told' = [told EXCEPT ![i] = "stopped"]
  /\ UNCHANGED <<bits, version, pool, memory, over, taken, yielded>>

Return(i) ==
  /\ js' = [js EXCEPT ![i].bitmap = None, ![i].chunk = None, ![i].reader = FALSE,
                      ![i].bufferReusable = FALSE, ![i].done = TRUE]
  /\ native' = [native EXCEPT ![i] = ClosedReader]
  /\ pool' = PoolAfterRelease(i, js[i].chunk, pool)
  /\ told' = [told EXCEPT ![i] = "stopped"]
  /\ UNCHANGED <<bits, version, memory, over, taken, yielded>>

\* By the user; after the end it does nothing.
UserReturns(i) ==
  /\ UserRuns
  /\ js[i].made
  /\ ~js[i].done
  /\ loop[i].helper = "none"
  /\ Return(i)
  /\ UNCHANGED <<loop, stack>>

\* The callback of the innermost helper answers and the helper goes on.
CallbackReturns(i) ==
  /\ UserRuns
  /\ stack # <<>> /\ stack[Len(stack)] = i
  /\ loop' = [loop EXCEPT ![i].at = "next",
       ![i].index = IF loop[i].helper = "reduceRight" THEN @ - 1 ELSE @ + 1]
  /\ UNCHANGED <<bits, version, pool, memory, js, native, stack, over, taken, yielded, told>>

\* ... or throws, or answers what every or some waits for: for...of calls return().
CallbackStops(i, throws) ==
  /\ UserRuns
  /\ stack # <<>> /\ stack[Len(stack)] = i
  /\ throws \/ loop[i].helper \in {"every", "some"}
  /\ loop' = [loop EXCEPT ![i].at = "over"]
  /\ stack' = SubSeq(stack, 1, Len(stack) - 1)
  /\ Return(i)
-----------------------------------------------------------------------------
User ==
  \/ \E b \in Bitmap : Change(b)
  \/ \E i \in Iterator, b \in Bitmap \cup {None}, halves \in Halves \cup {None} :
       NewIterator(i, b, None, halves)
  \/ \E i \in Iterator, b \in Bitmap, a \in Array : NewIterator(i, b, a, None)
  \/ \E i \in Iterator, b \in Bitmap, helper \in {"forEach", "every", "some", "reduceRight"} :
       StartHelper(i, b, helper)
  \/ \E i \in Iterator : UserReturns(i)

Step(i) ==
  \/ NextBuffered(i)
  \/ NextOpens(i)
  \/ NextOpensFails(i)
  \/ NextRefills(i)
  \/ NextThrows(i)
  \/ CallbackReturns(i)
  \/ \E throws \in BOOLEAN : CallbackStops(i, throws)

Next == User \/ \E i \in Iterator : Step(i)

\* A helper is a running JavaScript call, and its callbacks return or throw.
HelperStep(i) == loop[i].helper # "none" /\ Step(i)

Spec == Init /\ [][Next]_vars /\ \A i \in Iterator : WF_vars(HelperStep(i))
-----------------------------------------------------------------------------
(* Properties.                                                              *)

InUse(i) == ~js[i].done /\ js[i].chunk # None

\* No two iterators fill the same buffer, and none fills one that is in the
\* pool, where another would find it: a chunk is released once, at the end.
BuffersExclusive ==
  /\ \A i \in Iterator : InUse(i) => \A k \in DOMAIN pool : pool[k] # js[i].chunk
  /\ \A i, j \in Iterator :
       InUse(i) /\ InUse(j) /\ js[i].chunk = js[j].chunk => i = j
  /\ \A k, l \in DOMAIN pool : pool[k] = pool[l] => k = l

Pooled(b) ==
  \/ \E k \in DOMAIN pool : pool[k] = b
  \/ \E i \in Iterator : InUse(i) /\ js[i].bufferReusable /\ js[i].chunk = b

\* A pooled buffer comes back: whatever ends an iteration, the end, a return, a
\* callback that throws or a bitmap that changed, the buffer is in the pool or
\* with its iterator, except that a full pool drops the one released.
BuffersComeBack ==
  [][\A b \in Iterator : Pooled(b) => Pooled(b)' \/ Len(pool) = PoolMax]_vars

\* The callback is told the position of its value, counted from the front also
\* by reduceRight, although that reads the size before it asks for a value.
CallbackIndex ==
  \A i \in Iterator : loop[i].at = "callback" =>
    loop[i].index = IF loop[i].helper = "reduceRight"
                    THEN Len(taken[i]) - Len(yielded[i])
                    ELSE Len(yielded[i]) - 1

\* Whatever its callback does to the bitmap, a helper comes to an end.
HelpersEnd ==
  \A i \in Iterator : loop[i].at # "over" ~> loop[i].at = "over"

Abstract(i) == INSTANCE OrderedIteration WITH
  Ordered <- InOrder(i),
  bits <- IF over[i] = None THEN {} ELSE bits[over[i]],
  taken <- taken[i],
  yielded <- yielded[i],
  phase <- told[i]

\* Each iterator gives the values its bitmap held when the first was asked for,
\* each once and in order, and ends normally only after the last: buffers
\* shared through the pool, refills and changes of the bitmap do not show.  This
\* is \A i \in Iterator : Abstract(i)!Spec with the quantifier moved inside.
ImplementsOrderedIteration ==
  /\ \A i \in Iterator : Abstract(i)!Init
  /\ [][\A i \in Iterator : [Abstract(i)!Next]_(Abstract(i)!vars)]_vars
=============================================================================
