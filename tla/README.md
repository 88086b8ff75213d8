# roaring-node: a TLA+ model

`roaring-node` is a Node.js addon: JavaScript objects of class `RoaringBitmap32`
that each own a native `roaring_bitmap_t` of the CRoaring library.  The model has
two sides.

*Who may touch a native bitmap, and when.*  Methods run on the main thread and may
run user code in the middle, asynchronous methods read the bitmap on libuv pool
threads, iterators keep raw pointers between calls and share a pool of buffers,
read-only views share the native bitmap of another object, files are mapped while
other calls write them, and V8 collects objects whenever nothing strong refers to
them.

*What a bitmap holds.*  A set of integers is kept in chunks, each one in a
container of one of three types, and every operation of two bitmaps is a dozen
operations of two containers, in place or not, lazy or not, that must agree on
which type the result has and on cardinalities they cache.

Paths below are relative to `src/src/cpp/` unless they begin with `src/`.
`src/roaring-node.cpp` is the amalgamation of the addon and of CRoaring that the
package is built from; the library's code is read there.

## Inventory

| part | state | operations | interacts with | hard because | correct when |
|---|---|---|---|---|---|
| `RoaringBitmap32` objects (`RoaringBitmap32.h`, `RoaringBitmap32-main.h`) | native pointer, size cache, version, freeze counter with two for-ever marks, `readonlyViewOf`, `readonlyViewPersistent`, weak handle | construct, view, freeze, clone, swap, layout operations, weak callback | workers, iterators, views, V8 | shared native pointers, one counter for several jobs and a permanent state | one owner per native bitmap; frozen means unchanged; nothing read while it is written |
| mutating methods (`RoaringBitmap32-ops.h`) | none of their own | add, tryAdd, remove, addMany, andInPlace, pop, shift, clear ... | user code (`valueOf`, iterators), the library | checks made before user code runs are used after it; three ways to convert a number | size cache and version follow every change; the set changes as documented |
| range methods and conversions (`RoaringBitmap32-ranges.h`, `v8utils.h`) | none | addRange, removeRange, flipRange, hasRange, slices, arrays | the library | fractions, negative, missing and infinite bounds; ends that are inclusive, exclusive or one beyond 2^32 | the half-open range of the integers meant |
| static operations (`RoaringBitmap32-static-ops.h`) | none | and, or, xor, andNot, orMany, fromRange, addOffset ... | create bitmaps | lists with one bitmap twice, lazy intermediate results | results equal the set operation |
| queries, comparisons, JavaScript set methods | none | has, at, rank, select, isSubset, jaccardIndex, union ... | the library | positions across containers | the answer of the set |
| CRoaring (`src/roaring-node.cpp`) | containers by key, cached cardinalities | everything above, by container types | | every pair of types has its own code, in three variants | a set; containers in canonical form |
| binary formats (`serialization-format.h`, `src/roaring-node.cpp`) | none | portable, frozen, croaring, uint32_array | buffers, files | container types are not all written down; alignment and sizes | round trip; a reader refuses what it cannot read |
| serialization and files (`RoaringBitmap32-serialization.h`, `serialization*.h`) | argument blocks, descriptor, mapping, buffer, frozen storage | serialize and deserialize, buffers and files, text formats | creates or replaces native bitmaps; operating system | every system call may fail or fall short; a file changes under a mapping; numbers cut between two reads | round trip; nothing stays open, allocated or incomplete on an error path |
| async workers (`async-workers.h`) | stage, error, registration, completion, memory delta | `run`, `_work`, `_done`, `_complete`, `_resolveOrReject` | pool, event loop, addon data, bitmaps | three threads of control, refusal paths, shutdown | told exactly once, released exactly once |
| parallel worker (`async-workers.h`) | shared index, pending tasks | `_start`, `_parallelWork`, `_parallelDone` | same | atomic index, partial start, non-atomic error | each item once; last callback completes |
| addon data (`addon-data.h`, `main.cpp`) | active workers, `shuttingDown` | enter, leave, wait | environment cleanup hook | waits on the thread that must make progress | not deleted under a worker |
| native iterator (`RoaringBitmap32BufferedIterator.h`) | raw iterator, version, target buffer | open, fill, close | bitmap, JavaScript iterator | stale raw pointers | a change is detected |
| JavaScript iterator and buffer pool (`src/index.js`) | captured variables, pooled buffers | next, return, throw; forEach, map, reduce ... | native iterator, callbacks | a buffer in two hands; callbacks that change the bitmap or iterate themselves | a buffer has one user and comes back; values in order, each once |
| memory accounting (`memory.h`) | thread-local and per-worker counters | malloc, free, apply delta | everything | counted by one thread, uncounted by another | balance |
| wrappers (`aligned-buffers.h`, `mmap.h`, `object-wrap.h`, `WorkerError.h`) | none | | V8, operating system | | |

## Modules

| module | what it is |
|---|---|
| `RoaringBitmap32` | objects, views, freezing, mutation with user code in the middle, workers and iterators as readers, garbage collection |
| `MCRoaringBitmap32` | the choices of `Unguarded` for TLC and the symmetry |
| `AsyncJob` | abstract specification: what an asynchronous method promises its caller |
| `AsyncWorkers` | the `AsyncWorker` objects from `run()` to `delete`, the pool, the event loop and the shutdown; implements `AsyncJob` per job |
| `ParallelAsyncWorker` | one parallel job and its tasks; implements `AsyncJob` |
| `OrderedIteration` | abstract specification: what one iterator promises |
| `BufferedIterator` | JavaScript and native iterators, the pool of buffers, the helpers with their callbacks; implements `OrderedIteration` per iterator |
| `IntegerSet` | abstract specification: a bitmap is a set of integers of limited width |
| `Containers` | the three container types, their conversions and what one container answers |
| `ContainerPairs` | equality, subset and intersection of two containers, new and in place, with the cardinality of the intersection; lists of values in a bitset |
| `ContainerMerges` | union, symmetric difference and difference of two containers, new and in place, and the lazy variants of the first two |
| `Roaring` | bitmaps as maps from keys to containers; the operations of CRoaring |
| `RoaringQueries` | positions, comparisons, cardinalities and statistics of CRoaring |
| `RoaringFormats` | the binary formats: sizes, headers, reading back |
| `BitmapMethods` | the methods of `RoaringBitmap32` on what a bitmap holds, with their argument conversions; implements `IntegerSet` |
| `BitmapQueries` | the methods that only look, and what their answers must be |
| `FileFormats` | text and images of files, as sequences of bytes; the writer and the parser of numbers |
| `FileJobs` | the calls that read and write files, one step per system call |
| `MCBitmapMethods`, `MCFileJobs` | instances for TLC |
| `*_proofs` | theorems, see Proofs |

The chain `Containers` - `ContainerPairs` - `ContainerMerges` - `Roaring` -
`RoaringQueries` - `RoaringFormats` - `BitmapMethods` - `BitmapQueries` is one of
`EXTENDS`: a layer uses the one below.  `RoaringBitmap32` and `BitmapMethods` are two
views of the same methods: the first has their control and lets `Mutate` write
any set, the second has what they compute and runs them one at a time.  That is
sound because a synchronous native call is not interrupted once its arguments
are converted.  `AsyncWorkers` is to `FileJobs` what a scheduler is to its jobs;
`FileJobs` takes from it only that `_work` runs on a pool thread and the end of
the job on the main thread.

### RoaringBitmap32

*Data abstraction.*  A native bitmap is an element of `Native` with a memory
state (`mem`) and a set of integers (`set`).  Pointers are elements of `Native`;
an allocation and a C++ object are never reused, so "freed" stays visible and a
dangling pointer is a pointer to a freed element.  Which set a mutating method
computes is CRoaring's business: `Mutate` writes any set, so the properties hold
for every such method.

*Version.*  A cursor compares `bitmapVersion` with `getVersion()`.  The version
is an unbounded counter only ever compared for equality with a value taken at
opening; `stale` is the set of cursors for which they differ.  `Invalidate(h)`
(`++_version`) makes every cursor open on `h` stale.

*Threads.*  One action per synchronous native call, since nothing else runs on
the main thread meanwhile.  There are two exceptions.  A call that converts its
arguments runs user code: `ElementsBegin/Next/End` (add, tryAdd, remove: the
native pointer is read once, before) and `BulkBegin/End/Throw` (`roaringAddMany`
and its callers: the pointer is read after).  `Work...` actions are steps of a
pool thread and interleave with everything, including suspended calls.
`WorkStoreSize` is a step of its own because `getSize()` computes, then stores.

*Torn reads.*  `Disturb(p)` puts in `torn` whoever is reading `p` when it is
written or freed.  The run-time behaviour after that is undefined, so the model
does not continue it; it records that it happened.

*Uses.*  The code does not reject every call that is unsafe.  `Uses` names the
accepted calls that break something, and `Unguarded` says which of them a run
makes.  `Unguarded = {}` is a user who avoids all of them, `Unguarded = Uses`
one who avoids nothing.  The guards concern only what JavaScript *calls*; no
check of the code is added or strengthened.  The violation runs allow one
use each, and it is the whole distance between them and the guarded run.

*Collection.*  `held` is what JavaScript references.  `Reachable` adds the strong
handles of the code: workers in `Pinning` store `info.This()` in
`bitmapPersistent` (serializers), the others (`toUint32ArrayAsync`) declare the
handle but never set it; open cursors keep their bitmap; a view keeps itself and
a bitmap frozen for ever that was asked for its view caches itself.

### AsyncWorkers

One action per stage: in `run`, `Prepare` (the promise, `before()`), `Enter` (the
registration), and `Start` (`uv_queue_work`) or `Refuse`; `WorkStart`, `WorkEnd` (pool),
`AfterWork` (`_done`, `_complete`, `_resolveOrReject` in one main-thread step),
`CallbackReturns` (the user's callback runs before `delete worker`, so user code
runs with the worker alive), `Teardown` and `TeardownEnds` (`~AddonData`).  The
shutdown makes `AfterWork` impossible, because the hook blocks the only thread
that runs the event loop.  That the hook runs on that thread is Node's
behaviour and an assumption here.

`run` is in steps although nothing else happens on the main thread meanwhile
(`NotInRun`), because it may stop after each of them with something taken:
`before()` reports an error and the registration is left out; it throws and the
worker registers all the same, without a freeze; the registration fails with the
bitmap frozen; `uv_queue_work` fails with both.  `Refuse` is `_resolveOrReject` in
each of these states, so `InFlightIsHeld` says that a refusal gives back what was
taken and nothing else, and `EveryJobIsTold` that the caller is told.

### ParallelAsyncWorker

The shared index is loaded and incremented in two steps (`LoadIndex`, `Claim`)
as in the code, modulo `IndexModulus` (2^32).  `setError` is check-then-act
without synchronisation, hence two steps (`WorkFails`, `StoreError`).  With one
task the code uses the plain worker and a loop; the same actions describe it.

### BufferedIterator

One action per way `next()` goes: from the buffer (`NextBuffered`), opening the
native iterator (`NextOpens`, or its constructor throws), filling again
(`NextRefills`), and the version error (`NextThrows`).  All of them are
synchronous, so each is one step.  User code runs between two values and in
callbacks: `stack` is the nesting of the helpers that are running, and
`UserRuns` says that control is with the user.  `Change` gives a bitmap any new
content and increments the version, as every mutating method does.

A buffer is named after the iterator that made it; its content is kept
(`memory`), because a buffer from the pool has old values in it.  Arguments are
counted in halves of a number so that a length between 0 and 1 occurs.  `Lent`
says whether a user may give one array to two iterators at once; the code does
not prevent that and the values are then lost, so the run excludes it.

### Containers to Roaring: the library

*Data.*  A chunk has `ChunkSize` values (2^16 in the code), an array at most
`DEFAULT_MAX_SIZE` (4096) of them, a bitset is made of words of `WordBits` (64).
An array or bitset is the set of its values, a bitset with the cardinality it
caches, a run container is the set of its runs.  Which words, bytes and SIMD
paths compute a set is left out; which *type* a result has, which cardinality is
cached and which operand is changed in place is not, because that is what the
callers rely on and what the pairwise code gets wrong if it does.  All numbers
that decide a type are constants (`ValueBytes`, `RunHeaderBytes`, `RunBytes`,
`ARRAY_LAZY_LOWERBOUND`, the thresholds of the mixed operations), so that a small
instance crosses each of them.

*Dispatch.*  `container_or`, `container_ior`, `container_lazy_or` and so on choose
by types as in the code, with a named operator per pair of types where the pair
has code of its own.

*Left out.*  Copy-on-write (the addon never turns it on), shared containers, the
64-bit bitmaps, and library functions the addon does not call.

### RoaringFormats

What is written is a record of the fields that a reader has, and a length in
bytes.  Kept is what a reader must infer: the portable format says of a container
only whether it has runs, so that its type follows from a cardinality that is
stored less one in 16 bits; where a container begins follows from the sizes of
those before it, and for a frozen bitmap from a table that is not always there;
the frozen format has a zone for each type, in which a container's part begins
where those of the same type before it end.  Bytes within a field are left out,
and so are alignment and padding, which no property tells apart.

### BitmapMethods and BitmapQueries

One action per method.  A call puts its effect in `bm` and its answer in `ret`, and
`Take` takes the answer, so that answers are states `IntegerSet` can speak of.
Static methods put their result in `bm`, so that runs go on with the results of
every operation.  Numbers are counted in halves: -1 is -0.5.  Arguments with
which a method throws are left out: nothing happens then.

What the queries must answer is stated once more in terms of the set, in
`QueriesAgree`, `RangesAgree`, `ArraysAgree` (arrays are the values in order, also
backwards and cut at a length), `ComparisonsAgree` (also the set methods and
cardinalities with every operand) and `FormatsRoundTrip`.

Observed and left as they are: `toArray` and `toSet` take a fraction of a maximum
length up and `toUint32Array` takes it down; a negative maximum is none at all.

### FileFormats and FileJobs

A byte is a tuple that says what it is: a digit, a separator, the first or second
byte of a value, of an image.  An image is two bytes, enough to be cut in the
middle.  A number in an array takes two bytes, and one that is torn reads as 0.

`FileJobs` has one action per system call and one more for its failure.  All calls
use one path, so a call may cut the file another one has mapped: using the
mapping beyond the end is `Crash`.  A descriptor is the lowest free number.
Failures are nondeterministic: `malloc`, `mmap`, `open`, `ftruncate`, `write`, `read`,
`fstat`; `write` may take less than it was given.  `close` and `munmap` do not fail.
A bitmap counts as one allocation and so does a buffer.

Three variables and two fields only observe the code where it is not as careful
as one would like, so that the properties can say *exactly* when they do not
hold; they decide nothing:

| ghost | what happened |
|---|---|
| `leaked` | an image was written after `mmap` had failed, and the descriptor is not closed on success (`serialization.h:281-288`); or there was no memory for the bitmap that text is read into (`serialization.h:559-562`) |
| `job[j].cut` | `write` took a part and the rest is not written (`serialization.h:281`, `serialization-csv.h`); or the text writer had no memory for its buffer, which is reported as success with an empty file (`serialization-csv.h:60-63`) |
| `drift` | the buffer of a frozen bitmap is allocated uncounted (`serialization.h:382`) and freed counted (`RoaringBitmap32.h:129-131`) |
| `job[j].alone` | no other call wrote the file since this one opened it |

A property that makes such an exception does not catch what the exception is about;
it says that nothing else goes wrong.

Also seen: an empty file in a frozen format gives a bitmap that is not frozen
(`serialization.h:332-339`), which `ReadAsWritten` names as its exception.

## Runs

| run | bounds | shows |
|---|---|---|
| `core_guarded` | 2 objects, 3 native bitmaps, 1 value, 1 pinning and 1 non-pinning worker, 1 cursor, `Unguarded = {}` | no torn read by a worker, iterators detect changes, size cache coherent, frozen for ever means unchanged |
| `core_unrestricted` | same objects, no values and no cursor, 2 workers, `Unguarded = Uses` | ownership, freeze counter = jobs in flight, no unfreezing, whatever is called |
| `async_workers` | 3 jobs, 2 promises and 1 callback, 2 threads | counted, held and told; refinement; liveness |
| `parallel_worker` | 3 tasks, 3 items, indices modulo 7 | each item once, completion by the last task, refinement, liveness |
| `iterators` | 1 forward and 1 reversed iterator, 1 bitmap of at most 3 values, changed at most once, pooled buffers of 2, a pool of 1, 1 array of the user | one user per buffer, buffers come back, indices of callbacks; refinement of `OrderedIteration`; helpers end |
| `bitmap_methods` | 2 chunks of 5 values, arrays of at most 2, words of 2; the lists, ranges, offsets, operands and numbers of `MCBitmapMethods` | every method, in every order, does to a bitmap what it does to a set; canonical containers; queries, arrays, comparisons and formats agree |
| `file_jobs` | 2 calls on one path, 2 descriptors, contents `{}` and `{3, 7, 12}`, numbers to 12, a text buffer of 6 bytes, 3 formats, at first no file or the text `-7 99,012` | descriptors, memory, mappings, complete files, round trip; every call ends |
| `soft_frozen_layout` | 1 object, 1 worker | violation, see Findings |
| `async_on_view` | 2 objects, 1 worker | violation |
| `view_replaced` | 3 objects | violation |
| `shutdown_in_flight` | 3 jobs | violation, under fairness |
| `intersects_with_range` | as `bitmap_methods` | violation |

*Bounds, objects and jobs.*  Two objects are enough for a bitmap with its view, a
swap and two owners; three native bitmaps allow one replacement beyond those; two
workers on one bitmap make the counter count and end in both orders; a third job
in `async_workers` waits for one of two threads.  One value distinguishes empty
from non-empty and sizes 0 and 1.  `core_unrestricted` has no values because its
properties do not look at contents; it has the worker interleavings and every
unsafe use instead.  In `parallel_worker` `IndexModulus = 7` is the smallest that
`ParallelAssumption` allows with three tasks and three items, so the index gets
as close to wrapping as the code lets it.  Further bounds: one suspended native
call at a time in `RoaringBitmap32`, and callbacks that call asynchronous
callback methods nest to one level in `AsyncWorkers`: the callback of a job that is
refused within a callback returns at once.

*Bounds, iterators.*  Three values with buffers of two need a full buffer, a
refill that is not full and a refill that finds the end.  A pool of one is empty,
has the buffer that is wanted, or is full when a second one comes back.  An
iterator object makes one iteration, so two of them may be in either order,
nested in callbacks or interleaved, and the second takes the buffer the first
gave back.  One change is enough for every place of it: an iterator fails for
good after the first.  Lengths are 0, 1/2, 7/2 (above the cap of 3), NaN and the
default.

*Bounds, bitmaps.*  With five values to a chunk every container is an array
(at most 2 values), a bitset (3 or more) or a run container that is smaller than
either, a full chunk exists, and a bitset has three words, the last one partial.
Two chunks make keys that only one operand has, ranges and offsets that cross a
border, and the last value of the width.  The state graph is finite without a
bound on the calls, and TLC explores all of it: every sequence of calls, of any
length.  Operands have each type in either chunk.

*Bounds, files.*  Two calls in every order on one path include a reader and a
writer at once, two writers, a call after a call, and the reuse of a descriptor;
two descriptors make `open` fail for want of one only when one has leaked.  The
text `[3,7,12]` of 8 characters crosses a buffer of 6 wherever `read` cuts it; a
text of another origin has a minus, a number that is too large and a leading zero.
`MaxCalls` bounds the calls.

*Deadlock.*  `bitmap_methods` is checked for it: some method can always be called.
In the others the finite objects, jobs or calls are used up in the end, and a
crash ends the process, so deadlock is not checked; that what was begun is not
stuck is checked as liveness (`EveryJobIsTold`, `JobIsTold`, `HelpersEnd`, `JobsEnd`).

*Symmetry* of objects and of native bitmaps is used in the runs of
`RoaringBitmap32`, which check no liveness.

*Fairness.*  `RoaringBitmap32` and `BitmapMethods` have none.  In `AsyncWorkers` and
`ParallelAsyncWorker` pool threads, the event loop and returning user callbacks
are weakly fair: libuv runs its queue, `work()` is a finite computation, and
Node turns the loop while work is queued.  A call of `run` that was begun goes on,
as it is synchronous (`Enter`, `Start` or `Refuse`).  Nothing obliges the user to start a
job or the environment to end.  `EveryJobIsTold` assumes the environment lives.
In `BufferedIterator` the steps of a helper are weakly fair, because it is a
JavaScript call that is running and its callbacks return or throw; nobody has to
go on with an iterator of his own.  In `FileJobs` the steps of a call that do not
fail are weakly fair, with those failures that the state forces (no descriptor,
no file, a file that became too short); no failure that may happen is ever
assumed to happen.

## Findings

* `soft_frozen_layout`: layout operations are refused on a hard-frozen bitmap only,
  and a soft-frozen one stays soft-frozen while a job reads it, so `runOptimize`
  rewrites containers under a pool thread.  `src/index.d.ts:939` promises that the
  bitmap is frozen until the operation completes.
* `async_on_view`: an asynchronous method of a view freezes the view only.
* `view_replaced`: `asReadonlyView` promises a view that follows its bitmap
  (`src/index.d.ts:1660-1665`); after `deserialize` or `swap` it has the old pointer.
* `shutdown_in_flight`: `async-workers.h:143` says `finally()` is called after the
  thread completes; the cleanup hook waits for that on the thread that would do it.
* `intersects_with_range`: the end of the range is made exclusive twice
  (`RoaringBitmap32-ranges.h:126`), so that the last integer of it is never
  looked at.  `RangesAgree` says what the method does get right: it is never true
  without a value in the range, and true with one before the last integer of it.

Not runs, but visible in the model: four more uses of `Uses`, each of which, added
to the guarded run, breaks properties of it (`dropUnpinned`: `WorkersReadUndisturbed`;
`layoutUnderCursor` and `cursorOnView`: `CursorsDetectChange`; `nested`: these two,
`SizeCacheCoherent` and `FrozenForeverUnchanged`); what the ghosts of `FileJobs` record, above;
`roaring_bitmap_from_range` counts in 32 bits when the step is 65536 or more, so
that `fromRange(0, 2^32, 65536)` goes round without an end (`src/roaring-node.cpp:26919`;
`RangeWraps` is the condition, and such steps are excluded by `StepFits`); and
`xorInPlace` and `removeMany` of a bitmap with itself or its view pass one native
bitmap twice to functions that assert they are two (operands of `BitmapMethods`
are other bitmaps).

## Proofs

`RoaringBitmap32_proofs` proves, for all sets of objects, allocations, values,
workers and cursors that satisfy `Assumption` (the sets `Value` and `Worker`
finite, `None` a null pointer, workers and cursors distinct) and for **every**
`Unguarded`:

* `TypeCorrect`: `Spec => []TypeOK`.
* `OwnershipInvariant`: `Spec => []Ownership`.
* `FreezeBalanceInvariant`: `Spec => []FreezeBalance`.
* `NeverUnfrozenHolds`: `Spec => NeverUnfrozen`.

None of them is inductive.  `Inv == TypeOK /\ Wellformed` is, proved by `InitInv`
and `NextInv` with one step per action.  `Wellformed` says where pointers lead:
an object that was made has a native pointer, the bitmap of a view was made, a
view has the hard mark, a cached view is a view or the object itself, JavaScript
references only objects that are not deleted, a job's target was made and, if
the job pins it, is not deleted, and a suspended call is on a live object.  It is
needed even for types: `ReadSize` stores the cardinality of the content of the
root's native pointer, which is a number only if that pointer is not null.
`OwnershipInvariant` and `FreezeBalanceInvariant` then carry their own invariant
relative to `Inv`, with a lemma for each action that changes an owner (`New`,
`Swap`, `Replace`, `Collect`) or the set of jobs (`AsyncBegin`, `AsyncDone`, by the
cardinality theorems).  `NeverUnfrozenHolds` is an action property that follows
from `Inv`, since only `New`, `MakeView`, `Freeze`, `Replace`, `AsyncBegin`,
`AsyncDone` and `Collect` write a counter.

### Guarded uses

With `Unguarded = {}`, `RoaringBitmap32_proofs` also proves the four properties of
`core_guarded` for any instance.  With `Base == Inv /\ Ownership /\
FreezeBalance` already proved, `Guarded == Jobs /\ Calls /\ Cursors /\ Sizes` is
inductive:

* `Jobs`: a job's target is a bitmap (never a view), referenced if the job does
  not pin it; what a pool thread reads is what the target still owns; a size
  computed on a pool thread is still the size.
* `Calls`: the bitmap of a suspended call is not frozen and has the native
  pointer the call holds.
* `Cursors`: an open cursor's bitmap lives, and the cursor reads what it owns
  unless it is stale; a torn cursor is stale, or will be when the suspended call ends.
* `Sizes`: a cached size is right unless a suspended call is changing the bitmap.

The argument is in two lemmas.  `NoJobs`: an unfrozen bitmap is the target of no
job, by `FreezeBalance`.  `OthersKept`: two bitmaps never own one native bitmap, by
`Ownership`.  So a method that checks `isFrozen` writes what no pool thread
reads, and no current cursor of another bitmap.  There is one lemma per action.

### Workers

`AsyncWorkers_proofs`: `TypeCorrect`, `HeldInvariant`, `ExitInvariant` and
`Implements` (`Spec => ImplementsAsyncJob`), for any number of jobs.  The invariant
adds to `InFlightIsHeld` what a job has told at each stage and what it cannot have
yet in `run`, that only the job whose callback is running is settled and not
deleted, and that nothing is active once the environment is gone.  `ResolveInv` is
the heart: `_resolveOrReject` leaves a job settled, released and uncounted, whatever
of these it had taken.

`ParallelAsyncWorker_proofs`: `TypeCorrect`, `ItemsOnceInvariant`,
`OutlivesInvariant`, `CompleteInvariant` and `Implements`, for any number of tasks
and items that satisfy `ParallelAssumption`.  The invariant counts: the pending
tasks are those with a callback to come, and beyond the last item every increment
of the index ends a task, so `currentIndex <= LoopCount + Cardinality(Over)` stays
below the modulus.

### Iterators

`BufferedIterator_proofs` is about any number of iterators, bitmaps and values,
any length of buffers and any size of the pool that satisfy `Assumption`.

* `TypeCorrect`: `Spec => []TypeOK`.  That what `next()` hands out is a value, and
  not a place of the buffer nobody wrote, needs `Typed`: with `Shape`, for an
  iterator that is made, ended or reading, where its indices lie in its chunk,
  which places were written and where the native iterator stands, and
  `PoolFilled`, pooled buffers are not empty.  A step of one iterator keeps the
  shape of the others although it may write into memory they share, since
  buffers keep their length and written places stay written.  `Stacked` adds
  that helpers nest: an iterator is on the stack once, and only the helper on
  top asks for a value.
* `PooledBuffersComeBack`: `Spec => BuffersComeBack`, with `Bounded`: the pool is not
  longer than its limit, and what is marked as reusable has the length of the
  pool.
* `BuffersAreExclusive`: `Spec => []BuffersExclusive`, assuming `~ Lent`.  `Exclusive`
  adds that a pooled buffer belongs to an iterator that made it and has no
  other name.  A step makes an iterator, takes a chunk or releases one
  (`Makes`, `Takes`, `Releases`), and each is one lemma.
* `IteratorsAreOrdered`: `Spec => ImplementsOrderedIteration`, assuming `~ Lent`: two
  iterators that fill one array overwrite each other's values.  `Started` relates
  the JavaScript and the native state to what the caller was told, and `Position`
  is the heart: the values handed out are a prefix of those taken, those left in
  the chunk are the next ones, and unless the bitmap changed the native iterator
  stands on the one after them.
* `CallbacksAreIndexed`: `Spec => []CallbackIndex`, with `Indexed`: the index is also
  right while the helper waits for a value, `reduceRight` included, which counts
  down from a size it read before the native iterator was made.

### Files

`FileJobs_proofs` is about any number of calls and descriptors, any contents,
base, buffer and formats that satisfy `FormatsAssumption`, `RoomAssumption` and
`JobsAssumption`, and whatever fails.

* `DescriptorsAreClosed`: `Spec => []DescriptorsClosed`.  `DescriptorsClosed` says
  nothing of a call in the middle, so `Closed` adds that a call holds a
  descriptor exactly when it is not in one of the places of `Idle`: a new error
  path that goes to the end without `close`, or to `close` without a descriptor,
  has no proof.  A step keeps descriptors, gets one or gives one up (`Keeps`,
  `Gets`, `Gives`).
* `TypesHold`: `Spec => []TypeOK`, `BytesStay`: `Spec => []BytesAreThere`, and
  `MemoryIsAccounted`: `Spec => []MemoryAccounted`, from `Invariant == Closed /\ Calls
  /\ Accounted`.  `Calls` says of each call, by the place it is at, which fields
  are set (`Placed`) and what is in them (`Typed`): the buffer holds bytes where
  bytes are needed, a size is the length of what is to be written, a bitmap is
  where its bytes are.  `Accounted` gives each call the numbers it has to answer
  for: `Holding`, what it has allocated, and `Unreported`, the part the worker
  keeps.  There is one lemma for each action, which shows that the action is a
  step of one call that leaves the others alone (`Frame`), lands in a place as
  `Placed` describes it (`Lands`), and moves the counters by what the call now
  holds more or less (`Accounts`); sums over calls are cardinalities, which
  change by one (`AllocatedChange`).

That text never goes beyond the buffer, a part of `TypeOK`, needs the room of a
number, `RoomAssumption`: `ValueRoom` (15 in the code) is more than a number of
`UINT32_MAX` and its separator take.  TLC evaluates it for the values of the run.
* `FilesAreWritten`: `Spec => []WrittenAsReported`, and `FilesAreRead`: `Spec =>
  []ReadAsWritten`, from `Invariant /\ Told`.  `Told` says of each call that has the
  file for itself what it knows of it where it is (`Tells`).  A writer of text:
  what is in the file and what is in the buffer make up the text as far as its
  items were appended, and the items that are left are the rest (`Progress`), so
  it does not matter where a flush comes.  A writer of an image: the file is as
  long as the image.  A reader of text: the parser is in the state it has after
  the characters up to the position, so it does not matter where a read ends.
  A reader of an image: the size is the length of the file, and the bytes are
  the file.  A step of another call that writes the file ends the other calls'
  knowledge (`Stays`), except that a call that has not opened it yet has none.

Below that are theorems on what `FileFormats` computes, for any set of values and
any base.  `ParserIsRight`: from any text the parser takes the numbers that
`TextValues` finds in it.  The invariant of its loop is `Known`: it has taken the
runs of digits that ended, and has in hand the number of the one it is in, up to
`UINT32_MAX`.  `ParseInPieces`: to parse a text in two pieces is to parse it.
`TextIsRead` and `ImageIsRead`: what was written is read.

What text and images hold (`TextType`, `ImageType`, `ParseType`) rests on functions
defined by recursion.  That such a function exists, and what it returns, is
proved from the well-foundedness of the subsets of a finite set:
`NumbersByInduction` says that a set of numbers which has 0 and with each number
the next has all, and `RecursionHasSolution` builds the function.

### Containers, bitmaps and methods

Three modules, one on the other, prove that the library computes what it should
and that the methods use it rightly: for any size of containers, any thresholds
that satisfy `ContainerAssumption` and `ThresholdAssumption`, any number of keys,
any arguments (`ArgumentAssumption`: lists, ranges, steps and offsets are made of
integers and of two values that stand for the others) and any operands
(`OperandAssumption`: other bitmaps are valid, as every method leaves its own).

* `TypesHold`, `StaysWellFormed`: `Spec => []TypeOK` and `Spec => []WellFormed` of
  `BitmapMethods`.
* `PromiseKept`: `Spec => ImplementsIntegerSet`, the refinement: every call changes
  the set of values, and answers, as `IntegerSet` promises.
* `QueriesRight`, `RangesRight`, `ArraysRight`, `ComparisonsRight`: `Spec => []QueriesAgree`,
  and so for `RangesAgree`, `ArraysAgree` and `ComparisonsAgree` of `BitmapQueries`, for any
  arguments, any sets and lists and any `kChunkSize` (`QueryAssumption`).  Of
  `intersectsWithRange` `RangesRight` says no more than `RangesAgree` does, see Findings.
* `FormatsRight`: `Spec => []FormatsRoundTrip`: every binary format gives the bitmap
  back, and none reads a buffer that is a byte short, for any number of containers
  on either side of `NO_OFFSET_THRESHOLD` (`FormatAssumption`).

The invariant is `Inv == Represents(bm, Values(bm))`.  It says what the library
relies on everywhere: there is a container at exactly the keys whose chunk of the
set has a value, and each is `Sound` for its chunk: an array that is not too long,
a bitset with the right cardinality that is not too short, or runs that are
apart.  `BitmapIsValid` and `ValidIsBitmap` show that this is what
`roaring_bitmap_internal_validate` accepts, so `Inv` is `TypeOK /\ WellFormed`
(`InvIsThat`).  `TypeOK` is not inductive without `WellFormed`: where runs overlap, or a
cardinality is wrong, the next call counts wrongly and takes the wrong container.

`Containers_proofs`.  A container stands for a set of values in one of three ways:
`Sound`; `Exact`, which allows a bitset with few values, as in the middle of an
operation; `Lazy`, which also allows a bitset with unknown cardinality.  There is
one lemma for each pair of types and each operation, and one theorem for each
operation of two containers: `ContainersIntersect`, `ContainersUnite`,
`ContainersDiffer`, `ContainersSubtract` and their lazy forms, which say which of
the three the operands have to be and which the result is.  The work is in the
runs.  `Apart` says that runs do not touch, `Chain` that a sequence of them is in
order; a loop that puts runs behind each other keeps the chain and the values of
the runs so far (`ChainGrows`, `RunsUnited`, `RunsDiffer`), and what it may assume of
the runs to come is that they are sorted (`InOrder`) and that no value is in three
of them (`AtMostTwice`).

`Roaring_proofs`.  `Chunk(V, k)` is the part of a set that belongs to key `k`; sets
with the same chunks are the same (`SameChunks`), so a statement on bitmaps is one
on each container.  A loop over containers has an invariant that says which of
them it has passed: of a range, of a list of values, of bitmaps.  `ManyUnited` holds
of every order in which the queue takes bitmaps of equal size; it and `ManyDiffer`
show that lazy results, whose cardinalities are unknown, are repaired before the
caller sees them.

`BitmapMethods_proofs`.  There is one lemma for each action, `AddDoes` to `XorManyDoes`.
Under it, what becomes of numbers (`ValueOfArgument`, `RangeOfArguments`,
`StepOfArgument`, `OffsetOfArgument`): the methods convert them in several ways, and
each is shown to mean what `IntegerSet` says of integers, NaN and `undefined`.

The answers of queries follow from the same invariant, container by container.
Counting is one idea throughout: a number is the size of a set.  `SumIsCount` turns
a sum over runs, containers or keys into the size of a union of sets that share
nothing, and from there ranks, positions and cardinalities are statements about
`Before(S, v)` and `UpTo(S, v)` (`ContainerRank`, `PositionInBitmap`, `RankIsRight`,
`SelectIsRight`, `RangeCounted`).  Comparisons rest on `RunsAreUnique`, there is one way
only to store values in runs that stand apart, and on `IncludedByChunks`.  An array
is a list with each value at its position (`AscendingLists`), so that a part of it,
its reverse and its reading chunk by chunk are equations between indices (`PartIs`,
`ReversedIs`).  `RangeIsCounted` claims of `intersectsWithRange` what holds, that it is
never true without a value; that it can be false with one is the finding of
`intersects_with_range`.

The formats are about lists: the keys of a bitmap in order, and its containers
(`ContainersInOrder`).  A sum over keys is a sum along that list (`SumInOrder`), as it
is the number of copies of the keys, and it grows by one summand at a time
(`SumsGrow`).  So each container of the portable format begins where the one before
it ends, no two begin at one place, and the last one ends at the size that was
announced (`ContainersFollow`).  A reader takes a container for what it is
(`ContainerIsRead`): that is where `Sound` is needed, since an array too long for its
type, or a wrong cardinality, would be read as another container.  It works out
the positions one from the other and finds those (`PositionsAreRight`), or the
table has them; hence `PortableIsReadBack`.  In the frozen format a zone is what its
containers put there one after the other (`ZoneIsFilled`), a reader counts from types
and counts how much the ones before used (`FrozenUsed`), and the slice in between
has what the container put there (`ContainerIsViewed`); hence `FrozenIsReadBack`, and
from both, with `ValuesAdded` for the format that is an array, `FormatsAreReadBack`.

The loops of the library are recursive functions (`Loop`), and the induction over
them is proved for each operator, from `NumbersByInduction`: a set of numbers which
has 0 and with each number the next has all.

### What is only model-checked

Liveness (`EveryJobIsTold`, `JobIsTold`, `HelpersEnd`, `JobsEnd`): the prover does not
reach liveness under fairness.  Every invariant, every action property and the
safety part of every refinement of a passing run has a theorem.  No module has a
recursive operator.

## Not modelled

* In CRoaring: SIMD, copy-on-write, 64-bit bitmaps, and what the addon does not call.
* Formatting of text for people (`join`, `toString`, `contentToString`) and of errors.
* Arguments with which a method throws before it does anything; the checks of
  the in-memory deserializers on their buffers (type, detached, offset).
* Files in `unsafe_frozen_portable` format, which the reader does not check, and
  the tag byte of the `croaring` format in files.
* Memory accounting outside deserialization; aligned and shared buffers: one call
  of V8 each, without state of their own.
* The constructors and handles that `AddonData` caches, object wrapping, names.
* Scripts, benchmarks, type declarations: no part of the running program.  The
  comments of the declarations are quoted where a run contradicts them.

## Plan

1. (done) `RoaringBitmap32`, `AsyncJob`, `AsyncWorkers`, `ParallelAsyncWorker` and the
   proofs about them.
2. (done) `BufferedIterator` with `OrderedIteration`.
3. (done) `FileFormats` and `FileJobs`, with the accounting of memory in them.
4. (done) The library and the methods on contents: `Containers` to `BitmapQueries`,
   with `IntegerSet`.
5. (done) Proofs about `BufferedIterator`: type correctness, one user per buffer, the
   refinement.
6. (done) Proofs about `FileJobs`: closed descriptors, types, memory, bytes that stay,
   what is written and what is read.
7. (done) Proofs about the library and the methods: containers, bitmaps, the
   refinement of `IntegerSet`.
8. (done) Proofs about `BitmapQueries`: ranks and positions, ranges, arrays, comparisons.
9. (done) A proof about the binary formats (`FormatsRoundTrip`).
10. A run of its own for steps of `fromRange` that wrap around.
