-------------------------- MODULE RoaringBitmap32 --------------------------
(***************************************************************************)
(* The life of RoaringBitmap32 objects: which C++ object owns which native *)
(* roaring_bitmap_t, when it is frozen and for whom, what a read-only view *)
(* shares with the bitmap it was made from, when V8 may collect it, and    *)
(* what asynchronous workers on the thread pool and buffered iterators     *)
(* read while JavaScript keeps calling methods on the main thread.         *)
(*                                                                         *)
(* Every action of the main thread is one synchronous native call, except  *)
(* that a native call which converts an argument (a valueOf of an element, *)
(* the iterator of an iterable) runs user code in the middle: such a call  *)
(* is a Begin, the calls made by the user code, and an End.  Actions named *)
(* Work... run on a libuv pool thread and interleave with everything.      *)
(***************************************************************************)
EXTENDS Integers, FiniteSets

CONSTANTS
  Handle,     \* the RoaringBitmap32 C++ objects that may ever be created
  Native,     \* the roaring_bitmap_t allocations that may ever be made
  Value,      \* the integers a bitmap may hold
  Worker,     \* the asynchronous jobs reading a bitmap
  Pinning,    \* the workers that store info.This() in bitmapPersistent
  Cursor,     \* the RoaringBitmap32BufferedIterator objects
  None,       \* the null pointer
  Unguarded   \* the uses the code does not reject that the user still makes

(***************************************************************************)
(* Calls the code accepts although a reader, a view or a suspended call    *)
(* depends on the bitmap.  A run chooses which of them the user makes.     *)
(***************************************************************************)
Uses == { "layoutOnSoftFrozen",  \* runOptimize & co. after freeze()
          "layoutUnderCursor",   \* runOptimize, shrinkToFit while iterating
          "replaceUnderView",    \* swap, deserialize on a bitmap with a view
          "dropViewed",          \* forgetting a bitmap but not its view
          "asyncOnView",         \* an asynchronous method of a view
          "cursorOnView",        \* an iterator over a view
          "dropUnpinned",        \* forgetting a bitmap during toUint32ArrayAsync
          "nested" }             \* using a bitmap inside its own suspended call

ASSUME Assumption ==
  /\ IsFiniteSet(Value)
  /\ IsFiniteSet(Worker)
  /\ Pinning \subseteq Worker
  /\ Worker \cap Cursor = {}
  /\ None \notin Handle
  /\ None \notin Native
  /\ Unguarded \subseteq Uses

VARIABLES
  kind,          \* what the object is: not yet made, bitmap, view, deleted
  roaring,       \* the native bitmap it points to
  sizeCache,     \* its cached cardinality, UNKNOWN when invalidated
  frozenCounter, \* readers that froze it, or one of the two for-ever marks
  viewOf,        \* readonlyViewOf: the bitmap a view was made from
  viewCache,     \* readonlyViewPersistent: what asReadonlyView returns again
  held,          \* the objects JavaScript still references
  mem,           \* the state of a native allocation
  set,           \* its content
  phase,         \* where an asynchronous job is
  target,        \* the object a job or a cursor was made on
  reads,         \* the native bitmap a job or a cursor is reading
  sizeRead,      \* a cardinality computed on a pool thread, not stored yet
  torn,          \* the readers whose native bitmap was written or freed
  stale,         \* the cursors whose bitmapVersion differs from getVersion()
  call           \* the suspended native call

objectVars == <<kind, roaring, sizeCache, frozenCounter, viewOf, viewCache>>
nativeVars == <<mem, set>>
jobVars    == <<phase, target, reads, sizeRead>>
vars == <<objectVars, held, nativeVars, jobVars, torn, stale, call>>

UNKNOWN == -1      \* sizeCache after invalidate()
SOFT_FROZEN == -1  \* FROZEN_COUNTER_SOFT_FROZEN
HARD_FROZEN == -2  \* FROZEN_COUNTER_HARD_FROZEN

Reader == Worker \cup Cursor

NoCall == [op |-> "none", on |-> None, ptr |-> None, changed |-> FALSE]
Call == [ op : {"none", "elements", "bulk"}, on : Handle \cup {None},
          ptr : Native \cup {None}, changed : BOOLEAN ]

TypeOK ==
  /\ kind \in [Handle -> {"unborn", "bitmap", "view", "dead"}]
  /\ roaring \in [Handle -> Native \cup {None}]
  /\ sizeCache \in [Handle -> Nat \cup {UNKNOWN}]
  /\ frozenCounter \in [Handle -> Nat \cup {SOFT_FROZEN, HARD_FROZEN}]
  /\ viewOf \in [Handle -> Handle \cup {None}]
  /\ viewCache \in [Handle -> Handle \cup {None}]
  /\ held \subseteq Handle
  /\ mem \in [Native -> {"unused", "live", "freed"}]
  /\ set \in [Native -> SUBSET Value]
  /\ phase \in [Worker -> {"idle", "queued", "reading", "ended"}]
  /\ target \in [Reader -> Handle \cup {None}]
  /\ reads \in [Reader -> Native \cup {None}]
  /\ sizeRead \in [Worker -> Nat \cup {UNKNOWN}]
  /\ torn \subseteq Reader
  /\ stale \subseteq Cursor
  /\ call \in Call

Init ==
  /\ kind = [h \in Handle |-> "unborn"]
  /\ roaring = [h \in Handle |-> None]
  /\ sizeCache = [h \in Handle |-> 0]
  /\ frozenCounter = [h \in Handle |-> 0]
  /\ viewOf = [h \in Handle |-> None]
  /\ viewCache = [h \in Handle |-> None]
  /\ held = {}
  /\ mem = [p \in Native |-> "unused"]
  /\ set = [p \in Native |-> {}]
  /\ phase = [w \in Worker |-> "idle"]
  /\ target = [a \in Reader |-> None]
  /\ reads = [a \in Reader |-> None]
  /\ sizeRead = [w \in Worker |-> UNKNOWN]
  /\ torn = {}
  /\ stale = {}
  /\ call = NoCall
-----------------------------------------------------------------------------
(* Helpers of the class.                                                    *)

IsFrozenHard(h) == frozenCounter[h] > 0 \/ frozenCounter[h] = HARD_FROZEN
IsFrozen(h) == frozenCounter[h] # 0
IsFrozenForever(h) == frozenCounter[h] < 0

\* Faulty: the counter as a flag; the mark not checked; the mark not checked
\* and decremented too; the first job to end unfreezing for all.
BeginFreezeAsFlag(h) == IF frozenCounter[h] >= 0 THEN 1 ELSE frozenCounter[h]
BeginFreezeUnchecked(h) == frozenCounter[h] + 1
EndFreezeUnchecked(h) == frozenCounter[h] - 1
EndFreezeForAll(h) == IF frozenCounter[h] > 0 THEN 0 ELSE frozenCounter[h]

AfterBeginFreeze(h) ==
  IF frozenCounter[h] >= 0 THEN frozenCounter[h] + 1 ELSE frozenCounter[h]

AfterEndFreeze(h) ==
  IF frozenCounter[h] > 0 THEN frozenCounter[h] - 1 ELSE frozenCounter[h]

\* The object whose size a view asks for: views of views are flattened.
Root(h) == IF viewOf[h] = None THEN h ELSE viewOf[h]

Alive(h) == kind[h] \in {"bitmap", "view"}
ViewsOf(h) == { v \in Handle : kind[v] = "view" /\ viewOf[v] = h }
InFlight(h) == { w \in Worker : phase[w] # "idle" /\ target[w] = h }
CursorsOn(h) == { c \in Cursor : reads[c] # None /\ target[c] = h }

\* Whoever is reading p when it is written or freed reads a torn bitmap.
Disturb(p) == torn' = torn \cup { a \in Reader : reads[a] = p }

Write(p, S) ==
  /\ set' = [set EXCEPT ![p] = S]
  /\ Disturb(p)

\* Faulty: the version is not incremented.
InvalidateSizeOnly(h) ==
  /\ sizeCache' = [sizeCache EXCEPT ![h] = UNKNOWN]
  /\ UNCHANGED stale

\* A cursor compares versions: after ++_version every open one differs.
Invalidate(h) ==
  /\ sizeCache' = [sizeCache EXCEPT ![h] = UNKNOWN]
  /\ stale' = stale \cup CursorsOn(h)

\* JavaScript can call a method of h: it references h, and if user code runs
\* inside a suspended call on h, the run lets it use h there.
Callable(h) ==
  /\ h \in held
  /\ call.on = h => "nested" \in Unguarded
-----------------------------------------------------------------------------
(* Creation.                                                                *)

\* The constructor, of, from, clone, the static set operations and the
\* deserializers that return a new bitmap; frozen formats are frozen for ever.
New(h, p, S, frozen) ==
  /\ kind[h] = "unborn"
  /\ mem[p] = "unused"
  /\ kind' = [kind EXCEPT ![h] = "bitmap"]
  /\ roaring' = [roaring EXCEPT ![h] = p]
  /\ \E size \in {0, UNKNOWN} :
       /\ size = 0 => S = {} /\ ~frozen
       /\ sizeCache' = [sizeCache EXCEPT ![h] = size]
  /\ frozenCounter' = [frozenCounter EXCEPT ![h] = IF frozen THEN HARD_FROZEN ELSE 0]
  /\ held' = held \cup {h}
  /\ mem' = [mem EXCEPT ![p] = "live"]
  /\ set' = [set EXCEPT ![p] = S]
  /\ UNCHANGED <<viewOf, viewCache, jobVars, torn, stale, call>>

\* The constructor of a view: it copies the pointer and roots itself.
MakeView(h, v) ==
  /\ kind[v] = "unborn"
  /\ kind' = [kind EXCEPT ![v] = "view"]
  /\ roaring' = [roaring EXCEPT ![v] = roaring[h]]
  /\ sizeCache' = [sizeCache EXCEPT ![v] = UNKNOWN]
  /\ frozenCounter' = [frozenCounter EXCEPT ![v] = HARD_FROZEN]
  /\ viewOf' = [viewOf EXCEPT ![v] = Root(h)]
  /\ held' = held \cup {v}

\* new RoaringBitmap32(h, "readonly"): a view that nobody caches.
NewReadonly(h, v) ==
  /\ Callable(h)
  /\ MakeView(h, v)
  /\ UNCHANGED <<viewCache, nativeVars, jobVars, torn, stale, call>>

CachedView(h) ==
  /\ viewCache[h] # None
  /\ held' = held \cup {viewCache[h]}
  /\ UNCHANGED objectVars

ViewOfFrozen(h) ==
  /\ viewCache[h] = None
  /\ IsFrozenForever(h)
  /\ viewCache' = [viewCache EXCEPT ![h] = h]
  /\ UNCHANGED <<kind, roaring, sizeCache, frozenCounter, viewOf, held>>

FirstView(h) ==
  /\ viewCache[h] = None
  /\ ~IsFrozenForever(h)
  /\ \E v \in Handle :
       /\ MakeView(h, v)
       /\ viewCache' = [viewCache EXCEPT ![h] = v]

AsReadonlyView(h) ==
  /\ Callable(h)
  /\ CachedView(h) \/ ViewOfFrozen(h) \/ FirstView(h)
  /\ UNCHANGED <<nativeVars, jobVars, torn, stale, call>>

Freeze(h) ==
  /\ Callable(h)
  /\ frozenCounter[h] >= 0
  /\ frozenCounter' = [frozenCounter EXCEPT ![h] = SOFT_FROZEN]
  /\ UNCHANGED <<kind, roaring, sizeCache, viewOf, viewCache, held, nativeVars,
                 jobVars, torn, stale, call>>
-----------------------------------------------------------------------------
(* Mutation.                                                                *)

\* Every mutating method whose arguments run no user code: typed arrays and
\* bitmaps as operands, pop, shift, clear, ranges.
Mutate(h, S) ==
  /\ Callable(h)
  /\ ~IsFrozen(h)
  /\ Write(roaring[h], S)
  /\ Invalidate(h)
  /\ UNCHANGED <<kind, roaring, frozenCounter, viewOf, viewCache, held, mem,
                 jobVars, call>>

\* add, tryAdd and remove check isFrozen and read the pointer once ...
ElementsBegin(h) ==
  /\ Callable(h)
  /\ call = NoCall
  /\ ~IsFrozen(h)
  /\ call' = [op |-> "elements", on |-> h, ptr |-> roaring[h], changed |-> FALSE]
  /\ UNCHANGED <<objectVars, held, nativeVars, jobVars, torn, stale>>

\* ... convert and apply the arguments one at a time ...
ElementsNext(v) ==
  /\ call.op = "elements"
  /\ \E S \in { set[call.ptr] \cup {v}, set[call.ptr] \ {v} } :
       /\ S # set[call.ptr]
       /\ Write(call.ptr, S)
  /\ call' = [call EXCEPT !.changed = TRUE]
  /\ UNCHANGED <<objectVars, held, mem, jobVars, stale>>

\* ... and invalidate at the end if any argument changed the bitmap.
ElementsEnd ==
  /\ call.op = "elements"
  /\ IF call.changed THEN Invalidate(call.on) ELSE UNCHANGED <<sizeCache, stale>>
  /\ call' = NoCall
  /\ UNCHANGED <<kind, roaring, frozenCounter, viewOf, viewCache, held,
                 nativeVars, jobVars, torn>>

\* A method given an iterable: Uint32Array.from runs its iterator.  Only
\* addMany invalidates before that.
BulkBegin(h, early) ==
  /\ Callable(h)
  /\ call = NoCall
  /\ ~IsFrozen(h)
  /\ IF early THEN Invalidate(h) ELSE UNCHANGED <<sizeCache, stale>>
  /\ call' = [op |-> "bulk", on |-> h, ptr |-> None, changed |-> FALSE]
  /\ UNCHANGED <<kind, roaring, frozenCounter, viewOf, viewCache, held,
                 nativeVars, jobVars, torn>>

\* Faulty: relies on the invalidation at the beginning of the call.
BulkEndKeepingCache(S) ==
  /\ call.op = "bulk"
  /\ Write(roaring[call.on], S)
  /\ call' = NoCall
  /\ UNCHANGED <<objectVars, held, mem, jobVars, stale>>

\* The elements go to whatever the object points to by now.
BulkEnd(S) ==
  /\ call.op = "bulk"
  /\ Write(roaring[call.on], S)
  /\ Invalidate(call.on)
  /\ call' = NoCall
  /\ UNCHANGED <<kind, roaring, frozenCounter, viewOf, viewCache, held, mem, jobVars>>

\* The iterator threw: nothing is written.
BulkThrow ==
  /\ call.op = "bulk"
  /\ call' = NoCall
  /\ UNCHANGED <<objectVars, held, nativeVars, jobVars, torn, stale>>

\* What every layout operation checks, and when the user may use it.
LayoutAllowed(h) ==
  /\ Callable(h)
  /\ ~IsFrozenHard(h)
  /\ frozenCounter[h] = SOFT_FROZEN => "layoutOnSoftFrozen" \in Unguarded

\* runOptimize and shrinkToFit rewrite containers and bump no version.
RunOptimize(h) ==
  /\ LayoutAllowed(h)
  /\ CursorsOn(h) \subseteq stale \/ "layoutUnderCursor" \in Unguarded
  /\ Disturb(roaring[h])
  /\ UNCHANGED <<objectVars, held, nativeVars, jobVars, stale, call>>

RemoveRunCompression(h) ==
  /\ LayoutAllowed(h)
  /\ Disturb(roaring[h])
  /\ Invalidate(h)
  /\ UNCHANGED <<kind, roaring, frozenCounter, viewOf, viewCache, held,
                 nativeVars, jobVars, call>>

ReplaceAllowed(h) ==
  /\ Callable(h)
  /\ ~IsFrozen(h)
  /\ ViewsOf(h) = {} \/ "replaceUnderView" \in Unguarded

Swap(a, b) ==
  /\ a # b
  /\ ReplaceAllowed(a)
  /\ ReplaceAllowed(b)
  /\ roaring' = [roaring EXCEPT ![a] = roaring[b], ![b] = roaring[a]]
  /\ sizeCache' = [sizeCache EXCEPT ![a] = UNKNOWN, ![b] = UNKNOWN]
  /\ stale' = stale \cup CursorsOn(a) \cup CursorsOn(b)
  /\ UNCHANGED <<kind, frozenCounter, viewOf, viewCache, held, nativeVars,
                 jobVars, torn, call>>

\* Faulty: the old native bitmap is forgotten.
ReplaceLeaking(h, p, S, frozen) ==
  /\ ReplaceAllowed(h)
  /\ mem[p] = "unused"
  /\ mem' = [mem EXCEPT ![p] = "live"]
  /\ set' = [set EXCEPT ![p] = S]
  /\ roaring' = [roaring EXCEPT ![h] = p]
  /\ frozenCounter' = [frozenCounter EXCEPT ![h] = IF frozen THEN HARD_FROZEN ELSE @]
  /\ Invalidate(h)
  /\ UNCHANGED <<kind, viewOf, viewCache, held, jobVars, torn, call>>

\* The deserialize method: the old native bitmap is freed.
Replace(h, p, S, frozen) ==
  /\ ReplaceAllowed(h)
  /\ mem[p] = "unused"
  /\ Disturb(roaring[h])
  /\ mem' = [mem EXCEPT ![roaring[h]] = "freed", ![p] = "live"]
  /\ set' = [set EXCEPT ![roaring[h]] = {}, ![p] = S]
  /\ roaring' = [roaring EXCEPT ![h] = p]
  /\ frozenCounter' = [frozenCounter EXCEPT ![h] = IF frozen THEN HARD_FROZEN ELSE @]
  /\ Invalidate(h)
  /\ UNCHANGED <<kind, viewOf, viewCache, held, jobVars, call>>

\* size, and every method that asks getSize() or isEmpty().
ReadSize(h) ==
  /\ Callable(h)
  /\ sizeCache[h] = UNKNOWN
  /\ sizeCache[Root(h)] = UNKNOWN
  /\ sizeCache' = [sizeCache EXCEPT ![Root(h)] = Cardinality(set[roaring[Root(h)]])]
  /\ UNCHANGED <<kind, roaring, frozenCounter, viewOf, viewCache, held,
                 nativeVars, jobVars, torn, stale, call>>
-----------------------------------------------------------------------------
(* Asynchronous readers.                                                    *)

\* run() and before() on the main thread.
AsyncBegin(w, h) ==
  /\ Callable(h)
  /\ kind[h] = "view" => "asyncOnView" \in Unguarded
  /\ phase[w] = "idle"
  /\ phase' = [phase EXCEPT ![w] = "queued"]
  /\ target' = [target EXCEPT ![w] = h]
  /\ frozenCounter' = [frozenCounter EXCEPT ![h] = AfterBeginFreeze(h)]
  /\ UNCHANGED <<kind, roaring, sizeCache, viewOf, viewCache, held, nativeVars,
                 reads, sizeRead, torn, stale, call>>

\* work() starts on a pool thread; toUint32ArrayAsync always asks the size,
\* a serializer only in some formats.
WorkStart(w) ==
  LET h == target[w] IN
  /\ phase[w] = "queued"
  /\ phase' = [phase EXCEPT ![w] = "reading"]
  /\ reads' = [reads EXCEPT ![w] = roaring[h]]
  /\ torn' = IF kind[h] = "dead" \/ mem[roaring[h]] = "freed" THEN torn \cup {w} ELSE torn
  /\ \E asksSize \in BOOLEAN :
       /\ asksSize \/ w \in Pinning
       /\ sizeRead' = [sizeRead EXCEPT ![w] =
            IF asksSize /\ sizeCache[h] = UNKNOWN /\ sizeCache[Root(h)] = UNKNOWN
              THEN Cardinality(set[roaring[Root(h)]]) ELSE UNKNOWN]
  /\ UNCHANGED <<objectVars, held, nativeVars, target, stale, call>>

\* getSize() stores the size it computed in the object it asked, from the
\* pool thread and without synchronisation.
WorkStoreSize(w) ==
  /\ phase[w] = "reading"
  /\ sizeRead[w] # UNKNOWN
  /\ sizeCache' = [sizeCache EXCEPT ![Root(target[w])] = sizeRead[w]]
  /\ sizeRead' = [sizeRead EXCEPT ![w] = UNKNOWN]
  /\ UNCHANGED <<kind, roaring, frozenCounter, viewOf, viewCache, held,
                 nativeVars, phase, target, reads, torn, stale, call>>

WorkEnd(w) ==
  /\ phase[w] = "reading"
  /\ sizeRead[w] = UNKNOWN
  /\ phase' = [phase EXCEPT ![w] = "ended"]
  /\ reads' = [reads EXCEPT ![w] = None]
  /\ UNCHANGED <<objectVars, held, nativeVars, target, sizeRead, torn, stale, call>>

\* _complete on the main thread, from the event loop: finally() ends the
\* freeze, and serializeFileAsync resolves to the bitmap itself.
AsyncDone(w) ==
  LET h == target[w] IN
  /\ phase[w] = "ended"
  /\ call = NoCall
  /\ phase' = [phase EXCEPT ![w] = "idle"]
  /\ target' = [target EXCEPT ![w] = None]
  /\ frozenCounter' = [frozenCounter EXCEPT ![h] = AfterEndFreeze(h)]
  /\ \E result \in SUBSET {h} :
       /\ result # {} => w \in Pinning
       /\ held' = held \cup result
  /\ torn' = torn \ {w}
  /\ UNCHANGED <<kind, roaring, sizeCache, viewOf, viewCache, nativeVars, reads,
                 sizeRead, stale, call>>
-----------------------------------------------------------------------------
(* Buffered iterators.                                                      *)

OpenCursor(c, h) ==
  /\ Callable(h)
  /\ kind[h] = "view" => "cursorOnView" \in Unguarded
  /\ reads[c] = None
  /\ reads' = [reads EXCEPT ![c] = roaring[h]]
  /\ target' = [target EXCEPT ![c] = h]
  /\ UNCHANGED <<objectVars, held, nativeVars, phase, sizeRead, torn, stale, call>>

\* close(), or fill() past the last value.
CursorEnd(c) ==
  /\ reads[c] # None
  /\ reads' = [reads EXCEPT ![c] = None]
  /\ target' = [target EXCEPT ![c] = None]
  /\ torn' = torn \ {c}
  /\ stale' = stale \ {c}
  /\ UNCHANGED <<objectVars, held, nativeVars, phase, sizeRead, call>>
-----------------------------------------------------------------------------
(* Garbage collection.                                                      *)

\* JavaScript forgets its last reference.
Drop(h) ==
  /\ h \in held
  /\ ViewsOf(h) = {} \/ "dropViewed" \in Unguarded
  /\ InFlight(h) \subseteq Pinning \/ "dropUnpinned" \in Unguarded
  /\ held' = held \ {h}
  /\ UNCHANGED <<objectVars, nativeVars, jobVars, torn, stale, call>>

\* A strong v8::Global or a running call keeps the object alive.  A view keeps
\* itself, by frozenStorage.bufferPersistent; it does not keep its bitmap.
Reachable(h) ==
  \/ h \in held
  \/ kind[h] = "view"
  \/ viewCache[h] = h
  \/ call.on = h
  \/ InFlight(h) \cap Pinning # {}
  \/ CursorsOn(h) # {}

\* The weak callback deletes the object and its native bitmap.  What a deleted
\* object or a freed bitmap holds is not tracked: the fields restart as in Init,
\* but roaring still shows where a dangling view points.
Collect(h) ==
  /\ kind[h] = "bitmap"
  /\ ~Reachable(h)
  /\ kind' = [kind EXCEPT ![h] = "dead"]
  /\ sizeCache' = [sizeCache EXCEPT ![h] = 0]
  /\ frozenCounter' = [frozenCounter EXCEPT ![h] = 0]
  /\ viewCache' = [viewCache EXCEPT ![h] = None]
  /\ mem' = [mem EXCEPT ![roaring[h]] = "freed"]
  /\ Write(roaring[h], {})
  /\ UNCHANGED <<roaring, viewOf, held, jobVars, stale, call>>
-----------------------------------------------------------------------------
Creation ==
  \/ \E h \in Handle, p \in Native, S \in SUBSET Value, frozen \in BOOLEAN :
       New(h, p, S, frozen)
  \/ \E h, v \in Handle : NewReadonly(h, v)
  \/ \E h \in Handle : AsReadonlyView(h)
  \/ \E h \in Handle : Freeze(h)

Mutation ==
  \/ \E h \in Handle, S \in SUBSET Value : Mutate(h, S)
  \/ \E h \in Handle : ElementsBegin(h)
  \/ \E v \in Value : ElementsNext(v)
  \/ ElementsEnd
  \/ \E h \in Handle, early \in BOOLEAN : BulkBegin(h, early)
  \/ \E S \in SUBSET Value : BulkEnd(S)
  \/ BulkThrow
  \/ \E h \in Handle : RunOptimize(h)
  \/ \E h \in Handle : RemoveRunCompression(h)
  \/ \E a, b \in Handle : Swap(a, b)
  \/ \E h \in Handle, p \in Native, S \in SUBSET Value, frozen \in BOOLEAN :
       Replace(h, p, S, frozen)
  \/ \E h \in Handle : ReadSize(h)

Reading ==
  \/ \E w \in Worker, h \in Handle : AsyncBegin(w, h)
  \/ \E w \in Worker : WorkStart(w)
  \/ \E w \in Worker : WorkStoreSize(w)
  \/ \E w \in Worker : WorkEnd(w)
  \/ \E w \in Worker : AsyncDone(w)
  \/ \E c \in Cursor, h \in Handle : OpenCursor(c, h)
  \/ \E c \in Cursor : CursorEnd(c)

Collection ==
  \/ \E h \in Handle : Drop(h)
  \/ \E h \in Handle : Collect(h)

Next == Creation \/ Mutation \/ Reading \/ Collection

Spec == Init /\ [][Next]_vars
-----------------------------------------------------------------------------
(* Properties of every use, whatever the user does.                         *)

\* Ownership: every live native bitmap belongs to exactly one object that V8
\* has not collected, and such an object never points to a freed one: swap,
\* deserialize and the weak callback neither leak nor free twice.
Ownership ==
  /\ \A h \in Handle : kind[h] = "bitmap" => mem[roaring[h]] = "live"
  /\ \A p \in Native : mem[p] = "live" =>
       \E h \in Handle : kind[h] = "bitmap" /\ roaring[h] = p
  /\ \A g, h \in Handle :
       kind[g] = "bitmap" /\ kind[h] = "bitmap" /\ roaring[g] = roaring[h] => g = h

\* beginFreeze and endFreeze pair up: a bitmap that is not frozen for ever is
\* frozen by exactly its asynchronous jobs in flight, so it is usable again
\* when, and only when, the last of them is done.
FreezeBalance ==
  \A h \in Handle : kind[h] = "bitmap" /\ frozenCounter[h] >= 0 =>
    frozenCounter[h] = Cardinality(InFlight(h))

\* "A bitmap cannot be unfrozen": neither the end of a job nor a call that was
\* suspended when freeze() was called clears a for-ever mark.
NeverUnfrozen ==
  [][\A h \in Handle : Alive(h) /\ IsFrozenForever(h) /\ kind'[h] # "dead"
       => IsFrozenForever(h)']_vars

(* Properties of the uses the code is designed for: Unguarded = {}.         *)

\* "The bitmap will be temporarily frozen until the operation completes":
\* nothing writes or frees the native bitmap a pool thread is reading.
WorkersReadUndisturbed == torn \cap Worker = {}

\* A cursor whose native bitmap was written or freed finds a different version
\* at its next fill, once the call that wrote has returned.
CursorsDetectChange ==
  \A c \in Cursor : reads[c] # None /\ c \in torn =>
    c \in stale \/ call.on = target[c]

\* A cached cardinality is the cardinality, although pool threads store into
\* the cache too, except inside a suspended call that will invalidate it.
SizeCacheCoherent ==
  \A h \in Handle : kind[h] = "bitmap" /\ sizeCache[h] # UNKNOWN =>
    sizeCache[h] = Cardinality(set[roaring[h]]) \/ call.on = h

\* "If the first bitmap is modified the readonlyView bitmap one will be
\* modified too": a view and its bitmap share one native bitmap for ever.
ViewFollowsBitmap ==
  \A v \in Handle : kind[v] = "view" =>
    kind[viewOf[v]] = "bitmap" /\ roaring[v] = roaring[viewOf[v]]

\* "A read-only bitmap cannot be modified": once frozen for ever, a bitmap
\* keeps its native bitmap and its content until it is collected.
FrozenForeverUnchanged ==
  [][\A h \in Handle : kind[h] = "bitmap" /\ IsFrozenForever(h) /\ kind'[h] = "bitmap" =>
       /\ frozenCounter'[h] = frozenCounter[h]
       /\ roaring'[h] = roaring[h]
       /\ set'[roaring[h]] = set[roaring[h]]]_vars
=============================================================================
