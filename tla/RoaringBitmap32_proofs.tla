----------------------- MODULE RoaringBitmap32_proofs -----------------------
(***************************************************************************)
(* Theorems about RoaringBitmap32, for any number of objects, native       *)
(* bitmaps, jobs and cursors, whatever the user does.                      *)
(***************************************************************************)
EXTENDS RoaringBitmap32, FiniteSetTheorems, TLAPS

\* What the pointers between objects, jobs and calls always point to.
Wellformed ==
  /\ \A h \in Handle : kind[h] # "unborn" => roaring[h] \in Native
  /\ \A v \in Handle : viewOf[v] # None => kind[viewOf[v]] # "unborn"
  /\ \A v \in Handle : kind[v] = "view" => frozenCounter[v] = HARD_FROZEN
  /\ \A h \in Handle : kind[h] # "view" => viewOf[h] = None
  /\ \A h \in Handle : viewCache[h] # None => kind[h] # "unborn"
  /\ \A h \in Handle : viewCache[h] \notin {None, h} => kind[viewCache[h]] = "view"
  /\ \A h \in held : Alive(h)
  /\ \A w \in Worker : phase[w] # "idle" =>
       target[w] \in Handle /\ kind[target[w]] # "unborn"
  /\ \A w \in Pinning : phase[w] # "idle" => Alive(target[w])
  /\ call.op # "none" => call.on \in Handle /\ Alive(call.on)
  /\ call.op = "elements" => call.ptr \in Native

Inv == TypeOK /\ Wellformed

(* A cardinality stored in a cache is a number. *)
LEMMA ContentSize ==
  ASSUME TypeOK, NEW p \in Native
  PROVE  Cardinality(set[p]) \in Nat
<1>1. set[p] \subseteq Value
  BY DEF TypeOK
<1>2. IsFiniteSet(set[p])
  BY <1>1, Assumption, FS_Subset
<1> QED
  BY <1>2, FS_CardinalityType

(* The object that knows the size of h has a native bitmap. *)
LEMMA RootIsBorn ==
  ASSUME Inv, NEW h \in Handle, kind[h] # "unborn"
  PROVE  Root(h) \in Handle /\ roaring[Root(h)] \in Native
  BY Assumption DEF Inv, TypeOK, Wellformed, Root

LEMMA InitInv == Init => Inv
  BY Assumption DEF Init, Inv, TypeOK, Wellformed, NoCall, Call, Alive, Reader, UNKNOWN

LEMMA NextInv == Inv /\ [Next]_vars => Inv'
<1> SUFFICES ASSUME Inv, [Next]_vars PROVE Inv'
  OBVIOUS
<1> USE Assumption DEF Inv
<1>1. ASSUME NEW h \in Handle, NEW p \in Native, NEW S \in SUBSET Value,
             NEW frozen \in BOOLEAN, New(h, p, S, frozen)
      PROVE  Inv'
  <2>1. TypeOK'
    BY <1>1 DEF New, TypeOK, jobVars, UNKNOWN, HARD_FROZEN
  <2>2. Wellformed'
    BY <1>1 DEF New, TypeOK, Wellformed, Alive, jobVars
  <2> QED BY <2>1, <2>2
<1>2. ASSUME NEW h \in Handle, NEW v \in Handle, NewReadonly(h, v)
      PROVE  Inv'
  <2>1. TypeOK'
    BY <1>2 DEF NewReadonly, TypeOK, Callable, MakeView, Root, Alive,
          nativeVars, jobVars, Wellformed, UNKNOWN, HARD_FROZEN
  <2>2. Wellformed'
    BY <1>2 DEF NewReadonly, TypeOK, Wellformed, Alive, Callable, MakeView,
          Root, nativeVars, jobVars
  <2> QED BY <2>1, <2>2
<1>3. ASSUME NEW h \in Handle, AsReadonlyView(h)
      PROVE  Inv'
  <2>1. TypeOK'
    BY <1>3 DEF AsReadonlyView, TypeOK, Callable, CachedView, ViewOfFrozen,
          FirstView, MakeView, Root, Alive, objectVars, nativeVars, jobVars,
          Wellformed, UNKNOWN, HARD_FROZEN
  <2>2. Wellformed'
    BY <1>3 DEF AsReadonlyView, TypeOK, Wellformed, Alive, Callable,
          CachedView, ViewOfFrozen, FirstView, MakeView, Root, objectVars,
          nativeVars, jobVars
  <2> QED BY <2>1, <2>2
<1>4. ASSUME NEW h \in Handle, Freeze(h)
      PROVE  Inv'
  <2>1. TypeOK'
    BY <1>4 DEF Freeze, TypeOK, Callable, nativeVars, jobVars, SOFT_FROZEN
  <2>2. Wellformed'
    BY <1>4 DEF Freeze, TypeOK, Wellformed, Alive, Callable, nativeVars,
          jobVars, HARD_FROZEN
  <2> QED BY <2>1, <2>2
<1>5. ASSUME NEW h \in Handle, NEW S \in SUBSET Value, Mutate(h, S)
      PROVE  Inv'
  <2>1. TypeOK'
    BY <1>5 DEF Mutate, TypeOK, Callable, Write, Disturb, Invalidate,
          CursorsOn, jobVars, UNKNOWN
  <2>2. Wellformed'
    BY <1>5 DEF Mutate, TypeOK, Wellformed, Alive, Callable, Write, Disturb,
          Invalidate, CursorsOn, jobVars
  <2> QED BY <2>1, <2>2
<1>6. ASSUME NEW h \in Handle, ElementsBegin(h)
      PROVE  Inv'
  <2>1. TypeOK'
    BY <1>6 DEF ElementsBegin, TypeOK, Callable, objectVars, nativeVars,
          jobVars, Call, Wellformed, Alive
  <2>2. Wellformed'
    BY <1>6 DEF ElementsBegin, TypeOK, Wellformed, Alive, Callable,
          objectVars, nativeVars, jobVars
  <2> QED BY <2>1, <2>2
<1>7. ASSUME NEW v \in Value, ElementsNext(v)
      PROVE  Inv'
  <2>1. TypeOK'
    <3>1. PICK T : /\ T \in { set[call.ptr] \cup {v}, set[call.ptr] \ {v} }
                   /\ Write(call.ptr, T)
      BY <1>7 DEF ElementsNext
    <3>2. T \subseteq Value
      BY <1>7, <3>1 DEF ElementsNext, TypeOK, Wellformed
    <3>3. call' \in Call
      BY <1>7 DEF ElementsNext, TypeOK, Call
    <3> QED
      BY <1>7, <3>1, <3>2, <3>3 DEF ElementsNext, TypeOK, Write, Disturb,
          objectVars, jobVars
  <2>2. Wellformed'
    BY <1>7 DEF ElementsNext, TypeOK, Wellformed, Alive, Write, Disturb,
          objectVars, jobVars, Call
  <2> QED BY <2>1, <2>2
<1>8. ASSUME ElementsEnd
      PROVE  Inv'
  <2>1. TypeOK'
    BY <1>8 DEF ElementsEnd, TypeOK, Invalidate, CursorsOn, NoCall,
          nativeVars, jobVars, UNKNOWN, Call
  <2>2. Wellformed'
    BY <1>8 DEF ElementsEnd, TypeOK, Wellformed, Alive, Invalidate, CursorsOn,
          NoCall, nativeVars, jobVars
  <2> QED BY <2>1, <2>2
<1>9. ASSUME NEW h \in Handle, NEW early \in BOOLEAN, BulkBegin(h, early)
      PROVE  Inv'
  <2>1. TypeOK'
    BY <1>9 DEF BulkBegin, TypeOK, Callable, Invalidate, CursorsOn,
          nativeVars, jobVars, UNKNOWN, Call
  <2>2. Wellformed'
    BY <1>9 DEF BulkBegin, TypeOK, Wellformed, Alive, Callable, Invalidate,
          CursorsOn, nativeVars, jobVars
  <2> QED BY <2>1, <2>2
<1>10. ASSUME NEW S \in SUBSET Value, BulkEnd(S)
       PROVE  Inv'
  <2>1. TypeOK'
    BY <1>10 DEF BulkEnd, TypeOK, Write, Disturb, Invalidate, CursorsOn,
          NoCall, jobVars, UNKNOWN, Call
  <2>2. Wellformed'
    BY <1>10 DEF BulkEnd, TypeOK, Wellformed, Alive, Write, Disturb,
          Invalidate, CursorsOn, NoCall, jobVars
  <2> QED BY <2>1, <2>2
<1>11. ASSUME BulkThrow
       PROVE  Inv'
  <2>1. TypeOK'
    BY <1>11 DEF BulkThrow, TypeOK, NoCall, objectVars, nativeVars, jobVars,
          Call
  <2>2. Wellformed'
    BY <1>11 DEF BulkThrow, TypeOK, Wellformed, Alive, NoCall, objectVars,
          nativeVars, jobVars
  <2> QED BY <2>1, <2>2
<1>12. ASSUME NEW h \in Handle, RunOptimize(h)
       PROVE  Inv'
  <2>1. TypeOK'
    BY <1>12 DEF RunOptimize, TypeOK, LayoutAllowed, Callable, Disturb,
          objectVars, nativeVars, jobVars
  <2>2. Wellformed'
    BY <1>12 DEF RunOptimize, TypeOK, Wellformed, Alive, LayoutAllowed,
          Callable, Disturb, objectVars, nativeVars, jobVars
  <2> QED BY <2>1, <2>2
<1>13. ASSUME NEW h \in Handle, RemoveRunCompression(h)
       PROVE  Inv'
  <2>1. TypeOK'
    BY <1>13 DEF RemoveRunCompression, TypeOK, LayoutAllowed, Callable,
          Disturb, Invalidate, CursorsOn, nativeVars, jobVars, UNKNOWN
  <2>2. Wellformed'
    BY <1>13 DEF RemoveRunCompression, TypeOK, Wellformed, Alive,
          LayoutAllowed, Callable, Disturb, Invalidate, CursorsOn, nativeVars,
          jobVars
  <2> QED BY <2>1, <2>2
<1>14. ASSUME NEW a \in Handle, NEW b \in Handle, Swap(a, b)
       PROVE  Inv'
  <2>1. TypeOK'
    BY <1>14 DEF Swap, TypeOK, ReplaceAllowed, Callable, CursorsOn,
          nativeVars, jobVars, UNKNOWN
  <2>2. Wellformed'
    BY <1>14 DEF Swap, TypeOK, Wellformed, Alive, ReplaceAllowed, Callable,
          CursorsOn, nativeVars, jobVars
  <2> QED BY <2>1, <2>2
<1>15. ASSUME NEW h \in Handle, NEW p \in Native, NEW S \in SUBSET Value,
              NEW frozen \in BOOLEAN, Replace(h, p, S, frozen)
       PROVE  Inv'
  <2>1. TypeOK'
    BY <1>15 DEF Replace, TypeOK, ReplaceAllowed, Callable, Disturb,
          Invalidate, CursorsOn, jobVars, UNKNOWN, HARD_FROZEN
  <2>2. Wellformed'
    BY <1>15 DEF Replace, TypeOK, Wellformed, Alive, ReplaceAllowed, Callable,
          Disturb, Invalidate, CursorsOn, jobVars
  <2> QED BY <2>1, <2>2
<1>16. ASSUME NEW h \in Handle, ReadSize(h)
       PROVE  Inv'
  <2>1. TypeOK'
    BY <1>16, ContentSize, RootIsBorn DEF ReadSize, TypeOK, Callable,
          nativeVars, jobVars, Wellformed, Alive
  <2>2. Wellformed'
    BY <1>16 DEF ReadSize, TypeOK, Wellformed, Alive, Callable, nativeVars,
          jobVars
  <2> QED BY <2>1, <2>2
<1>17. ASSUME NEW w \in Worker, NEW h \in Handle, AsyncBegin(w, h)
       PROVE  Inv'
  <2>1. TypeOK'
    BY <1>17 DEF AsyncBegin, TypeOK, Callable, AfterBeginFreeze, nativeVars,
          Reader, SOFT_FROZEN, HARD_FROZEN
  <2>2. Wellformed'
    BY <1>17 DEF AsyncBegin, TypeOK, Wellformed, Alive, Callable,
          AfterBeginFreeze, nativeVars, Reader, HARD_FROZEN, SOFT_FROZEN
  <2> QED BY <2>1, <2>2
<1>18. ASSUME NEW w \in Worker, WorkStart(w)
       PROVE  Inv'
  <2>1. TypeOK'
    BY <1>18, ContentSize, RootIsBorn DEF WorkStart, TypeOK, objectVars,
          nativeVars, Wellformed, Reader, UNKNOWN
  <2>2. Wellformed'
    BY <1>18 DEF WorkStart, TypeOK, Wellformed, Alive, objectVars, nativeVars
  <2> QED BY <2>1, <2>2
<1>19. ASSUME NEW w \in Worker, WorkStoreSize(w)
       PROVE  Inv'
  <2>1. TypeOK'
    BY <1>19 DEF WorkStoreSize, TypeOK, Root, nativeVars, Reader, UNKNOWN
  <2>2. Wellformed'
    BY <1>19 DEF WorkStoreSize, TypeOK, Wellformed, Alive, Root, nativeVars
  <2> QED BY <2>1, <2>2
<1>20. ASSUME NEW w \in Worker, WorkEnd(w)
       PROVE  Inv'
  <2>1. TypeOK'
    BY <1>20 DEF WorkEnd, TypeOK, objectVars, nativeVars, Reader
  <2>2. Wellformed'
    BY <1>20 DEF WorkEnd, TypeOK, Wellformed, Alive, objectVars, nativeVars
  <2> QED BY <2>1, <2>2
<1>21. ASSUME NEW w \in Worker, AsyncDone(w)
       PROVE  Inv'
  <2>1. TypeOK'
    BY <1>21 DEF AsyncDone, TypeOK, AfterEndFreeze, nativeVars, Wellformed,
          Reader, SOFT_FROZEN, HARD_FROZEN
  <2>2. Wellformed'
    BY <1>21 DEF AsyncDone, TypeOK, Wellformed, Alive, AfterEndFreeze,
          nativeVars, Reader, SOFT_FROZEN, HARD_FROZEN
  <2> QED BY <2>1, <2>2
<1>22. ASSUME NEW c \in Cursor, NEW h \in Handle, OpenCursor(c, h)
       PROVE  Inv'
  <2>1. TypeOK'
    BY <1>22 DEF OpenCursor, TypeOK, Callable, objectVars, nativeVars, Reader
  <2>2. Wellformed'
    BY <1>22 DEF OpenCursor, TypeOK, Wellformed, Alive, Callable, objectVars,
          nativeVars, Reader
  <2> QED BY <2>1, <2>2
<1>23. ASSUME NEW c \in Cursor, CursorEnd(c)
       PROVE  Inv'
  <2>1. TypeOK'
    BY <1>23 DEF CursorEnd, TypeOK, objectVars, nativeVars, Reader
  <2>2. Wellformed'
    BY <1>23 DEF CursorEnd, TypeOK, Wellformed, Alive, objectVars, nativeVars,
          Reader
  <2> QED BY <2>1, <2>2
<1>24. ASSUME NEW h \in Handle, Drop(h)
       PROVE  Inv'
  <2>1. TypeOK'
    BY <1>24 DEF Drop, TypeOK, objectVars, nativeVars, jobVars
  <2>2. Wellformed'
    BY <1>24 DEF Drop, TypeOK, Wellformed, Alive, objectVars, nativeVars,
          jobVars
  <2> QED BY <2>1, <2>2
<1>25. ASSUME NEW h \in Handle, Collect(h)
       PROVE  Inv'
  <2>1. TypeOK'
    BY <1>25 DEF Collect, TypeOK, Reachable, InFlight, Write, Disturb,
          jobVars, Reader
  <2>2. Wellformed'
    BY <1>25 DEF Collect, TypeOK, Wellformed, Alive, Reachable, InFlight,
          Write, Disturb, jobVars
  <2> QED BY <2>1, <2>2
<1>26. CASE UNCHANGED vars
  BY <1>26 DEF vars, objectVars, nativeVars, jobVars, TypeOK, Wellformed, Alive
<1> QED
  BY <1>1, <1>2, <1>3, <1>4, <1>5, <1>6, <1>7, <1>8, <1>9, <1>10, <1>11, <1>12, <1>13, <1>14, <1>15, <1>16, <1>17, <1>18, <1>19, <1>20, <1>21, <1>22, <1>23, <1>24, <1>25, <1>26 DEF Next, Creation, Mutation, Reading, Collection

LEMMA Invariance == Spec => []Inv
  BY InitInv, NextInv, PTL DEF Spec

(* Every variable keeps its type: no counter drops below the two marks, no  *)
(* object, job or suspended call points outside the objects ever made.      *)
THEOREM TypeCorrect == Spec => []TypeOK
  BY Invariance, PTL DEF Inv
-----------------------------------------------------------------------------
(* Ownership: only six actions move, make or free a native bitmap.          *)

LEMMA CreationOwnership == Inv /\ Ownership /\ Creation => Ownership'
<1> SUFFICES ASSUME Inv, Ownership, Creation PROVE Ownership'
  OBVIOUS
<1> USE DEF Inv, TypeOK, Ownership
<1>1. ASSUME NEW h \in Handle, NEW p \in Native, NEW S \in SUBSET Value,
             NEW frozen \in BOOLEAN, New(h, p, S, frozen)
      PROVE  Ownership'
  BY <1>1 DEF New
<1>2. ASSUME NEW h \in Handle, NEW v \in Handle, MakeView(h, v), UNCHANGED mem
      PROVE  Ownership'
  BY <1>2 DEF MakeView
<1>3. ASSUME NEW h \in Handle, NEW v \in Handle, NewReadonly(h, v)
      PROVE  Ownership'
  BY <1>2, <1>3 DEF NewReadonly, nativeVars
<1>4. ASSUME NEW h \in Handle, AsReadonlyView(h)
      PROVE  Ownership'
  <2>1. CASE FirstView(h)
    BY <1>2, <1>4, <2>1 DEF AsReadonlyView, FirstView, nativeVars
  <2>2. CASE CachedView(h) \/ ViewOfFrozen(h)
    BY <1>4, <2>2 DEF AsReadonlyView, CachedView, ViewOfFrozen, objectVars, nativeVars
  <2> QED BY <1>4, <2>1, <2>2 DEF AsReadonlyView
<1>5. ASSUME NEW h \in Handle, Freeze(h)
      PROVE  Ownership'
  BY <1>5 DEF Freeze, nativeVars
<1> HIDE DEF Inv, TypeOK, Ownership
<1> QED
  BY <1>1, <1>3, <1>4, <1>5 DEF Creation

LEMMA SwapOwnership ==
  ASSUME Inv, Ownership, NEW a \in Handle, NEW b \in Handle, Swap(a, b)
  PROVE  Ownership'
<1>1. kind[a] = "bitmap" /\ kind[b] = "bitmap" /\ a # b
  BY DEF Inv, Wellformed, Alive, Swap, ReplaceAllowed, Callable, IsFrozen, HARD_FROZEN
<1>2. /\ roaring' = [roaring EXCEPT ![a] = roaring[b], ![b] = roaring[a]]
      /\ UNCHANGED <<kind, mem>>
  BY DEF Swap, nativeVars
<1> QED
  BY <1>1, <1>2 DEF Inv, TypeOK, Ownership

LEMMA ReplaceOwnership ==
  ASSUME Inv, Ownership, NEW h \in Handle, NEW p \in Native, NEW S \in SUBSET Value,
         NEW frozen \in BOOLEAN, Replace(h, p, S, frozen)
  PROVE  Ownership'
<1>1. kind[h] = "bitmap"
  BY DEF Inv, Wellformed, Alive, Replace, ReplaceAllowed, Callable, IsFrozen, HARD_FROZEN
<1>2. /\ mem[p] = "unused"
      /\ mem' = [mem EXCEPT ![roaring[h]] = "freed", ![p] = "live"]
      /\ roaring' = [roaring EXCEPT ![h] = p]
      /\ UNCHANGED kind
  BY DEF Replace
<1>3. roaring[h] \in Native /\ roaring[h] # p
  BY <1>1, <1>2 DEF Inv, Wellformed, Ownership
<1>4. \A g \in Handle : kind'[g] = "bitmap" =>
        roaring'[g] = IF g = h THEN p ELSE roaring[g]
  BY <1>2 DEF Inv, TypeOK
<1>5. \A g \in Handle \ {h} : kind'[g] = "bitmap" =>
        /\ mem[roaring[g]] = "live"
        /\ roaring[g] \in Native \ {p, roaring[h]}
  BY <1>1, <1>2 DEF Inv, Wellformed, Ownership
<1>6. \A q \in Native : mem'[q] =
        IF q = p THEN "live" ELSE IF q = roaring[h] THEN "freed" ELSE mem[q]
  BY <1>2, <1>3 DEF Inv, TypeOK
<1>7. \A g \in Handle : kind'[g] = "bitmap" => mem'[roaring'[g]] = "live"
  BY <1>4, <1>5, <1>6
<1>8. ASSUME NEW q \in Native, mem'[q] = "live"
      PROVE  \E g \in Handle : kind'[g] = "bitmap" /\ roaring'[g] = q
  <2>1. CASE q = p
    BY <1>1, <1>2, <1>4, <2>1
  <2>2. CASE q # p
    <3>1. mem[q] = "live" /\ q # roaring[h]
      BY <1>6, <1>8, <2>2
    <3>2. PICK g \in Handle : kind[g] = "bitmap" /\ roaring[g] = q
      BY <3>1 DEF Ownership
    <3> QED BY <1>2, <1>4, <3>1, <3>2
  <2> QED BY <2>1, <2>2
<1>9. \A f, g \in Handle :
        kind'[f] = "bitmap" /\ kind'[g] = "bitmap" /\ roaring'[f] = roaring'[g] => f = g
  BY <1>2, <1>4, <1>5 DEF Ownership
<1> QED
  BY <1>7, <1>8, <1>9 DEF Ownership

LEMMA CollectOwnership ==
  ASSUME Inv, Ownership, NEW h \in Handle, Collect(h)
  PROVE  Ownership'
<1>1. /\ kind[h] = "bitmap"
      /\ kind' = [kind EXCEPT ![h] = "dead"]
      /\ mem' = [mem EXCEPT ![roaring[h]] = "freed"]
      /\ UNCHANGED roaring
  BY DEF Collect
<1> QED
  BY <1>1 DEF Inv, TypeOK, Wellformed, Ownership

LEMMA NextOwnership == Inv /\ Ownership /\ [Next]_vars => Ownership'
<1> SUFFICES ASSUME Inv, Ownership, [Next]_vars PROVE Ownership'
  OBVIOUS
<1>1. UNCHANGED <<kind, roaring, mem>> => Ownership'
  BY DEF Ownership
<1>2. CASE Creation
  BY <1>2, CreationOwnership
<1>3. CASE Mutation
  BY <1>1, <1>3, SwapOwnership, ReplaceOwnership
     DEF Mutation, Mutate, ElementsBegin, ElementsNext, ElementsEnd, BulkBegin,
         BulkEnd, BulkThrow, RunOptimize, RemoveRunCompression, ReadSize,
         objectVars, nativeVars
<1>4. CASE Reading
  BY <1>1, <1>4
     DEF Reading, AsyncBegin, WorkStart, WorkStoreSize, WorkEnd, AsyncDone,
         OpenCursor, CursorEnd, objectVars, nativeVars
<1>5. CASE Collection
  BY <1>1, <1>5, CollectOwnership DEF Collection, Drop, objectVars, nativeVars
<1>6. CASE UNCHANGED vars
  BY <1>1, <1>6 DEF vars, objectVars, nativeVars
<1> QED
  BY <1>2, <1>3, <1>4, <1>5, <1>6 DEF Next

(* No native bitmap is leaked, freed twice or shared by two owners.         *)
THEOREM OwnershipInvariant == Spec => []Ownership
<1>1. Init => Ownership
  BY DEF Init, Ownership
<1> QED
  BY <1>1, Invariance, NextOwnership, PTL DEF Spec
-----------------------------------------------------------------------------
(* FreezeBalance: the counter and the set of jobs move together.            *)

LEMMA InFlightFinite ==
  ASSUME NEW h
  PROVE  /\ IsFiniteSet(InFlight(h))
         /\ Cardinality(InFlight(h)) \in Nat
<1>1. InFlight(h) \subseteq Worker
  BY DEF InFlight
<1> QED
  BY <1>1, Assumption, FS_Subset, FS_CardinalityType

LEMMA AsyncBeginBalance ==
  ASSUME Inv, FreezeBalance, NEW w \in Worker, NEW h \in Handle, AsyncBegin(w, h)
  PROVE  FreezeBalance'
<1>1. w \notin InFlight(h)
  BY DEF AsyncBegin, InFlight
<1>2. InFlight(h)' = InFlight(h) \cup {w}
  BY DEF AsyncBegin, InFlight, Inv, TypeOK, Reader
<1>3. Cardinality(InFlight(h)') = Cardinality(InFlight(h)) + 1
  BY <1>1, <1>2, InFlightFinite, FS_AddElement
<1>4. \A g \in Handle \ {h} : InFlight(g)' = InFlight(g)
  BY DEF AsyncBegin, InFlight, Inv, TypeOK, Reader
<1>5. /\ kind' = kind
      /\ frozenCounter' = [frozenCounter EXCEPT ![h] =
           IF frozenCounter[h] >= 0 THEN frozenCounter[h] + 1 ELSE frozenCounter[h]]
  BY DEF AsyncBegin, AfterBeginFreeze
<1>6. frozenCounter \in [Handle -> Int]
  BY DEF Inv, TypeOK, SOFT_FROZEN, HARD_FROZEN
<1> QED
  BY <1>3, <1>4, <1>5, <1>6, InFlightFinite DEF FreezeBalance

LEMMA AsyncDoneBalance ==
  ASSUME Inv, FreezeBalance, NEW w \in Worker, AsyncDone(w)
  PROVE  FreezeBalance'
<1>1. PICK h \in Handle : h = target[w] /\ w \in InFlight(h)
  BY DEF AsyncDone, InFlight, Inv, Wellformed
<1>2. InFlight(h)' = InFlight(h) \ {w}
  BY <1>1 DEF AsyncDone, InFlight, Inv, TypeOK, Reader
<1>3. Cardinality(InFlight(h)') = Cardinality(InFlight(h)) - 1
  BY <1>1, <1>2, InFlightFinite, FS_RemoveElement
<1>4. \A g \in Handle \ {h} : InFlight(g)' = InFlight(g)
  BY <1>1, Assumption DEF AsyncDone, InFlight, Inv, TypeOK, Reader
<1>5. /\ kind' = kind
      /\ frozenCounter' = [frozenCounter EXCEPT ![h] =
           IF frozenCounter[h] > 0 THEN frozenCounter[h] - 1 ELSE frozenCounter[h]]
  BY <1>1 DEF AsyncDone, AfterEndFreeze
<1>6. frozenCounter \in [Handle -> Int]
  BY DEF Inv, TypeOK, SOFT_FROZEN, HARD_FROZEN
<1>7. Cardinality(InFlight(h)) \in Nat /\ Cardinality(InFlight(h)') \in Nat
  BY <1>2, InFlightFinite, FS_RemoveElement, FS_CardinalityType
<1>8. ASSUME NEW g \in Handle, kind'[g] = "bitmap", frozenCounter'[g] >= 0
      PROVE  frozenCounter'[g] = Cardinality(InFlight(g)')
  <2>1. CASE g = h
    BY <1>1, <1>3, <1>5, <1>6, <1>7, <1>8, <2>1 DEF FreezeBalance
  <2>2. CASE g # h
    BY <1>4, <1>5, <1>6, <1>8, <2>2 DEF FreezeBalance
  <2> QED BY <2>1, <2>2
<1> QED
  BY <1>8 DEF FreezeBalance

(* A new object has no job, so its counter may start at zero. *)
LEMMA CreationBalance == Inv /\ FreezeBalance /\ Creation => FreezeBalance'
<1> SUFFICES ASSUME Inv, FreezeBalance, Creation PROVE FreezeBalance'
  OBVIOUS
<1>1. ASSUME UNCHANGED jobVars PROVE \A h \in Handle : InFlight(h)' = InFlight(h)
  BY <1>1 DEF jobVars, InFlight
<1>2. ASSUME NEW h \in Handle, NEW p \in Native, NEW S \in SUBSET Value,
             NEW frozen \in BOOLEAN, New(h, p, S, frozen)
      PROVE  FreezeBalance'
  <2>1. InFlight(h) = {}
    BY <1>2 DEF New, InFlight, Inv, Wellformed
  <2>2. Cardinality(InFlight(h)) = 0
    BY <2>1, FS_EmptySet
  <2> QED
    BY <1>1, <1>2, <2>2 DEF New, Inv, TypeOK, FreezeBalance, HARD_FROZEN
<1>3. ASSUME NEW h \in Handle, NEW v \in Handle, MakeView(h, v), UNCHANGED jobVars
      PROVE  FreezeBalance'
  BY <1>1, <1>3 DEF MakeView, Inv, TypeOK, FreezeBalance
<1>4. ASSUME NEW h \in Handle, NEW v \in Handle, NewReadonly(h, v)
      PROVE  FreezeBalance'
  BY <1>3, <1>4 DEF NewReadonly
<1>5. ASSUME NEW h \in Handle, AsReadonlyView(h)
      PROVE  FreezeBalance'
  <2>1. CASE FirstView(h)
    BY <1>3, <1>5, <2>1 DEF AsReadonlyView, FirstView
  <2>2. CASE CachedView(h) \/ ViewOfFrozen(h)
    BY <1>1, <1>5, <2>2 DEF AsReadonlyView, CachedView, ViewOfFrozen, objectVars, FreezeBalance
  <2> QED BY <1>5, <2>1, <2>2 DEF AsReadonlyView
<1>6. ASSUME NEW h \in Handle, Freeze(h)
      PROVE  FreezeBalance'
  BY <1>1, <1>6 DEF Freeze, Inv, TypeOK, FreezeBalance, SOFT_FROZEN
<1> QED
  BY <1>2, <1>4, <1>5, <1>6 DEF Creation

LEMMA NextBalance == Inv /\ FreezeBalance /\ [Next]_vars => FreezeBalance'
<1> SUFFICES ASSUME Inv, FreezeBalance, [Next]_vars PROVE FreezeBalance'
  OBVIOUS
<1>1. ASSUME UNCHANGED <<kind, frozenCounter>>,
             \A h \in Handle : InFlight(h)' = InFlight(h)
      PROVE  FreezeBalance'
  BY <1>1 DEF FreezeBalance
<1>2. UNCHANGED <<phase, target>> => \A h \in Handle : InFlight(h)' = InFlight(h)
  BY DEF InFlight
<1>3. CASE Creation
  BY <1>3, CreationBalance
<1>4. CASE Mutation
  <2>1. ASSUME NEW h \in Handle, NEW p \in Native, NEW S \in SUBSET Value,
               NEW frozen \in BOOLEAN, Replace(h, p, S, frozen)
        PROVE  FreezeBalance'
    BY <1>2, <2>1 DEF Replace, jobVars, Inv, TypeOK, FreezeBalance, HARD_FROZEN
  <2> QED
    BY <1>1, <1>2, <1>4, <2>1
       DEF Mutation, Mutate, ElementsBegin, ElementsNext, ElementsEnd, BulkBegin,
           BulkEnd, BulkThrow, RunOptimize, RemoveRunCompression, Swap, ReadSize,
           objectVars, jobVars
<1>5. CASE Reading
  <2>1. ASSUME NEW w \in Worker, WorkStart(w) \/ WorkStoreSize(w) \/ WorkEnd(w)
        PROVE  FreezeBalance'
    <3>1. \A h \in Handle : InFlight(h)' = InFlight(h)
      BY <2>1 DEF WorkStart, WorkStoreSize, WorkEnd, InFlight, Inv, TypeOK
    <3> QED
      BY <1>1, <2>1, <3>1 DEF WorkStart, WorkStoreSize, WorkEnd, objectVars
  <2>2. ASSUME NEW c \in Cursor, NEW h \in Handle, OpenCursor(c, h)
        PROVE  FreezeBalance'
    <3>1. \A g \in Handle : InFlight(g)' = InFlight(g)
      BY <2>2, Assumption DEF OpenCursor, InFlight, Inv, TypeOK, Reader
    <3> QED
      BY <1>1, <2>2, <3>1 DEF OpenCursor, objectVars
  <2>3. ASSUME NEW c \in Cursor, CursorEnd(c)
        PROVE  FreezeBalance'
    <3>1. \A g \in Handle : InFlight(g)' = InFlight(g)
      BY <2>3, Assumption DEF CursorEnd, InFlight, Inv, TypeOK, Reader
    <3> QED
      BY <1>1, <2>3, <3>1 DEF CursorEnd, objectVars
  <2> QED
    BY <1>5, <2>1, <2>2, <2>3, AsyncBeginBalance, AsyncDoneBalance DEF Reading
<1>6. CASE Collection
  BY <1>1, <1>2, <1>6 DEF Collection, Drop, Collect, objectVars, jobVars, Inv, TypeOK, FreezeBalance
<1>7. CASE UNCHANGED vars
  BY <1>1, <1>2, <1>7 DEF vars, objectVars, jobVars
<1> QED
  BY <1>3, <1>4, <1>5, <1>6, <1>7 DEF Next

(* The freezes of jobs pair up for any number of jobs, bitmaps and calls.   *)
THEOREM FreezeBalanceInvariant == Spec => []FreezeBalance
<1>1. Init => FreezeBalance
  BY DEF Init, FreezeBalance
<1> QED
  BY <1>1, Invariance, NextBalance, PTL DEF Spec
-----------------------------------------------------------------------------
(* A for-ever mark outlives jobs and suspended calls.                       *)

LEMMA MarkStays ==
  ASSUME Inv, [Next]_vars, NEW h \in Handle, Alive(h), IsFrozenForever(h),
         kind'[h] # "dead"
  PROVE  IsFrozenForever(h)'
<1> USE DEF IsFrozenForever
<1>1. UNCHANGED frozenCounter => IsFrozenForever(h)'
  OBVIOUS
<1>2. frozenCounter \in [Handle -> Int]
  BY DEF Inv, TypeOK, SOFT_FROZEN, HARD_FROZEN
<1>3. CASE Creation
  BY <1>1, <1>2, <1>3
     DEF Creation, New, NewReadonly, AsReadonlyView, CachedView, ViewOfFrozen,
         FirstView, MakeView, Freeze, objectVars, Alive, HARD_FROZEN, SOFT_FROZEN
<1>4. CASE Mutation
  <2>1. ASSUME NEW g \in Handle, NEW p \in Native, NEW S \in SUBSET Value,
               NEW frozen \in BOOLEAN, Replace(g, p, S, frozen)
        PROVE  IsFrozenForever(h)'
    BY <1>2, <2>1 DEF Replace, HARD_FROZEN
  <2> QED
    BY <1>1, <1>4, <2>1
       DEF Mutation, Mutate, ElementsBegin, ElementsNext, ElementsEnd, BulkBegin,
           BulkEnd, BulkThrow, RunOptimize, RemoveRunCompression, Swap, ReadSize,
           objectVars
<1>5. CASE Reading
  BY <1>1, <1>2, <1>5
     DEF Reading, AsyncBegin, WorkStart, WorkStoreSize, WorkEnd, AsyncDone,
         OpenCursor, CursorEnd, AfterBeginFreeze, AfterEndFreeze, objectVars
<1>6. CASE Collection
  BY <1>1, <1>2, <1>6
     DEF Collection, Drop, Collect, objectVars, Inv, TypeOK
<1>7. CASE UNCHANGED vars
  BY <1>1, <1>7 DEF vars, objectVars
<1> QED
  BY <1>3, <1>4, <1>5, <1>6, <1>7 DEF Next

THEOREM NeverUnfrozenHolds == Spec => NeverUnfrozen
<1>1. Inv /\ [Next]_vars =>
        [\A h \in Handle : Alive(h) /\ IsFrozenForever(h) /\ kind'[h] # "dead"
           => IsFrozenForever(h)']_vars
  BY MarkStays
<1> QED
  BY <1>1, Invariance, PTL DEF Spec, NeverUnfrozen, Alive

-----------------------------------------------------------------------------
(* Theorems about RoaringBitmap32 for users who make none of the uses that *)
(* the code does not guard, for any number of objects, jobs and cursors.   *)

Base == Inv /\ Ownership /\ FreezeBalance

\* A job reads the native bitmap its target still owns, undisturbed, and the
\* target of a job that pins nothing is still referenced.
Jobs ==
  \A w \in Worker :
    /\ phase[w] # "idle" => /\ kind[target[w]] = "bitmap"
                            /\ w \notin Pinning => target[w] \in held
    /\ reads[w] # None => phase[w] = "reading"
    /\ phase[w] = "reading" => reads[w] = roaring[target[w]]
    /\ sizeRead[w] # UNKNOWN =>
         phase[w] = "reading" /\ sizeRead[w] = Cardinality(set[roaring[target[w]]])
    /\ w \notin torn

\* The bitmap of a suspended call stays as it was found: not frozen, and with
\* the native bitmap whose pointer the call holds.
Calls ==
  /\ call.op = "none" => call = NoCall
  /\ call.op # "none" => kind[call.on] = "bitmap" /\ frozenCounter[call.on] = 0
  /\ call.op = "elements" => call.ptr = roaring[call.on]

\* A suspended call has changed h and has not invalidated it yet.
Changing(h) == call.op = "elements" /\ call.changed /\ call.on = h

\* An open cursor keeps its bitmap, and is current unless its version is not.
Cursors ==
  \A c \in Cursor :
    /\ reads[c] # None => target[c] \in Handle /\ kind[target[c]] = "bitmap"
    /\ reads[c] # None /\ c \notin stale => reads[c] = roaring[target[c]]
    /\ c \in torn => c \in stale \/ Changing(target[c])
    /\ c \in torn \cup stale => reads[c] # None

Sizes ==
  \A h \in Handle : kind[h] = "bitmap" /\ sizeCache[h] # UNKNOWN /\ ~Changing(h) =>
    sizeCache[h] = Cardinality(set[roaring[h]])

Guarded == Jobs /\ Calls /\ Cursors /\ Sizes
-----------------------------------------------------------------------------
(* A bitmap that is not frozen is no job's target. *)
LEMMA NoJobs ==
  ASSUME Base, NEW h \in Handle, kind[h] = "bitmap", frozenCounter[h] = 0,
         NEW w \in Worker, phase[w] # "idle"
  PROVE  target[w] # h
<1>1. Cardinality(InFlight(h)) = 0
  BY DEF Base, FreezeBalance
<1>2. InFlight(h) = {}
  BY <1>1, InFlightFinite, FS_EmptySet
<1> QED
  BY <1>2 DEF InFlight

(* What a method that requires an unfrozen bitmap is called on. *)
LEMMA Unfrozen ==
  ASSUME Base, NEW h \in Handle, Callable(h), ~IsFrozen(h)
  PROVE  kind[h] = "bitmap" /\ frozenCounter[h] = 0
  BY DEF Base, Inv, Wellformed, Callable, Alive, IsFrozen, HARD_FROZEN

(* A method is never called on the bitmap of a suspended call. *)
LEMMA NotNested ==
  ASSUME Unguarded = {}, Base, NEW h \in Handle, Callable(h)
  PROVE  call.on # h /\ Alive(h) /\ h \in held
  BY DEF Callable, Base, Inv, Wellformed

(* A layout operation is only used on a bitmap that is not frozen at all. *)
LEMMA LayoutUnfrozen ==
  ASSUME Unguarded = {}, Base, NEW h \in Handle, LayoutAllowed(h)
  PROVE  kind[h] = "bitmap" /\ frozenCounter[h] = 0 /\ call.on # h
  BY NotNested DEF Base, Inv, TypeOK, Wellformed, LayoutAllowed, Alive, IsFrozenHard,
                   HARD_FROZEN, SOFT_FROZEN

(* What is written through one object is not seen through another. *)
LEMMA OthersKept ==
  ASSUME Base, NEW g \in Handle, NEW h \in Handle, g # h,
         kind[g] = "bitmap", kind[h] = "bitmap"
  PROVE  roaring[g] # roaring[h]
  BY DEF Base, Ownership

(* No job, call, cursor or cached size exists at the start. *)
LEMMA InitGuarded == Init => Guarded
  BY Assumption DEF Init, Guarded, Jobs, Calls, Cursors, Sizes, NoCall, Reader, UNKNOWN
-----------------------------------------------------------------------------
(* Every action keeps the four parts.                                       *)

LEMMA NewGuarded ==
  ASSUME Unguarded = {}, Base, Guarded, NEW h \in Handle, NEW p \in Native,
         NEW S \in SUBSET Value, NEW frozen \in BOOLEAN, New(h, p, S, frozen)
  PROVE  Guarded'
<1>1. Jobs'
  BY DEF Base, Inv, Guarded, New, Jobs, Wellformed, Ownership, jobVars
<1>2. Calls'
  BY DEF Guarded, New, Calls
<1>3. Cursors'
  BY DEF Guarded, New, Cursors, Changing, jobVars
<1>4. Sizes'
  <2>1. sizeCache'[h] # UNKNOWN => sizeCache'[h] = Cardinality(S)
    BY FS_EmptySet DEF New, Base, Inv, TypeOK
  <2> QED
    BY <2>1 DEF Base, Inv, Guarded, New, Sizes, Changing, TypeOK, Ownership
<1> QED
  BY <1>1, <1>2, <1>3, <1>4 DEF Guarded

LEMMA NewReadonlyGuarded ==
  ASSUME Unguarded = {}, Base, Guarded, NEW h \in Handle, NEW v \in Handle,
         NewReadonly(h, v)
  PROVE  Guarded'
<1>1. Jobs'
  BY DEF Guarded, NewReadonly, MakeView, Jobs, nativeVars, jobVars
<1>2. Calls'
  BY DEF Guarded, NewReadonly, MakeView, Calls
<1>3. Cursors'
  BY DEF Guarded, NewReadonly, MakeView, Cursors, Changing, jobVars
<1>4. Sizes'
  BY DEF Guarded, NewReadonly, MakeView, Sizes, Changing, nativeVars
<1> QED
  BY <1>1, <1>2, <1>3, <1>4 DEF Guarded

LEMMA CachedViewGuarded ==
  ASSUME Unguarded = {}, Base, Guarded, NEW h \in Handle, AsReadonlyView(h),
         CachedView(h)
  PROVE  Guarded'
<1>1. Jobs'
  BY DEF Guarded, AsReadonlyView, CachedView, Jobs, objectVars, nativeVars,
     jobVars
<1>2. Calls'
  BY DEF Guarded, AsReadonlyView, CachedView, Calls, objectVars
<1>3. Cursors'
  BY DEF Guarded, AsReadonlyView, CachedView, Cursors, Changing, objectVars,
     jobVars
<1>4. Sizes'
  BY DEF Guarded, AsReadonlyView, CachedView, Sizes, Changing, objectVars,
     nativeVars
<1> QED
  BY <1>1, <1>2, <1>3, <1>4 DEF Guarded

LEMMA ViewOfFrozenGuarded ==
  ASSUME Unguarded = {}, Base, Guarded, NEW h \in Handle, AsReadonlyView(h),
         ViewOfFrozen(h)
  PROVE  Guarded'
<1>1. Jobs'
  BY DEF Guarded, AsReadonlyView, ViewOfFrozen, Jobs, nativeVars, jobVars
<1>2. Calls'
  BY DEF Guarded, AsReadonlyView, ViewOfFrozen, Calls
<1>3. Cursors'
  BY DEF Guarded, AsReadonlyView, ViewOfFrozen, Cursors, Changing, jobVars
<1>4. Sizes'
  BY DEF Guarded, AsReadonlyView, ViewOfFrozen, Sizes, Changing, nativeVars
<1> QED
  BY <1>1, <1>2, <1>3, <1>4 DEF Guarded

LEMMA FirstViewGuarded ==
  ASSUME Unguarded = {}, Base, Guarded, NEW h \in Handle, AsReadonlyView(h),
         FirstView(h)
  PROVE  Guarded'
<1>1. Jobs'
  BY DEF Guarded, AsReadonlyView, FirstView, MakeView, Jobs, nativeVars,
     jobVars
<1>2. Calls'
  BY DEF Guarded, AsReadonlyView, FirstView, MakeView, Calls
<1>3. Cursors'
  BY DEF Guarded, AsReadonlyView, FirstView, MakeView, Cursors, Changing,
     jobVars
<1>4. Sizes'
  BY DEF Guarded, AsReadonlyView, FirstView, MakeView, Sizes, Changing,
     nativeVars
<1> QED
  BY <1>1, <1>2, <1>3, <1>4 DEF Guarded

LEMMA FreezeGuarded ==
  ASSUME Unguarded = {}, Base, Guarded, NEW h \in Handle, Freeze(h)
  PROVE  Guarded'
<1>1. Jobs'
  BY DEF Guarded, Freeze, Jobs, nativeVars, jobVars
<1>2. Calls'
  BY NotNested DEF Guarded, Freeze, Calls
<1>3. Cursors'
  BY DEF Guarded, Freeze, Cursors, Changing, jobVars
<1>4. Sizes'
  BY DEF Guarded, Freeze, Sizes, Changing, nativeVars
<1> QED
  BY <1>1, <1>2, <1>3, <1>4 DEF Guarded

LEMMA MutateGuarded ==
  ASSUME Unguarded = {}, Base, Guarded, NEW h \in Handle,
         NEW S \in SUBSET Value, Mutate(h, S)
  PROVE  Guarded'
<1>1. Jobs'
  BY Unfrozen, NoJobs, OthersKept, Assumption DEF Base, Inv, Guarded, Mutate,
     Write, Disturb, Jobs, Wellformed, jobVars
<1>2. Calls'
  BY DEF Guarded, Mutate, Calls
<1>3. Cursors'
  BY Unfrozen, OthersKept, Assumption DEF Base, Inv, Guarded, Mutate, Write,
     Disturb, Invalidate, Cursors, Changing, CursorsOn, Wellformed, jobVars
<1>4. Sizes'
  BY Unfrozen, OthersKept DEF Base, Inv, Guarded, Mutate, Write, Invalidate,
     Sizes, Changing, TypeOK
<1> QED
  BY <1>1, <1>2, <1>3, <1>4 DEF Guarded

LEMMA ElementsBeginGuarded ==
  ASSUME Unguarded = {}, Base, Guarded, NEW h \in Handle, ElementsBegin(h)
  PROVE  Guarded'
<1>1. Jobs'
  BY DEF Guarded, ElementsBegin, Jobs, objectVars, nativeVars, jobVars
<1>2. Calls'
  BY Unfrozen DEF ElementsBegin, Calls, objectVars
<1>3. Cursors'
  BY DEF Guarded, ElementsBegin, Cursors, Changing, NoCall, objectVars,
     jobVars
<1>4. Sizes'
  BY DEF Guarded, ElementsBegin, Sizes, Changing, NoCall, objectVars,
     nativeVars
<1> QED
  BY <1>1, <1>2, <1>3, <1>4 DEF Guarded

LEMMA ElementsNextGuarded ==
  ASSUME Unguarded = {}, Base, Guarded, NEW v \in Value, ElementsNext(v)
  PROVE  Guarded'
<1>1. Jobs'
  BY NoJobs, OthersKept, Assumption DEF Base, Inv, Guarded, ElementsNext,
     Write, Disturb, Jobs, Wellformed, Calls, objectVars, jobVars
<1>2. Calls'
  BY DEF Guarded, ElementsNext, Calls, objectVars
<1>3. Cursors'
  BY OthersKept, Assumption DEF Base, Inv, Guarded, ElementsNext, Write,
     Disturb, Cursors, Changing, Wellformed, Calls, objectVars, jobVars
<1>4. Sizes'
  BY OthersKept DEF Base, Inv, Guarded, ElementsNext, Write, Sizes, Changing,
     Wellformed, Calls, objectVars
<1> QED
  BY <1>1, <1>2, <1>3, <1>4 DEF Guarded

LEMMA ElementsEndGuarded ==
  ASSUME Unguarded = {}, Base, Guarded, ElementsEnd
  PROVE  Guarded'
<1>1. Jobs'
  BY DEF Guarded, ElementsEnd, Jobs, nativeVars, jobVars
<1>2. Calls'
  BY DEF ElementsEnd, Calls, NoCall
<1>3. Cursors'
  BY DEF Guarded, ElementsEnd, Invalidate, Cursors, Changing, CursorsOn,
     jobVars
<1>4. Sizes'
  BY DEF Base, Inv, Guarded, ElementsEnd, Invalidate, Sizes, Changing,
     TypeOK, nativeVars
<1> QED
  BY <1>1, <1>2, <1>3, <1>4 DEF Guarded

LEMMA BulkBeginGuarded ==
  ASSUME Unguarded = {}, Base, Guarded, NEW h \in Handle,
         NEW early \in BOOLEAN, BulkBegin(h, early)
  PROVE  Guarded'
<1>1. Jobs'
  BY DEF Guarded, BulkBegin, Jobs, nativeVars, jobVars
<1>2. Calls'
  BY Unfrozen DEF BulkBegin, Calls
<1>3. Cursors'
  BY DEF Guarded, BulkBegin, Invalidate, Cursors, Changing, CursorsOn,
     NoCall, jobVars
<1>4. Sizes'
  BY DEF Base, Inv, Guarded, BulkBegin, Invalidate, Sizes, Changing, TypeOK,
     NoCall, nativeVars
<1> QED
  BY <1>1, <1>2, <1>3, <1>4 DEF Guarded

LEMMA BulkEndGuarded ==
  ASSUME Unguarded = {}, Base, Guarded, NEW S \in SUBSET Value, BulkEnd(S)
  PROVE  Guarded'
<1>1. Jobs'
  BY NoJobs, OthersKept, Assumption DEF Base, Inv, Guarded, BulkEnd, Write,
     Disturb, Jobs, Wellformed, Calls, jobVars
<1>2. Calls'
  BY DEF BulkEnd, Calls, NoCall
<1>3. Cursors'
  BY OthersKept, Assumption DEF Base, Inv, Guarded, BulkEnd, Write, Disturb,
     Invalidate, Cursors, Changing, CursorsOn, Wellformed, Calls, jobVars
<1>4. Sizes'
  BY OthersKept DEF Base, Inv, Guarded, BulkEnd, Write, Invalidate, Sizes,
     Changing, TypeOK, Wellformed, Calls
<1> QED
  BY <1>1, <1>2, <1>3, <1>4 DEF Guarded

LEMMA BulkThrowGuarded ==
  ASSUME Unguarded = {}, Base, Guarded, BulkThrow
  PROVE  Guarded'
<1>1. Jobs'
  BY DEF Guarded, BulkThrow, Jobs, objectVars, nativeVars, jobVars
<1>2. Calls'
  BY DEF BulkThrow, Calls, NoCall
<1>3. Cursors'
  BY DEF Guarded, BulkThrow, Cursors, Changing, objectVars, jobVars
<1>4. Sizes'
  BY DEF Guarded, BulkThrow, Sizes, Changing, objectVars, nativeVars
<1> QED
  BY <1>1, <1>2, <1>3, <1>4 DEF Guarded

LEMMA RunOptimizeGuarded ==
  ASSUME Unguarded = {}, Base, Guarded, NEW h \in Handle, RunOptimize(h)
  PROVE  Guarded'
<1>1. Jobs'
  BY LayoutUnfrozen, NoJobs, OthersKept, Assumption DEF Base, Inv, Guarded,
     RunOptimize, Disturb, Jobs, Wellformed, objectVars, nativeVars, jobVars
<1>2. Calls'
  BY DEF Guarded, RunOptimize, Calls, objectVars
<1>3. Cursors'
  BY LayoutUnfrozen, OthersKept, Assumption DEF Base, Inv, Guarded,
     RunOptimize, Disturb, Cursors, Changing, CursorsOn, Wellformed,
     objectVars, jobVars
<1>4. Sizes'
  BY DEF Guarded, RunOptimize, Sizes, Changing, objectVars, nativeVars
<1> QED
  BY <1>1, <1>2, <1>3, <1>4 DEF Guarded

LEMMA RemoveRunCompressionGuarded ==
  ASSUME Unguarded = {}, Base, Guarded, NEW h \in Handle,
         RemoveRunCompression(h)
  PROVE  Guarded'
<1>1. Jobs'
  BY LayoutUnfrozen, NoJobs, OthersKept, Assumption DEF Base, Inv, Guarded,
     RemoveRunCompression, Disturb, Jobs, Wellformed, nativeVars, jobVars
<1>2. Calls'
  BY DEF Guarded, RemoveRunCompression, Calls
<1>3. Cursors'
  BY LayoutUnfrozen, OthersKept, Assumption DEF Base, Inv, Guarded,
     RemoveRunCompression, Disturb, Invalidate, Cursors, Changing, CursorsOn,
     Wellformed, jobVars
<1>4. Sizes'
  BY DEF Guarded, RemoveRunCompression, Invalidate, Sizes, Changing,
     nativeVars
<1> QED
  BY <1>1, <1>2, <1>3, <1>4 DEF Guarded

LEMMA SwapGuarded ==
  ASSUME Unguarded = {}, Base, Guarded, NEW a \in Handle, NEW b \in Handle,
         Swap(a, b)
  PROVE  Guarded'
<1>1. Jobs'
  BY Unfrozen, NoJobs DEF Base, Inv, Guarded, Swap, ReplaceAllowed, Jobs,
     TypeOK, Wellformed, nativeVars, jobVars
<1>2. Calls'
  BY NotNested DEF Base, Inv, Guarded, Swap, ReplaceAllowed, Calls, TypeOK,
     Wellformed
<1>3. Cursors'
  BY DEF Base, Inv, Guarded, Swap, Cursors, Changing, CursorsOn, TypeOK,
     jobVars
<1>4. Sizes'
  BY DEF Base, Inv, Guarded, Swap, Sizes, Changing, TypeOK, nativeVars
<1> QED
  BY <1>1, <1>2, <1>3, <1>4 DEF Guarded

LEMMA ReplaceGuarded ==
  ASSUME Unguarded = {}, Base, Guarded, NEW h \in Handle, NEW p \in Native,
         NEW S \in SUBSET Value, NEW frozen \in BOOLEAN,
         Replace(h, p, S, frozen)
  PROVE  Guarded'
<1>1. Jobs'
  BY Unfrozen, NoJobs, Assumption DEF Base, Inv, Guarded, Replace,
     ReplaceAllowed, Disturb, Jobs, TypeOK, Wellformed, Ownership, jobVars
<1>2. Calls'
  BY NotNested DEF Guarded, Replace, ReplaceAllowed, Calls
<1>3. Cursors'
  BY Unfrozen, Assumption DEF Base, Inv, Guarded, Replace, ReplaceAllowed,
     Disturb, Invalidate, Cursors, Changing, CursorsOn, Wellformed,
     Ownership, jobVars
<1>4. Sizes'
  BY Unfrozen DEF Base, Inv, Guarded, Replace, ReplaceAllowed, Invalidate,
     Sizes, Changing, TypeOK, Wellformed, Ownership
<1> QED
  BY <1>1, <1>2, <1>3, <1>4 DEF Guarded

LEMMA ReadSizeGuarded ==
  ASSUME Unguarded = {}, Base, Guarded, NEW h \in Handle, ReadSize(h)
  PROVE  Guarded'
<1>1. Jobs'
  BY DEF Guarded, ReadSize, Jobs, nativeVars, jobVars
<1>2. Calls'
  BY DEF Guarded, ReadSize, Calls
<1>3. Cursors'
  BY DEF Guarded, ReadSize, Cursors, Changing, jobVars
<1>4. Sizes'
  BY DEF Guarded, ReadSize, Sizes, Changing, nativeVars
<1> QED
  BY <1>1, <1>2, <1>3, <1>4 DEF Guarded

LEMMA AsyncBeginGuarded ==
  ASSUME Unguarded = {}, Base, Guarded, NEW w \in Worker, NEW h \in Handle,
         AsyncBegin(w, h)
  PROVE  Guarded'
<1>1. Jobs'
  BY NotNested DEF Base, Inv, Guarded, Reader, AsyncBegin, Jobs, TypeOK,
     Alive, nativeVars
<1>2. Calls'
  BY NotNested DEF Guarded, AsyncBegin, Calls
<1>3. Cursors'
  BY Assumption DEF Guarded, AsyncBegin, Cursors, Changing
<1>4. Sizes'
  BY DEF Guarded, AsyncBegin, Sizes, Changing, nativeVars
<1> QED
  BY <1>1, <1>2, <1>3, <1>4 DEF Guarded

LEMMA WorkStartGuarded ==
  ASSUME Unguarded = {}, Base, Guarded, NEW w \in Worker, WorkStart(w)
  PROVE  Guarded'
<1>1. Jobs'
  BY DEF Base, Inv, Guarded, Reader, WorkStart, Jobs, TypeOK, Wellformed,
     Root, Ownership, objectVars, nativeVars
<1>2. Calls'
  BY DEF Guarded, WorkStart, Calls, objectVars
<1>3. Cursors'
  BY Assumption DEF Guarded, WorkStart, Cursors, Changing, objectVars
<1>4. Sizes'
  BY DEF Guarded, WorkStart, Sizes, Changing, objectVars, nativeVars
<1> QED
  BY <1>1, <1>2, <1>3, <1>4 DEF Guarded

LEMMA WorkStoreSizeGuarded ==
  ASSUME Unguarded = {}, Base, Guarded, NEW w \in Worker, WorkStoreSize(w)
  PROVE  Guarded'
<1>1. Jobs'
  BY DEF Guarded, WorkStoreSize, Jobs, nativeVars
<1>2. Calls'
  BY DEF Guarded, WorkStoreSize, Calls
<1>3. Cursors'
  BY DEF Guarded, WorkStoreSize, Cursors, Changing
<1>4. Sizes'
  BY DEF Base, Inv, Guarded, WorkStoreSize, Sizes, Changing, Wellformed,
     Root, Jobs, nativeVars
<1> QED
  BY <1>1, <1>2, <1>3, <1>4 DEF Guarded

LEMMA WorkEndGuarded ==
  ASSUME Unguarded = {}, Base, Guarded, NEW w \in Worker, WorkEnd(w)
  PROVE  Guarded'
<1>1. Jobs'
  BY DEF Base, Inv, Guarded, Reader, WorkEnd, Jobs, TypeOK, objectVars,
     nativeVars
<1>2. Calls'
  BY DEF Guarded, WorkEnd, Calls, objectVars
<1>3. Cursors'
  BY Assumption DEF Guarded, WorkEnd, Cursors, Changing, objectVars
<1>4. Sizes'
  BY DEF Guarded, WorkEnd, Sizes, Changing, objectVars, nativeVars
<1> QED
  BY <1>1, <1>2, <1>3, <1>4 DEF Guarded

LEMMA AsyncDoneGuarded ==
  ASSUME Unguarded = {}, Base, Guarded, NEW w \in Worker, AsyncDone(w)
  PROVE  Guarded'
<1>1. Jobs'
  BY DEF Base, Inv, Guarded, AsyncDone, Jobs, TypeOK, nativeVars
<1>2. Calls'
  BY DEF AsyncDone, Calls, NoCall
<1>3. Cursors'
  BY Assumption DEF Guarded, AsyncDone, Cursors, Changing
<1>4. Sizes'
  BY DEF Guarded, AsyncDone, Sizes, Changing, nativeVars
<1> QED
  BY <1>1, <1>2, <1>3, <1>4 DEF Guarded

LEMMA OpenCursorGuarded ==
  ASSUME Unguarded = {}, Base, Guarded, NEW c \in Cursor, NEW h \in Handle,
         OpenCursor(c, h)
  PROVE  Guarded'
<1>1. Jobs'
  BY Assumption DEF Guarded, OpenCursor, Jobs, objectVars, nativeVars
<1>2. Calls'
  BY DEF Guarded, OpenCursor, Calls, objectVars
<1>3. Cursors'
  BY NotNested DEF Base, Inv, Guarded, OpenCursor, Cursors, Changing, TypeOK,
     Alive, objectVars
<1>4. Sizes'
  BY DEF Guarded, OpenCursor, Sizes, Changing, objectVars, nativeVars
<1> QED
  BY <1>1, <1>2, <1>3, <1>4 DEF Guarded

LEMMA CursorEndGuarded ==
  ASSUME Unguarded = {}, Base, Guarded, NEW c \in Cursor, CursorEnd(c)
  PROVE  Guarded'
<1>1. Jobs'
  BY Assumption DEF Guarded, CursorEnd, Jobs, objectVars, nativeVars
<1>2. Calls'
  BY DEF Guarded, CursorEnd, Calls, objectVars
<1>3. Cursors'
  BY DEF Base, Inv, Guarded, Reader, CursorEnd, Cursors, Changing, TypeOK,
     objectVars
<1>4. Sizes'
  BY DEF Guarded, CursorEnd, Sizes, Changing, objectVars, nativeVars
<1> QED
  BY <1>1, <1>2, <1>3, <1>4 DEF Guarded

LEMMA DropGuarded ==
  ASSUME Unguarded = {}, Base, Guarded, NEW h \in Handle, Drop(h)
  PROVE  Guarded'
<1>1. Jobs'
  BY DEF Guarded, Drop, Jobs, objectVars, nativeVars, jobVars, InFlight
<1>2. Calls'
  BY DEF Guarded, Drop, Calls, objectVars
<1>3. Cursors'
  BY DEF Guarded, Drop, Cursors, Changing, objectVars, jobVars
<1>4. Sizes'
  BY DEF Guarded, Drop, Sizes, Changing, objectVars, nativeVars
<1> QED
  BY <1>1, <1>2, <1>3, <1>4 DEF Guarded

LEMMA CollectGuarded ==
  ASSUME Unguarded = {}, Base, Guarded, NEW h \in Handle, Collect(h)
  PROVE  Guarded'
<1>1. Jobs'
  BY Assumption DEF Base, Inv, Guarded, Collect, Reachable, Write, Disturb,
     Jobs, Wellformed, InFlight, Ownership, jobVars
<1>2. Calls'
  BY DEF Guarded, Collect, Reachable, Calls
<1>3. Cursors'
  BY Assumption DEF Base, Inv, Guarded, Collect, Reachable, Write, Disturb,
     Cursors, Changing, CursorsOn, Wellformed, Ownership, jobVars
<1>4. Sizes'
  BY DEF Base, Inv, Guarded, Collect, Write, Sizes, Changing, TypeOK,
     Ownership
<1> QED
  BY <1>1, <1>2, <1>3, <1>4 DEF Guarded

LEMMA ViewGuarded ==
  ASSUME Unguarded = {}, Base, Guarded, NEW h \in Handle, AsReadonlyView(h)
  PROVE  Guarded'
  BY CachedViewGuarded, ViewOfFrozenGuarded, FirstViewGuarded DEF AsReadonlyView

LEMMA StutterGuarded ==
  ASSUME Guarded, UNCHANGED vars
  PROVE  Guarded'
  BY DEF Guarded, Jobs, Calls, Cursors, Sizes, Changing, vars, objectVars,
         nativeVars, jobVars

LEMMA NextGuarded ==
  ASSUME Unguarded = {}
  PROVE  Base /\ Guarded /\ [Next]_vars => Guarded'
<1> SUFFICES ASSUME Base, Guarded, [Next]_vars PROVE Guarded'
  OBVIOUS
<1>1. CASE Creation
  BY <1>1, NewGuarded, NewReadonlyGuarded, ViewGuarded, FreezeGuarded DEF Creation
<1>2. CASE Mutation
  BY <1>2, MutateGuarded, ElementsBeginGuarded, ElementsNextGuarded,
     ElementsEndGuarded, BulkBeginGuarded, BulkEndGuarded, BulkThrowGuarded,
     RunOptimizeGuarded, RemoveRunCompressionGuarded, SwapGuarded,
     ReplaceGuarded, ReadSizeGuarded DEF Mutation
<1>3. CASE Reading
  BY <1>3, AsyncBeginGuarded, WorkStartGuarded, WorkStoreSizeGuarded,
     WorkEndGuarded, AsyncDoneGuarded, OpenCursorGuarded, CursorEndGuarded
     DEF Reading
<1>4. CASE Collection
  BY <1>4, DropGuarded, CollectGuarded DEF Collection
<1>5. CASE UNCHANGED vars
  BY <1>5, StutterGuarded
<1> QED
  BY <1>1, <1>2, <1>3, <1>4, <1>5 DEF Next

LEMMA BaseInvariance == Spec => []Base
  BY Invariance, OwnershipInvariant, FreezeBalanceInvariant, PTL DEF Base

LEMMA GuardedInvariance ==
  ASSUME Unguarded = {}
  PROVE  Spec => []Guarded
  BY InitGuarded, NextGuarded, BaseInvariance, PTL DEF Spec
-----------------------------------------------------------------------------
(* Nothing writes or frees the native bitmap that a pool thread is reading. *)
THEOREM ReadersUndisturbed ==
  ASSUME Unguarded = {}
  PROVE  Spec => []WorkersReadUndisturbed
<1>1. Guarded => WorkersReadUndisturbed
  BY DEF Guarded, Jobs, WorkersReadUndisturbed
<1> QED
  BY <1>1, GuardedInvariance, PTL

(* A cursor never goes on reading a bitmap that was changed. *)
THEOREM CursorsCurrent ==
  ASSUME Unguarded = {}
  PROVE  Spec => []CursorsDetectChange
<1>1. Guarded => CursorsDetectChange
  BY DEF Guarded, Cursors, Changing, CursorsDetectChange
<1> QED
  BY <1>1, GuardedInvariance, PTL

(* The cached cardinality is right, whichever thread stored it. *)
THEOREM SizeCacheRight ==
  ASSUME Unguarded = {}
  PROVE  Spec => []SizeCacheCoherent
<1>1. Guarded => SizeCacheCoherent
  BY DEF Guarded, Sizes, Changing, SizeCacheCoherent
<1> QED
  BY <1>1, GuardedInvariance, PTL
-----------------------------------------------------------------------------
(* A bitmap frozen for ever: no step that writes a native bitmap, replaces
   it or sets a counter is taken on it. *)
LEMMA ForeverKept ==
  ASSUME Unguarded = {}, Base, Guarded, [Next]_vars, NEW g \in Handle,
         kind[g] = "bitmap", IsFrozenForever(g), kind'[g] = "bitmap"
  PROVE  /\ frozenCounter'[g] = frozenCounter[g]
         /\ roaring'[g] = roaring[g]
         /\ set'[roaring[g]] = set[roaring[g]]
<1> DEFINE Kept == /\ frozenCounter'[g] = frozenCounter[g]
                   /\ roaring'[g] = roaring[g]
                   /\ set'[roaring[g]] = set[roaring[g]]
<1>1. ASSUME NEW h \in Handle, NEW p \in Native, NEW S \in SUBSET Value,
      NEW frozen \in BOOLEAN, New(h, p, S, frozen) PROVE Kept
  BY <1>1 DEF New, Base, Ownership
<1>2. ASSUME NEW h \in Handle, NEW v \in Handle, NewReadonly(h, v) PROVE Kept
  BY <1>2 DEF NewReadonly, MakeView, nativeVars
<1>3. ASSUME NEW h \in Handle, AsReadonlyView(h), CachedView(h) PROVE Kept
  BY <1>3 DEF AsReadonlyView, CachedView, objectVars, nativeVars
<1>4. ASSUME NEW h \in Handle, AsReadonlyView(h), ViewOfFrozen(h) PROVE Kept
  BY <1>4 DEF AsReadonlyView, ViewOfFrozen, objectVars, nativeVars
<1>5. ASSUME NEW h \in Handle, AsReadonlyView(h), FirstView(h) PROVE Kept
  BY <1>5 DEF AsReadonlyView, FirstView, MakeView, nativeVars
<1>6. ASSUME NEW h \in Handle, Freeze(h) PROVE Kept
  BY <1>6 DEF Freeze, Base, Inv, TypeOK, IsFrozenForever, HARD_FROZEN,
     nativeVars
<1>7. ASSUME NEW h \in Handle, NEW S \in SUBSET Value, Mutate(h, S)
      PROVE Kept
  BY <1>7, Unfrozen DEF Mutate, Write, Base, Ownership, IsFrozenForever
<1>8. ASSUME NEW h \in Handle, ElementsBegin(h) PROVE Kept
  BY <1>8 DEF ElementsBegin, objectVars, nativeVars
<1>9. ASSUME NEW v \in Value, ElementsNext(v) PROVE Kept
  BY <1>9 DEF ElementsNext, Write, Base, Inv, Wellformed, Ownership, Guarded,
     Calls, IsFrozenForever, objectVars
<1>10. CASE ElementsEnd
  BY <1>10 DEF ElementsEnd, nativeVars
<1>11. ASSUME NEW h \in Handle, NEW early \in BOOLEAN, BulkBegin(h, early)
      PROVE Kept
  BY <1>11 DEF BulkBegin, nativeVars
<1>12. ASSUME NEW S \in SUBSET Value, BulkEnd(S) PROVE Kept
  BY <1>12 DEF BulkEnd, Write, Base, Inv, Wellformed, Ownership, Guarded,
     Calls, IsFrozenForever
<1>13. CASE BulkThrow
  BY <1>13 DEF BulkThrow, objectVars, nativeVars
<1>14. ASSUME NEW h \in Handle, RunOptimize(h) PROVE Kept
  BY <1>14 DEF RunOptimize, objectVars, nativeVars
<1>15. ASSUME NEW h \in Handle, RemoveRunCompression(h) PROVE Kept
  BY <1>15 DEF RemoveRunCompression, nativeVars
<1>16. ASSUME NEW a \in Handle, NEW b \in Handle, Swap(a, b) PROVE Kept
  BY <1>16 DEF Swap, ReplaceAllowed, Base, Inv, TypeOK, IsFrozen,
     IsFrozenForever, nativeVars
<1>17. ASSUME NEW h \in Handle, NEW p \in Native, NEW S \in SUBSET Value,
      NEW frozen \in BOOLEAN, Replace(h, p, S, frozen) PROVE Kept
  BY <1>17, Unfrozen DEF Replace, ReplaceAllowed, Base, Inv, TypeOK,
     Wellformed, Ownership, IsFrozenForever
<1>18. ASSUME NEW h \in Handle, ReadSize(h) PROVE Kept
  BY <1>18 DEF ReadSize, nativeVars
<1>19. ASSUME NEW w \in Worker, NEW h \in Handle, AsyncBegin(w, h) PROVE Kept
  BY <1>19 DEF AsyncBegin, Base, Inv, TypeOK, IsFrozenForever, HARD_FROZEN,
     SOFT_FROZEN, AfterBeginFreeze, nativeVars
<1>20. ASSUME NEW w \in Worker, WorkStart(w) PROVE Kept
  BY <1>20 DEF WorkStart, objectVars, nativeVars
<1>21. ASSUME NEW w \in Worker, WorkStoreSize(w) PROVE Kept
  BY <1>21 DEF WorkStoreSize, objectVars, nativeVars
<1>22. ASSUME NEW w \in Worker, WorkEnd(w) PROVE Kept
  BY <1>22 DEF WorkEnd, objectVars, nativeVars
<1>23. ASSUME NEW w \in Worker, AsyncDone(w) PROVE Kept
  BY <1>23 DEF AsyncDone, Base, Inv, TypeOK, IsFrozenForever, HARD_FROZEN,
     SOFT_FROZEN, AfterEndFreeze, objectVars, nativeVars
<1>24. ASSUME NEW c \in Cursor, NEW h \in Handle, OpenCursor(c, h) PROVE Kept
  BY <1>24 DEF OpenCursor, objectVars, nativeVars
<1>25. ASSUME NEW c \in Cursor, CursorEnd(c) PROVE Kept
  BY <1>25 DEF CursorEnd, objectVars, nativeVars
<1>26. ASSUME NEW h \in Handle, Drop(h) PROVE Kept
  BY <1>26 DEF Drop, objectVars, nativeVars
<1>27. ASSUME NEW h \in Handle, Collect(h) PROVE Kept
  BY <1>27 DEF Collect, Write, Base, Inv, TypeOK, Ownership
<1>28. CASE UNCHANGED vars
  BY <1>28 DEF vars, objectVars, nativeVars
<1> QED
  BY <1>1, <1>2, <1>3, <1>4, <1>5, <1>6, <1>7, <1>8, <1>9, <1>10, <1>11,
     <1>12, <1>13, <1>14, <1>15, <1>16, <1>17, <1>18, <1>19, <1>20, <1>21,
     <1>22, <1>23, <1>24, <1>25, <1>26, <1>27, <1>28
     DEF Next, Creation, Mutation, Reading, Collection, AsReadonlyView

(* Once frozen for ever, a bitmap keeps its mark, its native bitmap and its
   content until it is collected. *)
THEOREM FrozenForeverKept ==
  ASSUME Unguarded = {}
  PROVE  Spec => FrozenForeverUnchanged
<1>1. Base /\ Guarded /\ [Next]_vars =>
        [\A h \in Handle : kind[h] = "bitmap" /\ IsFrozenForever(h) /\ kind'[h] = "bitmap" =>
           /\ frozenCounter'[h] = frozenCounter[h]
           /\ roaring'[h] = roaring[h]
           /\ set'[roaring[h]] = set[roaring[h]]]_vars
  BY ForeverKept
<1> QED
  BY <1>1, BaseInvariance, GuardedInvariance, PTL DEF Spec, FrozenForeverUnchanged
=============================================================================
