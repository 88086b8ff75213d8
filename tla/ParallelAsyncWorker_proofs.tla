--------------------- MODULE ParallelAsyncWorker_proofs ---------------------
(***************************************************************************)
(* Theorems about ParallelAsyncWorker, for any number of tasks and items.  *)
(***************************************************************************)
EXTENDS ParallelAsyncWorker, FiniteSetTheorems, TLAPS

ActiveTasks == { t \in Task : Active(t) }
Over == { t \in Task : pc[t] \in {"ended", "done"} }

\* While _start queues tasks, they are exactly the ones before starting, and
\* no after-work callback has run.
Starting ==
  /\ starting # 0 =>
       /\ pendingTasks = starting - 1
       /\ \A t \in Task : t >= starting => pc[t] = "none"
       /\ outcome = IF starting = 1 THEN "none" ELSE "pending"
  /\ starting = 0 => outcome # "none"

\* The count is that of the tasks whose callback is still to run.
Pending ==
  /\ pendingTasks = Cardinality(ActiveTasks)
  /\ outcome \in {"fulfilled", "rejected"} => ActiveTasks = {}

\* Beyond the items, every increment of the index ends a task.
Indices ==
  /\ currentIndex <= LoopCount + Cardinality(Over)
  /\ \A t \in Task : pc[t] = "claim" => prev[t] <= currentIndex
  /\ \A i \in Item : claims[i] = IF i < currentIndex THEN 1 ELSE 0

\* An item that was handed out is finished, in work or the reason of an error.
Results ==
  /\ \A t \in Task : pc[t] \in {"work", "failing"} => index[t] \in Item
  /\ \A i \in Item : i < currentIndex =>
       \/ i \in finished
       \/ failed
       \/ \E t \in Task : pc[t] \in {"work", "failing"} /\ index[t] = i
  /\ \A t \in Over : failed \/ currentIndex >= LoopCount
  /\ FulfilledIsComplete

Inv == TypeOK /\ Starting /\ Pending /\ Indices /\ Results
-----------------------------------------------------------------------------
(* Arithmetic and counting.                                                 *)

LEMMA SmallMod == ASSUME NEW n \in Nat, NEW x \in Nat, x < n PROVE x % n = x
  OBVIOUS

LEMMA SelfMod == ASSUME NEW n \in Nat \ {0} PROVE n % n = 0
  OBVIOUS

LEMMA TaskCountBounds == TaskCount \in Nat \ {0} /\ TaskCount <= Concurrency
<1> USE ParallelAssumption
<1>1. /\ Min({Concurrency, LoopCount}) \in {Concurrency, LoopCount}
      /\ Min({Concurrency, LoopCount}) <= Concurrency
  <2>1. \E x \in {Concurrency, LoopCount} : \A y \in {Concurrency, LoopCount} : x <= y
    OBVIOUS
  <2> QED BY <2>1 DEF Min
<1>2. ASSUME NEW m \in Nat PROVE Max({1, m}) \in {1, m} /\ Max({1, m}) >= 1
  <2>1. \E x \in {1, m} : \A y \in {1, m} : x >= y
    OBVIOUS
  <2> QED BY <2>1 DEF Max
<1> QED
  BY <1>1, <1>2 DEF TaskCount

LEMMA TasksFinite ==
  /\ IsFiniteSet(Task) /\ Cardinality(Task) = TaskCount
  /\ IsFiniteSet(ActiveTasks) /\ Cardinality(ActiveTasks) \in Nat
  /\ IsFiniteSet(Over) /\ Cardinality(Over) \in Nat
<1>1. IsFiniteSet(Task) /\ Cardinality(Task) = TaskCount
  BY TaskCountBounds, FS_Interval DEF Task
<1>2. ActiveTasks \subseteq Task /\ Over \subseteq Task
  BY DEF ActiveTasks, Over
<1> QED
  BY <1>1, <1>2, FS_Subset, FS_CardinalityType

(* A task that is not over leaves room below the modulus. *)
LEMMA NoWrap ==
  ASSUME Inv, NEW t \in Task, t \notin Over
  PROVE  (currentIndex + 1) % IndexModulus = currentIndex + 1
<1>1. Over \subseteq Task \ {t}
  BY DEF Over
<1>2. IsFiniteSet(Task \ {t}) /\ Cardinality(Task \ {t}) = TaskCount - 1
  BY TasksFinite, FS_RemoveElement
<1>3. Cardinality(Over) <= TaskCount - 1
  BY <1>1, <1>2, FS_Subset
<1>4. currentIndex <= LoopCount + Cardinality(Over) /\ currentIndex \in Nat
  BY ParallelAssumption DEF Inv, TypeOK, Indices, Index
<1>5. currentIndex + 1 < IndexModulus
  BY <1>3, <1>4, TaskCountBounds, TasksFinite, ParallelAssumption
<1> QED
  BY <1>4, <1>5, SmallMod, ParallelAssumption

LEMMA NextStarting ==
  ASSUME TypeOK, starting # 0
  PROVE  (starting + 1) % (TaskCount + 1) =
           IF starting = TaskCount THEN 0 ELSE starting + 1
<1>1. starting \in 1 .. TaskCount
  BY TaskCountBounds DEF TypeOK
<1>2. CASE starting = TaskCount
  BY <1>2, SelfMod, TaskCountBounds
<1>3. CASE starting # TaskCount
  BY <1>1, <1>3, SmallMod, TaskCountBounds
<1> QED BY <1>2, <1>3
-----------------------------------------------------------------------------
(* How the steps move the two sets of tasks.                                *)

(* A step that neither queues a task nor runs its callback keeps the tasks
   active, and one that ends no task keeps the tasks that are over. *)
LEMMA SameActive ==
  ASSUME Pending, \A t \in Task : Active(t)' <=> Active(t),
         pendingTasks' = pendingTasks, outcome' = outcome
  PROVE  Pending'
<1>1. ActiveTasks' = ActiveTasks
  BY DEF ActiveTasks, Task
<1> QED
  BY <1>1 DEF Pending

LEMMA InitInv == Init => Inv
<1> SUFFICES ASSUME Init PROVE Inv
  OBVIOUS
<1> USE ParallelAssumption, TaskCountBounds DEF Init
<1>1. TypeOK
  <2>1. 0 \in Index /\ 1 \in 0 .. TaskCount /\ 0 \in 0 .. TaskCount
    BY DEF Index
  <2> QED
    BY <2>1 DEF TypeOK
<1>2. Starting
  BY DEF Starting
<1>3. ActiveTasks = {} /\ Over = {}
  BY DEF ActiveTasks, Active, OnThread, Over
<1>4. Pending
  BY <1>3, FS_EmptySet DEF Pending
<1>5. Indices
  BY <1>3, FS_EmptySet DEF Indices, Item
<1>6. Results
  BY <1>3 DEF Results, FulfilledIsComplete, Item
<1> QED
  BY <1>1, <1>2, <1>4, <1>5, <1>6 DEF Inv

LEMMA StartTaskInv == Inv /\ StartTask => Inv'
<1> SUFFICES ASSUME Inv, StartTask PROVE Inv'
  OBVIOUS
<1> USE TaskCountBounds DEF Inv
<1> DEFINE next == IF starting = TaskCount THEN 0 ELSE starting + 1
<1>1. /\ starting \in Task
      /\ starting' = next
      /\ pc[starting] = "none"
  BY NextStarting DEF StartTask, Returned, TypeOK, Starting, Task
<1>2. pc' = [pc EXCEPT ![starting] = "queued"] /\ pendingTasks' = pendingTasks + 1
      /\ outcome' = "pending"
      /\ UNCHANGED <<prev, index, currentIndex, failed, claims, finished>>
  BY DEF StartTask
<1>3. TypeOK'
  BY <1>1, <1>2 DEF TypeOK, Starting, Task
<1>4. Starting'
  BY <1>1, <1>2 DEF TypeOK, Starting, Task
<1>5. ActiveTasks' = ActiveTasks \cup {starting} /\ starting \notin ActiveTasks
  BY <1>1, <1>2 DEF ActiveTasks, Active, OnThread, TypeOK
<1>6. Cardinality(ActiveTasks') = Cardinality(ActiveTasks) + 1
  BY <1>5, TasksFinite, FS_AddElement
<1>7. Pending'
  BY <1>2, <1>6 DEF Pending
<1>8. Over' = Over
  BY <1>1, <1>2 DEF Over, TypeOK
<1>9. Indices'
  BY <1>1, <1>2, <1>8 DEF Indices, TypeOK
<1>10. Results'
  BY <1>1, <1>2, <1>8 DEF Results, FulfilledIsComplete, TypeOK
<1> QED
  BY <1>3, <1>4, <1>7, <1>9, <1>10

LEMMA StartFailsInv == Inv /\ StartFails => Inv'
<1> SUFFICES ASSUME Inv, StartFails PROVE Inv'
  OBVIOUS
<1> USE TaskCountBounds DEF Inv
<1>1. /\ failed' = TRUE /\ starting' = 0 /\ starting # 0
      /\ outcome' = IF pendingTasks = 0 THEN "rejected" ELSE outcome
      /\ UNCHANGED <<pc, prev, index, currentIndex, pendingTasks, claims, finished>>
  BY DEF StartFails, Returned
<1>2. TypeOK' /\ Starting'
  BY <1>1 DEF TypeOK, Starting
<1>3. ActiveTasks' = ActiveTasks /\ Over' = Over
  BY <1>1 DEF ActiveTasks, Active, OnThread, Over
<1>4. pendingTasks = 0 => ActiveTasks = {}
  BY TasksFinite, FS_EmptySet DEF Pending
<1>5. Pending'
  BY <1>1, <1>3, <1>4 DEF Pending, Starting
<1>6. Indices' /\ Results'
  BY <1>1, <1>3 DEF Indices, Results, FulfilledIsComplete, Starting
<1> QED
  BY <1>2, <1>5, <1>6

(* The steps of a task on a pool thread keep the tasks that are active; only
   LoadIndex and Claim may end one. *)
LEMMA OnPoolInv == Inv /\ (\E t \in Task : OnPool(t)) => Inv'
<1> SUFFICES ASSUME Inv, NEW t \in Task, OnPool(t) PROVE Inv'
  OBVIOUS
<1> USE TaskCountBounds DEF Inv
<1>1. \A u \in Task : Active(u)' <=> Active(u)
  BY DEF OnPool, TaskBegin, LoadIndex, Claim, Take, WorkSucceeds, WorkFails, StoreError,
         Active, OnThread, TypeOK
<1>2. UNCHANGED <<starting, pendingTasks, outcome>> /\ pc[t] # "none"
      /\ \A u \in Task \ {t} : pc'[u] = pc[u]
  BY DEF OnPool, TaskBegin, LoadIndex, Claim, Take, WorkSucceeds, WorkFails, StoreError,
         TypeOK
<1>3. Pending'
  BY <1>1, <1>2, SameActive
<1>4. Starting'
  BY <1>2 DEF Starting, Task, TypeOK
<1>5. outcome # "fulfilled"
  BY DEF OnPool, TaskBegin, LoadIndex, Claim, WorkSucceeds, WorkFails, StoreError,
         Pending, ActiveTasks, Active, OnThread
<1>6. CASE TaskBegin(t)
  <2>1. TypeOK'
    BY <1>6 DEF TaskBegin, TypeOK, OnThread
  <2>2. Over' = Over
    BY <1>6 DEF TaskBegin, TypeOK, Over
  <2>3. Indices' /\ Results'
    BY <1>6, <2>2 DEF TaskBegin, TypeOK, Indices, Results, FulfilledIsComplete
  <2> QED BY <1>3, <1>4, <2>1, <2>3
<1>7. CASE LoadIndex(t)
  <2>1. TypeOK'
    BY <1>7 DEF LoadIndex, TypeOK, OnThread
  <2>2. CASE failed
    <3>1. Over' = Over \cup {t} /\ t \notin Over
      BY <1>7, <2>2 DEF LoadIndex, TypeOK, Over
    <3>2. Cardinality(Over') = Cardinality(Over) + 1
      BY <3>1, TasksFinite, FS_AddElement
    <3>3. Indices'
      BY <1>7, <2>2, <3>2, TasksFinite, ParallelAssumption
         DEF LoadIndex, TypeOK, Indices, Index
    <3>4. Results'
      BY <1>7, <2>2, <1>5 DEF LoadIndex, TypeOK, Results, FulfilledIsComplete, Over
    <3> QED BY <1>3, <1>4, <2>1, <3>3, <3>4
  <2>3. CASE ~failed
    <3>1. Over' = Over
      BY <1>7, <2>3 DEF LoadIndex, TypeOK, Over
    <3>2. Indices'
      BY <1>7, <2>3, <3>1, ParallelAssumption DEF LoadIndex, TypeOK, Indices, Index
    <3>3. Results'
      BY <1>7, <2>3, <3>1, <1>5 DEF LoadIndex, TypeOK, Results, FulfilledIsComplete
    <3> QED BY <1>3, <1>4, <2>1, <3>2, <3>3
  <2> QED BY <2>2, <2>3
<1>8. CASE Claim(t)
  <2>1. t \notin Over
    BY <1>8 DEF Claim, Over
  <2>2. /\ currentIndex' = currentIndex + 1
        /\ currentIndex' \in Index
        /\ currentIndex \in Nat
    BY <1>8, <2>1, NoWrap, ParallelAssumption DEF Claim, TypeOK, Index
  <2>3. ~(currentIndex < prev[t])
    BY <1>8, <2>2, ParallelAssumption DEF Claim, Indices, TypeOK, Index
  <2>4. CASE currentIndex >= LoopCount
    <3>1. /\ pc' = [pc EXCEPT ![t] = "ended"]
          /\ index' = [index EXCEPT ![t] = currentIndex]
          /\ UNCHANGED <<prev, failed, claims, finished>>
      BY <1>8, <2>4 DEF Claim, Take
    <3>2. Over' = Over \cup {t}
      BY <3>1 DEF TypeOK, Over
    <3>3. Cardinality(Over') = Cardinality(Over) + 1
      BY <2>1, <3>2, TasksFinite, FS_AddElement
    <3>4. TypeOK'
      BY <1>2, <2>2, <3>1 DEF TypeOK
    <3>5. \A i \in Item : i < currentIndex /\ i < currentIndex'
      BY <2>2, <2>4, ParallelAssumption DEF Item
    <3>6. Indices'
      <4>1. currentIndex' <= LoopCount + Cardinality(Over')
        BY <2>2, <3>3, TasksFinite, ParallelAssumption DEF Indices
      <4>2. \A u \in Task : pc'[u] = "claim" => prev'[u] <= currentIndex'
        BY <2>2, <3>1, ParallelAssumption DEF Indices, TypeOK, Index
      <4> QED BY <4>1, <4>2, <3>1, <3>5 DEF Indices
    <3>7. Results'
      <4>1. \A u \in Over' : failed' \/ currentIndex' >= LoopCount
        BY <2>2, <2>4, <3>2, ParallelAssumption DEF Results
      <4> QED
        BY <1>8, <3>1, <3>5, <4>1, <1>2, <1>5 DEF Claim, TypeOK, Results, FulfilledIsComplete
    <3> QED BY <1>3, <1>4, <3>4, <3>6, <3>7
  <2>5. CASE currentIndex < LoopCount
    <3>1. /\ pc' = [pc EXCEPT ![t] = "work"]
          /\ index' = [index EXCEPT ![t] = currentIndex]
          /\ claims' = [claims EXCEPT ![currentIndex] = claims[currentIndex] + 1]
          /\ UNCHANGED <<prev, failed, finished>>
      BY <1>8, <2>2, <2>3, <2>5, ParallelAssumption DEF Claim, Take
    <3>2. Over' = Over
      BY <2>1, <3>1 DEF TypeOK, Over
    <3>3. currentIndex \in Item /\ currentIndex \in Index
      BY <2>2, <2>5, ParallelAssumption DEF Item, TypeOK
    <3>4. TypeOK'
      BY <1>2, <2>2, <3>1, <3>3 DEF TypeOK, OnThread
    <3>5. Indices'
      <4>1. currentIndex' <= LoopCount + Cardinality(Over')
        BY <2>2, <2>5, <3>2, TasksFinite, ParallelAssumption
      <4>2. \A u \in Task : pc'[u] = "claim" => prev'[u] <= currentIndex'
        BY <2>2, <3>1, ParallelAssumption DEF Indices, TypeOK, Index
      <4>3. \A i \in Item : claims'[i] = IF i < currentIndex' THEN 1 ELSE 0
        BY <2>2, <3>1, <3>3, ParallelAssumption DEF Indices, TypeOK, Item
      <4> QED BY <4>1, <4>2, <4>3 DEF Indices
    <3>6. Results'
      <4>1. \A u \in Task : pc'[u] \in {"work", "failing"} => index'[u] \in Item
        BY <3>1, <3>3 DEF Results, TypeOK
      <4>2. \A u \in Over' : failed' \/ currentIndex' >= LoopCount
        BY <2>2, <2>5, <3>1, <3>2, ParallelAssumption DEF Results
      <4>3. ASSUME NEW i \in Item, i < currentIndex'
            PROVE  \/ i \in finished'
                   \/ failed'
                   \/ \E u \in Task : pc'[u] \in {"work", "failing"} /\ index'[u] = i
        <5>1. CASE i = currentIndex
          BY <3>1, <5>1 DEF TypeOK
        <5>2. CASE i < currentIndex
          BY <1>8, <3>1, <5>2 DEF Claim, TypeOK, Results
        <5> QED
          BY <2>2, <4>3, <5>1, <5>2, ParallelAssumption DEF Item
      <4> QED
        BY <1>2, <1>5, <4>1, <4>2, <4>3 DEF Results, FulfilledIsComplete
    <3> QED BY <1>3, <1>4, <3>4, <3>5, <3>6
  <2> QED
    BY <2>2, <2>4, <2>5, ParallelAssumption
<1>9. CASE WorkSucceeds(t)
  <2>1. TypeOK' /\ Over' = Over
    BY <1>9 DEF WorkSucceeds, TypeOK, OnThread, Over, Results
  <2>2. Indices'
    BY <1>9, <2>1 DEF WorkSucceeds, TypeOK, Indices
  <2>3. Results'
    BY <1>9, <2>1, <1>5 DEF WorkSucceeds, TypeOK, Results, FulfilledIsComplete
  <2> QED BY <1>3, <1>4, <2>1, <2>2, <2>3
<1>10. CASE WorkFails(t)
  <2>1. TypeOK' /\ Over' = Over
    BY <1>10 DEF WorkFails, TypeOK, OnThread, Over
  <2>2. Indices'
    BY <1>10, <2>1 DEF WorkFails, TypeOK, Indices
  <2>3. Results'
    BY <1>10, <2>1, <1>5 DEF WorkFails, TypeOK, Results, FulfilledIsComplete
  <2> QED BY <1>3, <1>4, <2>1, <2>2, <2>3
<1>11. CASE StoreError(t)
  <2>1. TypeOK' /\ Over' = Over
    BY <1>11 DEF StoreError, TypeOK, OnThread, Over
  <2>2. Indices'
    BY <1>11, <2>1 DEF StoreError, TypeOK, Indices
  <2>3. Results'
    BY <1>11, <2>1, <1>5 DEF StoreError, TypeOK, Results, FulfilledIsComplete
  <2> QED BY <1>3, <1>4, <2>1, <2>2, <2>3
<1> QED
  BY <1>6, <1>7, <1>8, <1>9, <1>10, <1>11 DEF OnPool

LEMMA TaskDoneInv == Inv /\ (\E t \in Task : TaskDone(t)) => Inv'
<1> SUFFICES ASSUME Inv, NEW t \in Task, TaskDone(t) PROVE Inv'
  OBVIOUS
<1> USE TaskCountBounds DEF Inv
<1>1. /\ starting = 0 /\ starting' = 0
      /\ pc[t] = "ended" /\ outcome = "pending"
      /\ pc' = [pc EXCEPT ![t] = "done"]
      /\ pendingTasks' = pendingTasks - 1
      /\ IF pendingTasks - 1 <= 0
           THEN \E error \in BOOLEAN :
                  /\ failed => error
                  /\ failed' = error
                  /\ outcome' = Result(error)
           ELSE UNCHANGED <<failed, outcome>>
      /\ UNCHANGED <<prev, index, currentIndex, claims, finished>>
  BY DEF TaskDone, Returned, Remaining
<1>2. ActiveTasks' = ActiveTasks \ {t} /\ t \in ActiveTasks
  BY <1>1 DEF ActiveTasks, Active, OnThread, TypeOK
<1>3. /\ Cardinality(ActiveTasks') = pendingTasks - 1
      /\ IsFiniteSet(ActiveTasks')
      /\ pendingTasks - 1 \in Nat
  <2>1. /\ Cardinality(ActiveTasks \ {t}) = Cardinality(ActiveTasks) - 1
        /\ IsFiniteSet(ActiveTasks \ {t})
    BY <1>2, TasksFinite, FS_RemoveElement
  <2>2. Cardinality(ActiveTasks \ {t}) \in Nat
    BY <2>1, FS_CardinalityType
  <2> QED
    BY <1>2, <2>1, <2>2 DEF Pending
<1>4. failed => failed'
  <2>1. CASE pendingTasks - 1 <= 0
    BY <1>1, <2>1
  <2>2. CASE ~(pendingTasks - 1 <= 0)
    BY <1>1, <2>2
  <2> QED BY <2>1, <2>2
<1>5. Over' = Over /\ t \in Over
  BY <1>1 DEF Over, TypeOK
<1>6. TypeOK'
  BY <1>1, <1>3 DEF TypeOK, Result
<1>7. pendingTasks - 1 <= 0 => ActiveTasks' = {}
  BY <1>3, FS_EmptySet
<1>8. Starting'
  BY <1>1 DEF Starting, Result
<1>9. Pending'
  BY <1>1, <1>3, <1>7 DEF Pending
<1>10. Indices'
  BY <1>1, <1>5 DEF Indices, TypeOK
<1>11. outcome' = "fulfilled" => ~failed /\ ActiveTasks' = {}
  BY <1>1, <1>7 DEF Result
<1>12. outcome' = "fulfilled" => finished = Item
  <2> SUFFICES ASSUME outcome' = "fulfilled", NEW i \in Item PROVE i \in finished
    BY DEF TypeOK
  <2>1. currentIndex >= LoopCount
    BY <1>5, <1>11 DEF Results
  <2>2. i < currentIndex
    BY <2>1, ParallelAssumption DEF Item, TypeOK, Index
  <2>3. \A u \in Task : pc[u] \notin {"work", "failing"}
    BY <1>1, <1>2, <1>11 DEF ActiveTasks, Active, OnThread
  <2> QED
    BY <1>11, <2>2, <2>3 DEF Results
<1>13. Results'
  BY <1>1, <1>4, <1>5, <1>12 DEF Results, FulfilledIsComplete, TypeOK
<1> QED
  BY <1>6, <1>8, <1>9, <1>10, <1>13

LEMMA NextInv == Inv /\ [Next]_vars => Inv'
<1>1. ASSUME Inv, UNCHANGED vars PROVE Inv'
  BY <1>1 DEF Inv, vars, TypeOK, Starting, Pending, Indices, Results, ActiveTasks, Active,
              Over, FulfilledIsComplete
<1> QED
  BY <1>1, StartTaskInv, StartFailsInv, OnPoolInv, TaskDoneInv DEF Next

LEMMA Invariance == Spec => []Inv
  BY InitInv, NextInv, PTL DEF Spec
-----------------------------------------------------------------------------
(* The counters and the index keep their types: the count of pending tasks is
   never negative, and the index always fits its width. *)
THEOREM TypeCorrect == Spec => []TypeOK
<1>1. Inv => TypeOK
  BY DEF Inv
<1> QED
  BY <1>1, Invariance, PTL

(* No item is handed to two tasks, because the index cannot wrap. *)
THEOREM ItemsOnceInvariant == Spec => []ItemsOnce
<1>1. Inv => ItemsOnce
  BY DEF Inv, Indices, ItemsOnce
<1> QED
  BY <1>1, Invariance, PTL

(* The job is only completed, and the worker deleted, by the last callback. *)
THEOREM OutlivesInvariant == Spec => []NoTaskOutlivesWorker
<1>1. Inv => NoTaskOutlivesWorker
  BY DEF Inv, Pending, ActiveTasks, NoTaskOutlivesWorker
<1> QED
  BY <1>1, Invariance, PTL

(* The array of results is only returned when every item was deserialized. *)
THEOREM CompleteInvariant == Spec => []FulfilledIsComplete
<1>1. Inv => FulfilledIsComplete
  BY DEF Inv, Results
<1> QED
  BY <1>1, Invariance, PTL
-----------------------------------------------------------------------------
(* Refinement.                                                              *)

LEMMA NextRefines == Inv /\ [Next]_vars => [TheJob!Next]_(TheJob!jobVars)
<1> SUFFICES ASSUME Inv, [Next]_vars PROVE [TheJob!Next]_(TheJob!jobVars)
  OBVIOUS
<1> USE DEF TheJob!Next, TheJob!jobVars
<1> DEFINE touched == \E t \in Task : pc[t] \in OnThread
<1>1. touched => outcome = "pending"
  <2> SUFFICES ASSUME NEW t \in Task, pc[t] \in OnThread PROVE outcome = "pending"
    OBVIOUS
  <2>1. t \in ActiveTasks
    BY DEF ActiveTasks, Active
  <2>2. pc[t] # "none"
    BY DEF OnThread
  <2>3. outcome # "none"
    BY <2>2 DEF Inv, Starting, TypeOK, Task
  <2> QED
    BY <2>1, <2>3 DEF Inv, Pending, TypeOK
<1>2. CASE StartTask
  <2>1. starting \in Task /\ pc[starting] = "none" /\ outcome \in {"none", "pending"}
    BY <1>2, TaskCountBounds DEF StartTask, Returned, Inv, TypeOK, Starting, Task
  <2>2. touched' = touched
    BY <1>2, <2>1 DEF StartTask, Inv, TypeOK, OnThread
  <2>3. outcome' = "pending"
    BY <1>2 DEF StartTask
  <2> QED
    BY <2>1, <2>2, <2>3 DEF TheJob!Start
<1>3. CASE StartFails
  <2>1. outcome' = IF pendingTasks = 0 THEN "rejected" ELSE outcome
    BY <1>3 DEF StartFails
  <2>2. pendingTasks = 0 => outcome = "none"
    BY <1>3 DEF StartFails, Returned, Inv, TypeOK, Starting
  <2>3. touched' = touched
    BY <1>3 DEF StartFails
  <2> QED
    BY <2>1, <2>2, <2>3 DEF TheJob!Refuse
<1>4. ASSUME NEW t \in Task, OnPool(t) PROVE [TheJob!Next]_(TheJob!jobVars)
  <2>1. outcome' = outcome
    BY <1>4 DEF OnPool, TaskBegin, LoadIndex, Claim, WorkSucceeds, WorkFails, StoreError
  <2>2. Active(t)
    BY <1>4 DEF OnPool, TaskBegin, LoadIndex, Claim, WorkSucceeds, WorkFails, StoreError,
                Active, OnThread
  <2>3. outcome = "pending"
    BY <2>2 DEF Inv, Pending, ActiveTasks, Starting, TypeOK, Active, OnThread, Task
  <2>4. touched' = touched \/ touched' = ~touched
    OBVIOUS
  <2> QED
    BY <2>1, <2>3, <2>4 DEF TheJob!Touch
<1>5. ASSUME NEW t \in Task, TaskDone(t) PROVE [TheJob!Next]_(TheJob!jobVars)
  <2>1. outcome = "pending" /\ pc[t] = "ended" /\ pc' = [pc EXCEPT ![t] = "done"]
    BY <1>5 DEF TaskDone
  <2>2. touched' = touched
    BY <2>1 DEF Inv, TypeOK, OnThread
  <2>3. CASE outcome' = outcome
    BY <2>2, <2>3
  <2>4. CASE outcome' # outcome
    <3>1. outcome' \in {"fulfilled", "rejected"}
      BY <1>5, <2>4 DEF TaskDone, Result
    <3>2. ActiveTasks' = {}
      BY <1>5, <3>1, TaskDoneInv DEF Inv, Pending
    <3>3. ~touched'
      BY <3>2 DEF ActiveTasks, Active
    <3> QED
      BY <2>1, <2>2, <3>1, <3>3 DEF TheJob!Settle
  <2> QED BY <2>3, <2>4
<1>6. CASE UNCHANGED vars
  BY <1>6 DEF vars
<1> QED
  BY <1>2, <1>3, <1>4, <1>5, <1>6 DEF Next

(* The tasks together are one asynchronous job: refused by run() when none of
   them started, or settled once, when none of them runs any more. *)
THEOREM Implements == Spec => ImplementsAsyncJob
<1>1. Init => TheJob!Init
  BY TaskCountBounds DEF Init, TheJob!Init, OnThread
<1> QED
  BY <1>1, NextRefines, Invariance, PTL DEF Spec, ImplementsAsyncJob, TheJob!Safety
=============================================================================
