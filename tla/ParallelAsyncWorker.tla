------------------------ MODULE ParallelAsyncWorker ------------------------
(***************************************************************************)
(* One ParallelAsyncWorker: the main thread queues several tasks of the    *)
(* same job on the libuv thread pool, the tasks share an atomic index and  *)
(* an error that is not atomic, and the last after-work callback completes *)
(* the job.                                                                *)
(***************************************************************************)
EXTENDS Integers, FiniteSets, FiniteSetsExt

CONSTANTS
  Concurrency,   \* the tasks wanted: the CPU count when not set
  LoopCount,     \* the number of items
  IndexModulus   \* 2^32 in the code: _currentIndex is a uint32_t

\* The code rejects more than 0x01FFFFFF items, and there are far fewer CPUs
\* than the 2^32 - 0x01FFFFFF indices that are left.
ASSUME ParallelAssumption ==
  /\ Concurrency \in Nat \ {0}
  /\ LoopCount \in Nat
  /\ IndexModulus \in Nat
  /\ LoopCount + Concurrency < IndexModulus

TaskCount == Max({1, Min({Concurrency, LoopCount})})
Task == 1 .. TaskCount
Item == 0 .. LoopCount - 1
Index == 0 .. IndexModulus - 1

VARIABLES
  starting,      \* _start is queueing this task; 0 once it returned
  pc,            \* where a task is
  prev,          \* prevIndex
  index,         \* index
  currentIndex,  \* _currentIndex, or the loop variable of work() for one task
  pendingTasks,  \* _pendingTasks
  failed,        \* _error.hasError()
  claims,        \* how often an item was handed to parallelWork
  finished,      \* the items deserialized without an error
  outcome        \* what the caller was told; the worker is deleted with it

vars == <<starting, pc, prev, index, currentIndex, pendingTasks, failed, claims,
          finished, outcome>>

\* The states of a task on a pool thread.
OnThread == {"check", "claim", "work", "failing"}

TypeOK ==
  /\ starting \in 0 .. TaskCount
  /\ pc \in [Task -> {"none", "queued", "ended", "done"} \cup OnThread]
  /\ prev \in [Task -> Index]
  /\ index \in [Task -> Index]
  /\ currentIndex \in Index
  /\ pendingTasks \in 0 .. TaskCount
  /\ failed \in BOOLEAN
  /\ claims \in [Item -> Nat]
  /\ finished \subseteq Item
  /\ outcome \in {"none", "pending", "fulfilled", "rejected"}

Init ==
  /\ starting = 1
  /\ pc = [t \in Task |-> "none"]
  /\ prev = [t \in Task |-> 0]
  /\ index = [t \in Task |-> 0]
  /\ currentIndex = 0
  /\ pendingTasks = 0
  /\ failed = FALSE
  /\ claims = [i \in Item |-> 0]
  /\ finished = {}
  /\ outcome = "none"
-----------------------------------------------------------------------------
(* The main thread, in run().  The pool may run a task as soon as it is      *)
(* queued, but no after-work callback runs before run() returns.             *)

Returned == starting = 0

\* Faulty: the tasks are counted before it is known that they start.
StartTaskCountingAll ==
  /\ ~Returned
  /\ pc' = [pc EXCEPT ![starting] = "queued"]
  /\ pendingTasks' = TaskCount
  /\ starting' = (starting + 1) % (TaskCount + 1)
  /\ outcome' = "pending"
  /\ UNCHANGED <<prev, index, currentIndex, failed, claims, finished>>

\* uv_queue_work took the task.
StartTask ==
  /\ ~Returned
  /\ pc' = [pc EXCEPT ![starting] = "queued"]
  /\ pendingTasks' = pendingTasks + 1
  /\ starting' = (starting + 1) % (TaskCount + 1)
  /\ outcome' = "pending"
  /\ UNCHANGED <<prev, index, currentIndex, failed, claims, finished>>

\* Faulty: the job is refused although some of its tasks run.
StartFailsRefusing ==
  /\ ~Returned
  /\ failed' = TRUE
  /\ starting' = 0
  /\ outcome' = "rejected"
  /\ UNCHANGED <<pc, prev, index, currentIndex, pendingTasks, claims, finished>>

\* uv_queue_work failed: no further task is tried.  With no task at all the
\* job is refused; otherwise the tasks already queued complete it.
StartFails ==
  /\ ~Returned
  /\ failed' = TRUE
  /\ starting' = 0
  /\ outcome' = IF pendingTasks = 0 THEN "rejected" ELSE outcome
  /\ UNCHANGED <<pc, prev, index, currentIndex, pendingTasks, claims, finished>>
-----------------------------------------------------------------------------
(* A task on a pool thread.                                                  *)

TaskBegin(t) ==
  /\ pc[t] = "queued"
  /\ pc' = [pc EXCEPT ![t] = "check"]
  /\ UNCHANGED <<starting, prev, index, currentIndex, pendingTasks, failed, claims,
                 finished, outcome>>

\* The loop condition, then the load of the index.
LoadIndex(t) ==
  /\ pc[t] = "check"
  /\ IF failed THEN pc' = [pc EXCEPT ![t] = "ended"] /\ UNCHANGED prev
     ELSE /\ pc' = [pc EXCEPT ![t] = "claim"]
          /\ prev' = [prev EXCEPT ![t] = currentIndex]
  /\ UNCHANGED <<starting, index, currentIndex, pendingTasks, failed, claims,
                 finished, outcome>>

\* What a task does with the index it took.
Take(t, i) ==
  /\ index' = [index EXCEPT ![t] = i]
  /\ IF i >= LoopCount \/ i < prev[t]
       THEN pc' = [pc EXCEPT ![t] = "ended"] /\ UNCHANGED claims
       ELSE /\ pc' = [pc EXCEPT ![t] = "work"]
            /\ claims' = [claims EXCEPT ![i] = @ + 1]

\* Faulty: the index that was loaded is used, not the one fetch_add returned.
ClaimLoaded(t) ==
  /\ pc[t] = "claim"
  /\ Take(t, prev[t])
  /\ currentIndex' = (currentIndex + 1) % IndexModulus
  /\ UNCHANGED <<starting, prev, pendingTasks, failed, finished, outcome>>

\* fetch_add.
Claim(t) ==
  /\ pc[t] = "claim"
  /\ Take(t, currentIndex)
  /\ currentIndex' = (currentIndex + 1) % IndexModulus
  /\ UNCHANGED <<starting, prev, pendingTasks, failed, finished, outcome>>

\* parallelWork: the item is deserialized, or has an error to report.
WorkSucceeds(t) ==
  /\ pc[t] = "work"
  /\ finished' = finished \cup {index[t]}
  /\ pc' = [pc EXCEPT ![t] = "check"]
  /\ UNCHANGED <<starting, prev, index, currentIndex, pendingTasks, failed, claims,
                 outcome>>

\* setError looks whether there is an error already, without synchronisation ...
WorkFails(t) ==
  /\ pc[t] = "work"
  /\ pc' = [pc EXCEPT ![t] = IF failed THEN "check" ELSE "failing"]
  /\ UNCHANGED <<starting, prev, index, currentIndex, pendingTasks, failed, claims,
                 finished, outcome>>

\* ... and stores its own: two tasks may both come this far, in which case the
\* later one overwrites the other.
StoreError(t) ==
  /\ pc[t] = "failing"
  /\ failed' = TRUE
  /\ pc' = [pc EXCEPT ![t] = "check"]
  /\ UNCHANGED <<starting, prev, index, currentIndex, pendingTasks, claims, finished,
                 outcome>>
-----------------------------------------------------------------------------
(* The after-work callback, from the event loop of the main thread.          *)

\* Faulty: any callback completes the job; a task is counted twice.
RemainingIgnored(n) == 0
RemainingTwice(n) == n - 2

Remaining(n) == n - 1

\* Faulty: done() ignores the error of an item.
FulfilledAnyway(error) == "fulfilled"

Result(error) == IF error THEN "rejected" ELSE "fulfilled"

TaskDone(t) ==
  /\ Returned
  /\ pc[t] = "ended"
  /\ outcome = "pending"
  /\ pc' = [pc EXCEPT ![t] = "done"]
  /\ pendingTasks' = Remaining(pendingTasks)
  /\ IF Remaining(pendingTasks) <= 0
       THEN \E error \in BOOLEAN :
              /\ failed => error
              /\ failed' = error
              /\ outcome' = Result(error)
       ELSE UNCHANGED <<failed, outcome>>
  /\ UNCHANGED <<starting, prev, index, currentIndex, claims, finished>>
-----------------------------------------------------------------------------
OnPool(t) ==
  \/ TaskBegin(t)
  \/ LoadIndex(t)
  \/ Claim(t)
  \/ WorkSucceeds(t)
  \/ WorkFails(t)
  \/ StoreError(t)

Next ==
  \/ StartTask
  \/ StartFails
  \/ \E t \in Task : OnPool(t)
  \/ \E t \in Task : TaskDone(t)

\* run() returns, threads run, the event loop turns.
Fairness ==
  /\ WF_vars(StartTask)
  /\ \A t \in Task : WF_vars(OnPool(t)) /\ WF_vars(TaskDone(t))

Spec == Init /\ [][Next]_vars /\ Fairness
-----------------------------------------------------------------------------
Active(t) == pc[t] \in {"queued", "ended"} \cup OnThread

\* No item is deserialized twice, by two tasks or after the index wrapped.
ItemsOnce == \A i \in Item : claims[i] <= 1

\* The worker outlives its tasks: it is completed and deleted only when every
\* task that was queued has had its after-work callback.
NoTaskOutlivesWorker ==
  outcome \in {"fulfilled", "rejected"} => \A t \in Task : ~Active(t)

\* The result array is only built from items that were all deserialized.
FulfilledIsComplete == outcome = "fulfilled" => finished = Item

\* The tasks together are one AsyncJob, started or refused by run(), ...
TheJob == INSTANCE AsyncJob WITH
  outcome <- outcome, touched <- \E t \in Task : pc[t] \in OnThread

ImplementsAsyncJob == TheJob!Safety

\* ... and settled in the end, although some tasks may not have started.
JobIsTold == TheJob!Progress
=============================================================================
