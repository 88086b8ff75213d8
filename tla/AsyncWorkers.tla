---------------------------- MODULE AsyncWorkers ----------------------------
(***************************************************************************)
(* The life of AsyncWorker objects from run() to delete, on the main       *)
(* thread, the libuv thread pool and the event loop, with the count of     *)
(* active workers that AddonData keeps and waits for when the environment  *)
(* is torn down.                                                           *)
(***************************************************************************)
EXTENDS Integers, FiniteSets

CONSTANTS
  Job,      \* the AsyncWorker objects
  Promised, \* those that settle a promise; the others call a callback
  Threads,  \* the number of threads of the pool
  None      \* no job

ASSUME WorkersAssumption ==
  /\ IsFiniteSet(Job)
  /\ Promised \subseteq Job
  /\ Threads \in Nat \ {0}
  /\ None \notin Job

VARIABLES
  stage,        \* where the job is: in run(), known to the pool, or settled
  failed,       \* _error.hasError()
  registered,   \* _registeredWithAddon
  freeze,       \* what before() froze: nothing yet, held, or released by finally()
  outcome,      \* what the caller was told
  deleted,      \* the worker was deleted
  active,       \* AddonData::activeAsyncWorkers
  main,         \* the main thread: its event loop, ~AddonData, or gone
  calling       \* the job whose callback is running in user code

vars == <<stage, failed, registered, freeze, outcome, deleted, active, main, calling>>

ShuttingDown == main # "running"   \* AddonData::shuttingDown

TypeOK ==
  /\ stage \in [Job -> {"none", "prepared", "entered", "queued", "working", "worked", "settled"}]
  /\ failed \in [Job -> BOOLEAN]
  /\ registered \in [Job -> BOOLEAN]
  /\ freeze \in [Job -> {"none", "held", "released"}]
  /\ outcome \in [Job -> {"none", "pending", "fulfilled", "rejected"}]
  /\ deleted \in [Job -> BOOLEAN]
  /\ active \in Nat
  /\ main \in {"running", "waiting", "exited"}
  /\ calling \in Job \cup {None}

Init ==
  /\ stage = [j \in Job |-> "none"]
  /\ failed = [j \in Job |-> FALSE]
  /\ registered = [j \in Job |-> FALSE]
  /\ freeze = [j \in Job |-> "none"]
  /\ outcome = [j \in Job |-> "none"]
  /\ deleted = [j \in Job |-> FALSE]
  /\ active = 0
  /\ main = "running"
  /\ calling = None
-----------------------------------------------------------------------------
\* run() has called before() and has neither queued nor refused the job.
Beginning(j) == stage[j] \in {"prepared", "entered"}

\* The main thread is not in the middle of run().
NotInRun == \A j \in Job : ~Beginning(j)
-----------------------------------------------------------------------------
(* Registration with AddonData.                                             *)

\* tryEnterAsyncWorker: JavaScript only runs before the shutdown.
Register(j) ==
  /\ registered' = [registered EXCEPT ![j] = TRUE]
  /\ active' = active + 1

\* Faulty: the count is given back even by a worker that never took it.
UnregisterAlways(j) ==
  /\ active' = active - 1
  /\ registered' = [registered EXCEPT ![j] = FALSE]

Unregister(j) ==
  /\ active' = IF registered[j] THEN active - 1 ELSE active
  /\ registered' = [registered EXCEPT ![j] = FALSE]

Released(f) == IF f = "held" THEN "released" ELSE f

\* Faulty: finally() only runs when done() did.
ResolveOrRejectNoFinally(j, error) ==
  /\ Unregister(j)
  /\ stage' = [stage EXCEPT ![j] = "settled"]
  /\ failed' = [failed EXCEPT ![j] = error]
  /\ freeze' = [freeze EXCEPT ![j] = IF error THEN @ ELSE Released(@)]
  /\ outcome' = [outcome EXCEPT ![j] = IF error THEN "rejected" ELSE "fulfilled"]
  /\ deleted' = [deleted EXCEPT ![j] = j \in Promised]
  /\ calling' = IF j \in Promised THEN calling ELSE j

\* Faulty: an error is not reported.
ResolveOrRejectSilently(j, error) ==
  /\ Unregister(j)
  /\ stage' = [stage EXCEPT ![j] = "settled"]
  /\ failed' = [failed EXCEPT ![j] = error]
  /\ freeze' = [freeze EXCEPT ![j] = Released(@)]
  /\ outcome' = [outcome EXCEPT ![j] = IF error THEN @ ELSE "fulfilled"]
  /\ deleted' = [deleted EXCEPT ![j] = TRUE]
  /\ UNCHANGED calling

\* _resolveOrReject: unregister, done, finally, tell the caller, delete.  A
\* promise is settled after the delete, a callback called before it; during the
\* shutdown nobody is told.  A callback called in a callback, by run(), returns
\* at once.
ResolveOrReject(j, error) ==
  LET calls == j \notin Promised /\ ~ShuttingDown /\ calling = None IN
  /\ Unregister(j)
  /\ stage' = [stage EXCEPT ![j] = "settled"]
  /\ failed' = [failed EXCEPT ![j] = error]
  /\ freeze' = [freeze EXCEPT ![j] = Released(@)]
  /\ outcome' = [outcome EXCEPT ![j] =
       IF ShuttingDown THEN @ ELSE IF error THEN "rejected" ELSE "fulfilled"]
  /\ deleted' = [deleted EXCEPT ![j] = ~calls]
  /\ calling' = IF calls THEN j ELSE calling
-----------------------------------------------------------------------------
(* The main thread.  JavaScript runs in the event loop or, inside it, in the *)
(* callback of a job.                                                        *)

\* run(): the caller has a promise to wait for, or its callback; before() freezes
\* the bitmap, reports an error, or throws, which is neither frozen nor failed.
Prepare(j) ==
  /\ main = "running"
  /\ NotInRun
  /\ stage[j] = "none"
  /\ stage' = [stage EXCEPT ![j] = "prepared"]
  /\ outcome' = [outcome EXCEPT ![j] = "pending"]
  /\ \/ /\ freeze' = [freeze EXCEPT ![j] = "held"]
        /\ UNCHANGED failed
     \/ /\ \E error \in BOOLEAN : failed' = [failed EXCEPT ![j] = error]
        /\ UNCHANGED freeze
  /\ UNCHANGED <<registered, deleted, active, main, calling>>

\* run(): a worker without an error, if only because before() threw, registers,
\* for which there may be no addon data.
Enter(j) ==
  /\ stage[j] = "prepared"
  /\ stage' = [stage EXCEPT ![j] = "entered"]
  /\ \/ /\ ~failed[j]
        /\ Register(j)
        /\ UNCHANGED failed
     \/ /\ failed' = [failed EXCEPT ![j] = TRUE]
        /\ UNCHANGED <<registered, active>>
  /\ UNCHANGED <<freeze, outcome, deleted, main, calling>>

\* run(): uv_queue_work takes the task ...
Start(j) ==
  /\ stage[j] = "entered"
  /\ ~failed[j]
  /\ freeze[j] = "held"
  /\ stage' = [stage EXCEPT ![j] = "queued"]
  /\ UNCHANGED <<failed, registered, freeze, outcome, deleted, active, main, calling>>

\* ... or not, or before() or the registration failed: the job is refused with
\* whatever it has taken until then.
Refuse(j) ==
  /\ stage[j] = "entered"
  /\ ResolveOrReject(j, TRUE)
  /\ UNCHANGED main

\* Faulty: the completion does not wait for the thread.
AfterWorkEarly(j) ==
  /\ main = "running"
  /\ NotInRun
  /\ calling = None
  /\ stage[j] \in {"working", "worked"}
  /\ \E error \in BOOLEAN : ResolveOrReject(j, error)
  /\ UNCHANGED main

\* _done, from the event loop, which ~AddonData blocks: done() may still set an error.
AfterWork(j) ==
  /\ main = "running"
  /\ NotInRun
  /\ calling = None
  /\ stage[j] = "worked"
  /\ \E error \in BOOLEAN :
       /\ failed[j] => error
       /\ ResolveOrReject(j, error)
  /\ UNCHANGED main

\* The user's callback returns or throws: the worker is deleted.
CallbackReturns ==
  /\ NotInRun
  /\ calling # None
  /\ deleted' = [deleted EXCEPT ![calling] = TRUE]
  /\ calling' = None
  /\ UNCHANGED <<stage, failed, registered, freeze, outcome, active, main>>

\* The environment cleanup hook deletes AddonData on the main thread, when the
\* event loop ran dry or, in a worker_threads thread, when it is terminated.
Teardown ==
  /\ main = "running"
  /\ NotInRun
  /\ calling = None
  /\ main' = "waiting"
  /\ UNCHANGED <<stage, failed, registered, freeze, outcome, deleted, active, calling>>

\* Faulty: the hook does not wait.
TeardownEndsAtOnce ==
  /\ main = "waiting"
  /\ main' = "exited"
  /\ UNCHANGED <<stage, failed, registered, freeze, outcome, deleted, active, calling>>

\* waitForAsyncWorkersToFinish returns.
TeardownEnds ==
  /\ main = "waiting"
  /\ active = 0
  /\ main' = "exited"
  /\ UNCHANGED <<stage, failed, registered, freeze, outcome, deleted, active, calling>>
-----------------------------------------------------------------------------
(* The thread pool.                                                         *)

WorkStart(j) ==
  /\ stage[j] = "queued"
  /\ Cardinality({ k \in Job : stage[k] = "working" }) < Threads
  /\ stage' = [stage EXCEPT ![j] = "working"]
  /\ UNCHANGED <<failed, registered, freeze, outcome, deleted, active, main, calling>>

WorkEnd(j) ==
  /\ stage[j] = "working"
  /\ stage' = [stage EXCEPT ![j] = "worked"]
  /\ \E error \in BOOLEAN : failed' = [failed EXCEPT ![j] = error]
  /\ UNCHANGED <<registered, freeze, outcome, deleted, active, main, calling>>
-----------------------------------------------------------------------------
Next ==
  \/ \E j \in Job : Prepare(j)
  \/ \E j \in Job : Enter(j)
  \/ \E j \in Job : Start(j)
  \/ \E j \in Job : Refuse(j)
  \/ \E j \in Job : AfterWork(j)
  \/ CallbackReturns
  \/ Teardown
  \/ TeardownEnds
  \/ \E j \in Job : WorkStart(j)
  \/ \E j \in Job : WorkEnd(j)

\* A call of run() that was begun goes on, the pool runs what is queued and every
\* work() ends, the event loop calls what is due, user callbacks return.  Nothing
\* obliges the user to call run() or the environment to end.
Fairness ==
  /\ \A j \in Job : WF_vars(Enter(j)) /\ WF_vars(Start(j) \/ Refuse(j))
  /\ \A j \in Job : WF_vars(WorkStart(j)) /\ WF_vars(WorkEnd(j)) /\ WF_vars(AfterWork(j))
  /\ WF_vars(CallbackReturns)
  /\ WF_vars(TeardownEnds)

Spec == Init /\ [][Next]_vars /\ Fairness
-----------------------------------------------------------------------------
InFlight(j) == stage[j] \in {"queued", "working", "worked"}

\* A worker that the pool or the event loop still knows is registered, not
\* deleted and holds its freeze; outside run() no other worker is registered or
\* holds a freeze, however far run() got before it was refused.  The registered
\* workers are the counted ones.
InFlightIsHeld ==
  /\ active = Cardinality({ j \in Job : registered[j] })
  /\ \A j \in Job :
       /\ InFlight(j) => registered[j] /\ freeze[j] = "held" /\ ~deleted[j]
       /\ registered[j] \/ freeze[j] = "held" => InFlight(j) \/ Beginning(j)

\* AddonData is only gone when no worker can touch it again: none is on a
\* thread, and none has its completion still to run.
NoWorkerAfterExit ==
  main = "exited" => \A j \in Job : ~InFlight(j) /\ (stage[j] = "settled" => deleted[j])

\* Every job is an AsyncJob to its caller: told once, and only when no thread uses
\* its input, be it refused by run() or completed.  This is \A j \in Job : AsyncJobOf(j)!Safety with
\* the quantifier moved inside.
AsyncJobOf(j) == INSTANCE AsyncJob WITH
  outcome <- outcome[j], touched <- stage[j] = "working"

ImplementsAsyncJob ==
  /\ \A j \in Job : AsyncJobOf(j)!Init
  /\ [][\A j \in Job : [AsyncJobOf(j)!Next]_(AsyncJobOf(j)!jobVars)]_vars

\* As long as the environment lives, whoever called run() is told, whether the job
\* was refused on the way or ran.
EveryJobIsTold == []~ShuttingDown => \A j \in Job : AsyncJobOf(j)!Progress

\* "Called after the thread completes, with or without errors, in the main
\* thread": the end of the work is followed by finally().
FinallyIsCalled ==
  \A j \in Job : stage[j] = "worked" ~> freeze[j] = "released"
=============================================================================
