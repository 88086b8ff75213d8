------------------------ MODULE AsyncWorkers_proofs ------------------------
(***************************************************************************)
(* Theorems about AsyncWorkers, for any number of jobs and threads.        *)
(***************************************************************************)
EXTENDS AsyncWorkers, FiniteSetTheorems, TLAPS

Counted == { j \in Job : registered[j] }

\* What a job has told and what it still holds at each stage, and which job's
\* callback may be running.
StagesAgree ==
  /\ \A j \in Job : stage[j] = "none" => outcome[j] = "none"
  /\ \A j \in Job : stage[j] \in {"none", "prepared"} => ~registered[j]
  /\ \A j \in Job : stage[j] \in {"none", "prepared", "entered"} => ~deleted[j]
  /\ \A j \in Job : stage[j] = "none" => freeze[j] = "none" /\ ~failed[j]
  /\ \A j \in Job : stage[j] = "entered" => failed[j] \/ registered[j]
  /\ \A j \in Job : Beginning(j) \/ InFlight(j) => outcome[j] = "pending"
  /\ \A j \in Job : Beginning(j) => main = "running"
  /\ \A j \in Job : stage[j] = "settled" /\ ~deleted[j] => calling = j
  /\ calling # None => main = "running" /\ stage[calling] = "settled"
  /\ main = "exited" => active = 0

Inv == TypeOK /\ InFlightIsHeld /\ StagesAgree

LEMMA CountedFinite == IsFiniteSet(Counted) /\ Cardinality(Counted) \in Nat
<1>1. Counted \subseteq Job
  BY DEF Counted
<1> QED
  BY <1>1, WorkersAssumption, FS_Subset, FS_CardinalityType

LEMMA InitInv == Init => Inv
<1> SUFFICES ASSUME Init PROVE Inv
  OBVIOUS
<1>1. { j \in Job : registered[j] } = {}
  BY DEF Init
<1>2. Cardinality({ j \in Job : registered[j] }) = 0
  BY <1>1, FS_EmptySet
<1>3. TypeOK
  BY DEF Init, TypeOK
<1>4. InFlightIsHeld
  BY <1>2 DEF Init, InFlightIsHeld, InFlight
<1>5. StagesAgree
  BY DEF Init, StagesAgree, InFlight, Beginning
<1> QED
  BY <1>3, <1>4, <1>5 DEF Inv

(* The count follows the registered jobs when one comes or goes. *)
LEMMA CountIn ==
  ASSUME Inv, NEW j \in Job, ~registered[j], Counted' = Counted \cup {j},
         active' = active + 1
  PROVE  active' \in Nat /\ active' = Cardinality({ k \in Job : registered[k] })'
<1>1. active = Cardinality(Counted)
  BY DEF Inv, InFlightIsHeld, Counted
<1>2. j \notin Counted
  BY DEF Counted
<1>3. Cardinality(Counted \cup {j}) = Cardinality(Counted) + 1
  BY <1>2, CountedFinite, FS_AddElement
<1>4. active' \in Nat /\ active' = Cardinality(Counted')
  BY <1>1, <1>3, CountedFinite
<1> QED
  BY <1>4 DEF Counted

LEMMA CountOut ==
  ASSUME Inv, NEW j \in Job, registered[j], Counted' = Counted \ {j},
         active' = active - 1
  PROVE  active' \in Nat /\ active' = Cardinality({ k \in Job : registered[k] })'
<1>1. active = Cardinality(Counted)
  BY DEF Inv, InFlightIsHeld, Counted
<1>2. j \in Counted
  BY DEF Counted
<1>3. /\ IsFiniteSet(Counted \ {j})
      /\ Cardinality(Counted \ {j}) = Cardinality(Counted) - 1
  BY <1>2, CountedFinite, FS_RemoveElement
<1>4. Cardinality(Counted \ {j}) \in Nat
  BY <1>3, FS_CardinalityType
<1> QED
  BY <1>1, <1>3, <1>4 DEF Counted

LEMMA CountSame ==
  ASSUME Inv, Counted' = Counted, active' = active
  PROVE  active' \in Nat /\ active' = Cardinality({ k \in Job : registered[k] })'
  BY DEF Inv, TypeOK, InFlightIsHeld, Counted

(* _resolveOrReject leaves the job settled, released and uncounted, whatever it
   held before. *)
LEMMA ResolveInv ==
  ASSUME Inv, NEW j \in Job, NEW error \in BOOLEAN, ResolveOrReject(j, error),
         main = "running", UNCHANGED main,
         stage[j] = "entered" \/ InFlight(j)
  PROVE  Inv'
<1> USE WorkersAssumption
<1> DEFINE calls == j \notin Promised /\ calling = None
<1>1. /\ stage' = [stage EXCEPT ![j] = "settled"]
      /\ failed' = [failed EXCEPT ![j] = error]
      /\ freeze' = [freeze EXCEPT ![j] = Released(freeze[j])]
      /\ outcome' = [outcome EXCEPT ![j] = IF error THEN "rejected" ELSE "fulfilled"]
      /\ deleted' = [deleted EXCEPT ![j] = ~calls]
      /\ calling' = IF calls THEN j ELSE calling
      /\ registered' = [registered EXCEPT ![j] = FALSE]
      /\ active' = IF registered[j] THEN active - 1 ELSE active
      /\ main' = main
  BY DEF ResolveOrReject, Unregister, ShuttingDown
<1>2. active' \in Nat /\ active' = Cardinality({ k \in Job : registered[k] })'
  <2>1. CASE registered[j]
    <3>1. Counted' = Counted \ {j}
      BY <1>1, <2>1 DEF Counted, Inv, TypeOK
    <3> QED
      BY <1>1, <2>1, <3>1, CountOut
  <2>2. CASE ~registered[j]
    <3>1. Counted' = Counted
      BY <1>1, <2>2 DEF Counted, Inv, TypeOK
    <3> QED
      BY <1>1, <2>2, <3>1, CountSame
  <2> QED BY <2>1, <2>2 DEF Inv, TypeOK
<1>3. TypeOK'
  BY <1>1, <1>2 DEF Inv, TypeOK, Released
<1>4. Released(freeze[j]) # "held"
  BY DEF Released
<1>5. InFlightIsHeld'
  BY <1>1, <1>2, <1>4 DEF Inv, TypeOK, InFlightIsHeld, InFlight, Beginning
<1>6. StagesAgree'
  BY <1>1 DEF Inv, TypeOK, StagesAgree, InFlight, Beginning
<1> QED
  BY <1>3, <1>5, <1>6 DEF Inv

LEMMA NextInv == Inv /\ [Next]_vars => Inv'
<1> SUFFICES ASSUME Inv, [Next]_vars PROVE Inv'
  OBVIOUS
<1> USE WorkersAssumption
<1>1. ASSUME NEW j \in Job, Refuse(j) PROVE Inv'
  <2>1. main = "running"
    BY <1>1 DEF Refuse, Inv, StagesAgree, Beginning
  <2> QED
    BY <1>1, <2>1, ResolveInv DEF Refuse
<1>2. ASSUME NEW j \in Job, Prepare(j) PROVE Inv'
  <2>1. Counted' = Counted
    BY <1>2 DEF Prepare, Counted
  <2>2. active' \in Nat /\ active' = Cardinality({ k \in Job : registered[k] })'
    BY <1>2, <2>1, CountSame DEF Prepare
  <2>3. TypeOK'
    BY <1>2 DEF Prepare, Inv, TypeOK
  <2>4. InFlightIsHeld'
    BY <1>2, <2>2 DEF Prepare, Inv, TypeOK, InFlightIsHeld, InFlight, Beginning
  <2>5. StagesAgree'
    BY <1>2 DEF Prepare, Inv, TypeOK, StagesAgree, InFlight, Beginning
  <2> QED BY <2>3, <2>4, <2>5 DEF Inv
<1>3. ASSUME NEW j \in Job, Enter(j) PROVE Inv'
  <2>1. active' \in Nat /\ active' = Cardinality({ k \in Job : registered[k] })'
    <3>1. CASE Register(j)
      <4>1. ~registered[j]
        BY <1>3 DEF Enter, Inv, StagesAgree
      <4>2. Counted' = Counted \cup {j}
        BY <3>1 DEF Register, Counted, Inv, TypeOK
      <4> QED
        BY <3>1, <4>1, <4>2, CountIn DEF Register
    <3>2. CASE UNCHANGED <<registered, active>>
      BY <3>2, CountSame DEF Counted
    <3> QED
      BY <1>3, <3>1, <3>2 DEF Enter
  <2>2. TypeOK'
    BY <1>3, <2>1 DEF Enter, Register, Inv, TypeOK
  <2>3. InFlightIsHeld'
    BY <1>3, <2>1 DEF Enter, Register, Inv, TypeOK, InFlightIsHeld, InFlight, Beginning
  <2>4. StagesAgree'
    BY <1>3 DEF Enter, Register, Inv, TypeOK, StagesAgree, InFlight, Beginning
  <2> QED BY <2>2, <2>3, <2>4 DEF Inv
<1>4. ASSUME NEW j \in Job, AfterWork(j) PROVE Inv'
  <2>1. PICK error \in BOOLEAN : ResolveOrReject(j, error)
    BY <1>4 DEF AfterWork
  <2>2. InFlight(j)
    BY <1>4 DEF AfterWork, InFlight
  <2> QED
    BY <1>4, <2>1, <2>2, ResolveInv DEF AfterWork
<1>5. ASSUME stage' = stage, registered' = registered, freeze' = freeze, active' = active,
             \A j \in Job : InFlight(j) => deleted'[j] = deleted[j]
      PROVE  InFlightIsHeld'
  BY <1>5 DEF Inv, InFlightIsHeld, InFlight, Beginning
<1>6. CASE CallbackReturns
  <2>1. TypeOK' /\ StagesAgree'
    BY <1>6 DEF CallbackReturns, Inv, TypeOK, StagesAgree, InFlight, Beginning
  <2>2. ~InFlight(calling)
    BY <1>6 DEF CallbackReturns, Inv, TypeOK, StagesAgree, InFlight
  <2>3. InFlightIsHeld'
    BY <1>5, <1>6, <2>2 DEF CallbackReturns, Inv, TypeOK
  <2> QED BY <2>1, <2>3 DEF Inv
<1>7. CASE Teardown
  BY <1>5, <1>7 DEF Teardown, NotInRun, Inv, TypeOK, StagesAgree, InFlight, Beginning
<1>8. CASE TeardownEnds
  BY <1>5, <1>8 DEF TeardownEnds, Inv, TypeOK, StagesAgree, InFlight, Beginning
<1>9. ASSUME NEW j \in Job, Start(j) \/ WorkStart(j) \/ WorkEnd(j) PROVE Inv'
  <2>1. Counted' = Counted
    BY <1>9 DEF Start, WorkStart, WorkEnd, Counted
  <2>2. active' \in Nat /\ active' = Cardinality({ k \in Job : registered[k] })'
    BY <1>9, <2>1, CountSame DEF Start, WorkStart, WorkEnd
  <2>3. TypeOK'
    BY <1>9 DEF Start, WorkStart, WorkEnd, Inv, TypeOK
  <2>4. InFlightIsHeld'
    BY <1>9, <2>2 DEF Start, WorkStart, WorkEnd, Inv, TypeOK, InFlightIsHeld, InFlight, Beginning,
                      StagesAgree
  <2>5. StagesAgree'
    BY <1>9 DEF Start, WorkStart, WorkEnd, Inv, TypeOK, StagesAgree, InFlight, Beginning
  <2> QED BY <2>3, <2>4, <2>5 DEF Inv
<1>10. CASE UNCHANGED vars
  BY <1>10 DEF vars, Inv, TypeOK, InFlightIsHeld, StagesAgree, InFlight, Beginning
<1> QED
  BY <1>1, <1>2, <1>3, <1>4, <1>6, <1>7, <1>8, <1>9, <1>10 DEF Next

LEMMA Invariance == Spec => []Inv
  BY InitInv, NextInv, PTL DEF Spec
-----------------------------------------------------------------------------
(* The count of active workers never goes below zero, and no field leaves its
   type: Unregister gives back only what Register took. *)
THEOREM TypeCorrect == Spec => []TypeOK
<1>1. Inv => TypeOK
  BY DEF Inv
<1> QED
  BY <1>1, Invariance, PTL

(* The registered workers are the counted ones.  Those the pool or the event loop
   still knows are registered and freeze a bitmap, and outside run() no other
   worker does, however far run() got before it refused it. *)
THEOREM HeldInvariant == Spec => []InFlightIsHeld
<1>1. Inv => InFlightIsHeld
  BY DEF Inv
<1> QED
  BY <1>1, Invariance, PTL

(* ~AddonData does not return under a worker. *)
THEOREM ExitInvariant == Spec => []NoWorkerAfterExit
<1>1. Inv => NoWorkerAfterExit
  <2> SUFFICES ASSUME Inv, main = "exited", NEW j \in Job
               PROVE  ~InFlight(j) /\ (stage[j] = "settled" => deleted[j])
    BY DEF NoWorkerAfterExit
  <2>1. Cardinality(Counted) = 0
    BY DEF Inv, StagesAgree, InFlightIsHeld, Counted
  <2>2. \A k \in Job : ~registered[k]
    BY <2>1, CountedFinite, FS_EmptySet DEF Counted
  <2>3. calling = None
    BY DEF Inv, StagesAgree
  <2> QED
    BY <2>2, <2>3, WorkersAssumption DEF Inv, InFlightIsHeld, StagesAgree
<1> QED
  BY <1>1, Invariance, PTL
-----------------------------------------------------------------------------
(* Refinement: every step is, for every job, a step of AsyncJob or a stutter. *)

LEMMA NextRefines ==
  ASSUME Inv, [Next]_vars, NEW j \in Job
  PROVE  [AsyncJobOf(j)!Next]_(AsyncJobOf(j)!jobVars)
<1> USE WorkersAssumption DEF Inv, TypeOK, AsyncJobOf!Next, AsyncJobOf!jobVars
<1>1. ASSUME NEW k \in Job, Refuse(k) PROVE [AsyncJobOf(j)!Next]_(AsyncJobOf(j)!jobVars)
  BY <1>1 DEF Refuse, ResolveOrReject, ShuttingDown, AsyncJobOf!Settle, StagesAgree, Beginning
<1>2. ASSUME NEW k \in Job, Prepare(k) PROVE [AsyncJobOf(j)!Next]_(AsyncJobOf(j)!jobVars)
  BY <1>2 DEF Prepare, AsyncJobOf!Start, StagesAgree
<1>3. ASSUME NEW k \in Job, AfterWork(k) PROVE [AsyncJobOf(j)!Next]_(AsyncJobOf(j)!jobVars)
  BY <1>3 DEF AfterWork, ResolveOrReject, ShuttingDown, AsyncJobOf!Settle, StagesAgree, InFlight
<1>4. ASSUME NEW k \in Job, Enter(k) \/ Start(k) \/ WorkStart(k) \/ WorkEnd(k)
      PROVE  [AsyncJobOf(j)!Next]_(AsyncJobOf(j)!jobVars)
  BY <1>4 DEF Enter, Start, WorkStart, WorkEnd, AsyncJobOf!Touch, StagesAgree, InFlight
<1>5. CASE CallbackReturns \/ Teardown \/ TeardownEnds \/ UNCHANGED vars
  BY <1>5 DEF CallbackReturns, Teardown, TeardownEnds, vars
<1> QED
  BY <1>1, <1>2, <1>3, <1>4, <1>5 DEF Next

(* Every worker is an asynchronous job to its caller: refused in run() or after
   the pool thread is done with its input, it tells once. *)
THEOREM Implements == Spec => ImplementsAsyncJob
<1>1. Init => \A j \in Job : AsyncJobOf(j)!Init
  BY DEF Init, AsyncJobOf!Init
<1>2. Inv /\ [Next]_vars =>
        [\A j \in Job : [AsyncJobOf(j)!Next]_(AsyncJobOf(j)!jobVars)]_vars
  BY NextRefines
<1> QED
  BY <1>1, <1>2, Invariance, PTL DEF Spec, ImplementsAsyncJob
=============================================================================
