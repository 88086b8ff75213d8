------------------------------ MODULE AsyncJob ------------------------------
(***************************************************************************)
(* What an asynchronous method promises its caller: it is refused at once, *)
(* or it reads its input on other threads for a while and then, when no    *)
(* thread does any more, settles exactly once.                             *)
(***************************************************************************)
VARIABLES
  outcome,  \* what the caller was told
  touched   \* a pool thread is using the input of the operation

jobVars == <<outcome, touched>>

Told == outcome \in {"fulfilled", "rejected"}

Init == outcome = "none" /\ touched = FALSE

Refuse == outcome = "none" /\ outcome' = "rejected" /\ UNCHANGED touched

Start == outcome = "none" /\ outcome' = "pending" /\ touched' \in BOOLEAN

Touch == outcome = "pending" /\ touched' = ~touched /\ UNCHANGED outcome

Settle ==
  /\ outcome = "pending"
  /\ ~touched
  /\ outcome' \in {"fulfilled", "rejected"}
  /\ UNCHANGED touched

Next == Refuse \/ Start \/ Touch \/ Settle

Safety == Init /\ [][Next]_jobVars

\* Who was told to wait is told in the end.
Progress == outcome = "pending" ~> Told

Spec == Safety /\ Progress
=============================================================================
