--------------------------- MODULE OrderedIteration ---------------------------
(***************************************************************************)
(* What one iterator over a bitmap promises: the values the bitmap held    *)
(* when the first one was asked for, each once, in order, and the end only *)
(* after the last of them.  The caller may stop at any time, and a bitmap  *)
(* changed meanwhile may end the iteration with an error instead.          *)
(***************************************************************************)
EXTENDS Naturals, Sequences

CONSTANT Ordered  \* from sets of values to their values, in the order of the iterator

VARIABLES
  bits,     \* the content of the bitmap now
  taken,    \* the values the iteration goes over, in order
  yielded,  \* the values handed to the caller
  phase     \* "ready", "going", "ended" by the last value, "failed", "stopped"

vars == <<bits, taken, yielded, phase>>

Init ==
  /\ taken = <<>>
  /\ yielded = <<>>
  /\ phase \in {"ready", "ended"}  \* an iterator over nothing has ended

Change == bits' # bits /\ UNCHANGED <<taken, yielded, phase>>

\* The first value fixes the order; the empty bitmap ends at once.
First ==
  /\ phase = "ready"
  /\ taken' = Ordered[bits]
  /\ \/ taken' = <<>> /\ phase' = "ended" /\ UNCHANGED yielded
     \/ taken' # <<>> /\ phase' = "going" /\ yielded' = <<Head(taken')>>
  /\ UNCHANGED bits

Yield ==
  /\ phase = "going"
  /\ Len(yielded) < Len(taken)
  /\ yielded' = Append(yielded, taken[Len(yielded) + 1])
  /\ UNCHANGED <<bits, taken, phase>>

End ==
  /\ phase = "going"
  /\ yielded = taken
  /\ phase' = "ended"
  /\ UNCHANGED <<bits, taken, yielded>>

Fail ==
  /\ phase = "going"
  /\ phase' = "failed"
  /\ UNCHANGED <<bits, taken, yielded>>

Stop ==
  /\ phase \in {"ready", "going", "failed"}
  /\ phase' = "stopped"
  /\ UNCHANGED <<bits, taken, yielded>>

Next == Change \/ First \/ Yield \/ End \/ Fail \/ Stop

Spec == Init /\ [][Next]_vars
=============================================================================
