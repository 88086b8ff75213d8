---------------------------- MODULE IntegerSet -----------------------------
(* What a RoaringBitmap32 promises to JavaScript: it behaves like a set of   *)
(* integers of a limited width.  A method is called with numbers, or with    *)
(* the values of other bitmaps; the call changes the set and has an answer,  *)
(* which is then taken.  Nothing of containers, of cached cardinalities or   *)
(* of the arithmetic on arguments is seen here.                              *)
(*                                                                           *)
(* Numbers are counted in halves, so that there are fractions: n is n/2.  An *)
(* answer is a set, with one element unless there is nothing to answer.      *)
EXTENDS Integers, Sequences, FiniteSets, FiniteSetsExt, SequencesExt

CONSTANTS Width,     \* the integers are 0 .. Width - 1 (2^32)
          NaN,       \* the number that is none
          Undefined  \* an argument that is left out

VARIABLES set, call, ret

Integer == 0 .. Width - 1
Idle == [op |-> "idle"]
Nothing == {}

IsNumber(n) == n \notin {NaN, Undefined}
Truncated(n) == IF n >= 0 THEN n \div 2 ELSE -((-n) \div 2)

(* The integers that arguments stand for: a fraction is cut off, and what    *)
(* is no integer of the width is ignored.                                    *)
Integers(args) == {Truncated(n) : n \in {m \in ToSet(args) : IsNumber(m)}} \cap Integer
(* The elements a typed array would have: they wrap around, and NaN is zero. *)
Elements(args) == {IF IsNumber(n) THEN Truncated(n) % Width ELSE 0 : n \in ToSet(args)}

(* The integers from a number on that are less than another one. *)
Between(min, max) ==
    {v \in Integer : /\ NaN \notin {min, max}
                     /\ min # Undefined => 2 * v >= min
                     /\ max # Undefined => 2 * v < max}
Stepped(S, step) ==
    LET n == IF IsNumber(step) THEN Truncated(step) % Width ELSE 0
    IN  {v \in S : (v - Min(S)) % (IF n = 0 THEN 1 ELSE n) = 0}
Moved(S, n) == {v + (IF IsNumber(n) THEN Truncated(n) ELSE 0) : v \in S} \cap Integer

After(S, c) ==
    CASE c.op \in {"add", "tryAdd"}          -> S \cup Integers(c.args)
      [] c.op = "remove"                     -> S \ Integers(c.args)
      [] c.op = "addMany"                    -> S \cup Elements(c.args)
      [] c.op = "removeMany"                 -> S \ Elements(c.args)
      [] c.op = "copyElements"               -> Elements(c.args)
      [] c.op = "addRange"                   -> S \cup Between(c.args[1], c.args[2])
      [] c.op = "removeRange"                -> S \ Between(c.args[1], c.args[2])
      [] c.op = "flipRange"                  -> SymDiff(S, Between(c.args[1], c.args[2]))
      [] c.op = "fromRange"                  -> Stepped(Between(c.args[1], c.args[2]), c.args[3])
      [] c.op = "addOffset"                  -> Moved(S, c.args)
      [] c.op = "copyFrom"                   -> c.args
      [] c.op \in {"addBitmap", "or"}        -> S \cup c.args
      [] c.op \in {"andInPlace", "and"}      -> S \cap c.args
      [] c.op \in {"xorInPlace", "xor"}      -> SymDiff(S, c.args)
      [] c.op \in {"removeBitmap", "andNot"} -> S \ c.args
      [] c.op = "andNotOf"                   -> c.args \ S
      [] c.op = "orMany"                     -> UNION ToSet(c.args)
      [] c.op = "xorMany"                    -> {v \in UNION ToSet(c.args) : Cardinality({i \in DOMAIN c.args : v \in c.args[i]}) % 2 = 1}
      [] c.op = "pop"                        -> S \ {v \in S : \A w \in S : w <= v}
      [] c.op = "shift"                      -> S \ {v \in S : \A w \in S : w >= v}
      [] c.op = "clear"                      -> {}
      [] c.op \in {"runOptimize", "removeRunCompression"} -> S

(* What a call may answer.  How the set is stored is not promised. *)
Answers(S, c) ==
    CASE c.op = "tryAdd" -> {{Integers(c.args) \ S # {}}}
      [] c.op = "remove" -> {{Integers(c.args) \cap S # {}}}
      [] c.op = "pop"    -> {{v \in S : \A w \in S : w <= v}}
      [] c.op = "shift"  -> {{v \in S : \A w \in S : w >= v}}
      [] c.op = "clear"  -> {{S # {}}}
      [] c.op \in {"runOptimize", "removeRunCompression"} -> {{TRUE}, {FALSE}}
      [] OTHER -> {Nothing}

Init == set = {} /\ call = Idle /\ ret = Nothing

Call == /\ call = Idle
        /\ call' # Idle
        /\ set' = After(set, call')
        /\ ret' \in Answers(set, call')

Take == /\ call # Idle
        /\ call' = Idle
        /\ ret' = Nothing
        /\ UNCHANGED set

Next == Call \/ Take

Spec == Init /\ [][Next]_<<set, call, ret>>
============================================================================
