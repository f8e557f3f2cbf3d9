---------------------------- MODULE OrderedFold -----------------------------
(***************************************************************************)
(* What include/skiparray.h promises of a fold: each key of the skiparrays *)
(* is given to the callback once, in ascending order to the left and in    *)
(* descending order to the right, until none is left or the fold is        *)
(* halted.  Fold implements it for the folds it calls Simple.               *)
(***************************************************************************)
EXTENDS Integers, Sequences

CONSTANT Keys

VARIABLES dir,   \* "LEFT" or "RIGHT", or "NONE" when no fold is in progress
          todo,  \* the keys still to be given
          seen   \* the keys given

vars == <<dir, todo, seen>>

First(S) ==
  CHOOSE k \in S : \A j \in S : IF dir = "LEFT" THEN k <= j ELSE k >= j

Init == dir = "NONE" /\ todo = {} /\ seen = << >>

Begin ==
  /\ dir = "NONE"
  /\ dir' \in {"LEFT", "RIGHT"}
  /\ todo' \in SUBSET Keys
  /\ UNCHANGED seen

Give ==
  /\ todo # {}
  /\ seen' = Append(seen, First(todo))
  /\ todo' = todo \ {First(todo)}
  /\ UNCHANGED dir

End == dir # "NONE" /\ dir' = "NONE" /\ todo' = {} /\ seen' = << >>

Next == Begin \/ Give \/ End

Spec == Init /\ [][Next]_vars

=============================================================================
