-------------------------- MODULE MCSkipArrayIter --------------------------
(***************************************************************************)
(* SkipArrayIter for TLC, with the view of MCSkipArray extended to what    *)
(* the iterators hold.                                                     *)
(***************************************************************************)
EXTENDS SkipArrayIter, MCSkipArray

IterView ==
  LET chain == LevelZero
  IN  <<Shape, WorkedOut(its), iter,
        [i \in DOMAIN its |-> [its[i] EXCEPT !.n = Rename(chain, @)]]>>

=============================================================================
