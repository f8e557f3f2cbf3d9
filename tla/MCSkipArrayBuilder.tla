------------------------- MODULE MCSkipArrayBuilder -------------------------
(***************************************************************************)
(* SkipArrayBuilder for TLC, with the view of MCSkipArray extended to what *)
(* the builder holds.                                                      *)
(***************************************************************************)
EXTENDS SkipArrayBuilder, MCSkipArray

BuiltView ==
  LET chain == LevelZero
  IN  <<Shape, iter,
        {<<WorkedOut(b.trail), Rename(chain, b.last),
           [l \in DOMAIN b.trail |-> Rename(chain, b.trail[l])],
           b.check, b.prev>> : b \in builder}>>

=============================================================================
