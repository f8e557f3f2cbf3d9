---------------------------- MODULE MCNodeSizes ----------------------------
(***************************************************************************)
(* SkipArrayBuilder for TLC with an even and an odd node size in one run:  *)
(* nodes of four and of five pairs, the least sizes of each parity at      *)
(* which an underfull node may have to borrow from its neighbour.          *)
(***************************************************************************)
EXTENDS Integers

CONSTANT MaxKey  \* bound on the keys

VARIABLES sa, iter, call, ret, builder,
          node_size  \* of the configuration, chosen at the start

Pairs == {[key |-> k, inst |-> 1, val |-> 1] : k \in 1 .. MaxKey}

Even == INSTANCE MCSkipArrayBuilder WITH NodeSize <- 4, MaxLevel <- 2, Pair <- Pairs

Odd == INSTANCE MCSkipArrayBuilder WITH NodeSize <- 5, MaxLevel <- 2, Pair <- Pairs

vars == <<sa, iter, call, ret, builder, node_size>>

Init ==
  \/ node_size = 4 /\ Even!BuilderNew
  \/ node_size = 5 /\ Odd!BuilderNew

Next ==
  /\ \/ node_size = 4 /\ Even!BuiltNext
     \/ node_size = 5 /\ Odd!BuiltNext
  /\ UNCHANGED node_size

Spec == Init /\ [][Next]_vars

View == <<node_size, Even!BuiltView>>

-----------------------------------------------------------------------------
(* Properties of SkipArrayBuilder, for the node size chosen. *)

\* A builder packs nodes full; from finish on sets and removals keep them at
\* least half full all the same, but for the last one.
BuiltHalfFull == IF node_size = 4 THEN Even!BuiltHalfFull ELSE Odd!BuiltHalfFull

\* From finish on splits, merges and borrowing follow the rules of NodeChain,
\* which round half of the node size down, as the code does in each place.
UsedAsNodeChain ==
  [][builder = {} => IF node_size = 4 THEN Even!Level0!Next ELSE Odd!Level0!Next]_vars

=============================================================================
