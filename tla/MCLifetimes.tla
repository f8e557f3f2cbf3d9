---------------------------- MODULE MCLifetimes ----------------------------
(***************************************************************************)
(* Lifetimes for TLC: configurations that differ in whether there are      *)
(* values, and one of each kind that skiparray_new refuses.                *)
(*                                                                         *)
(* Addresses do not matter: the view keeps how many nodes there are and    *)
(* their sizes, how many iterators of a skiparray the client holds and how *)
(* many it does not, and how many blocks there are.  Where LedgerExact and *)
(* LocksHeld are true that determines a state up to its addresses; the     *)
(* view tells the states where one is not from the others.                 *)
(***************************************************************************)
EXTENDS Lifetimes

Default ==
  [given |-> TRUE, node_size |-> 0, cmp |-> TRUE, values |-> TRUE]

AnyConfigs ==
  {Default, [Default EXCEPT !.values = FALSE], [Default EXCEPT !.given = FALSE],
   [Default EXCEPT !.node_size = 1], [Default EXCEPT !.cmp = FALSE]}

HeldBlocks == {h.block : h \in held}

Seen(sa) ==
  <<sa.values, sa.empty,
    Cardinality(sa.nodes), {Cardinality(node) : node \in sa.nodes},
    Cardinality(sa.iters \cap HeldBlocks), Cardinality(sa.iters \ HeldBlocks)>>

\* True.  TLC works out all of f to see that, in the view before another worker
\* can read f: a function of a state is otherwise worked out when it is read.
WorkedOut(f) == f = [x \in DOMAIN f |-> f[x]]

View ==
  <<WorkedOut(arrays), LedgerExact, LocksHeld, bad, Cardinality(live),
    [p \in DOMAIN arrays |-> Seen(arrays[p])],
    {Seen(b.sa) : b \in built},
    {<<f.of, Cardinality(f.iters)>> : f \in fold},
    {h.sa : h \in held}>>

=============================================================================
