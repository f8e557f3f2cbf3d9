---------------------------- MODULE MCSkipArray ----------------------------
(***************************************************************************)
(* SkipArray for TLC.  Which address malloc returns does not matter, so    *)
(* states that differ only in the names of the nodes are one state: the    *)
(* view names a node by its position on level 0 (a node that is not there  *)
(* keeps a name of its own).  `call` and `ret` are written and never read, *)
(* so they are left out: TLC evaluates a property of steps on every step   *)
(* it generates.                                                           *)
(***************************************************************************)
EXTENDS SkipArray

\* True.  TLC works out all of f to see that, in a view before another worker
\* can read f: a function of a state is otherwise worked out when it is read.
WorkedOut(f) == f = [x \in DOMAIN f |-> f[x]]

Rename(chain, n) ==
  IF n \in ToSet(chain) THEN CHOOSE i \in DOMAIN chain : chain[i] = n
  ELSE IF n = NULL THEN NULL ELSE 100 + n

Shape ==
  LET chain == LevelZero
      Links(f) == [l \in DOMAIN f |-> Rename(chain, f[l])]
  IN  <<WorkedOut(sa.heap), WorkedOut(sa.nodes), sa.height, Links(sa.nodes),
        {<<Rename(chain, n), sa.heap[n].pairs, Rename(chain, sa.heap[n].back),
           Links(sa.heap[n].fwd)>> : n \in Nodes}>>

\* One pair for each of n keys.
PlainPairs(n) == [key : 1 .. n, inst : {1}, val : {1}]

\* The key in the middle has two pointers and two values, to tell apart what
\* replaces what.
NarrowPairs == PlainPairs(5) \cup [key : {3}, inst : {1, 2}, val : {1, 2}]

FourPairs == PlainPairs(4)

=============================================================================
