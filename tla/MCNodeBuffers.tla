--------------------------- MODULE MCNodeBuffers ---------------------------
(***************************************************************************)
(* NodeBuffers for TLC: two pairs, each with a key and a value of its own, *)
(* so that a key that ends up beside the other one's value shows.          *)
(***************************************************************************)
EXTENDS NodeBuffers

CONSTANTS k1, k2, v1, v2

MCPair == {[key |-> k1, val |-> v1], [key |-> k2, val |-> v2]}

\* True.  TLC works out all of f to see that, in the view before another worker
\* can read f: a function of a state is otherwise worked out when it is read.
WorkedOut(f) == f = [x \in DOMAIN f |-> f[x]]

\* Without the cells outside the live slices, which no call reads.
View == <<WorkedOut(nodes),
          [c \in DOMAIN nodes |-> <<nodes[c].offset, Content(nodes[c])>>]>>

=============================================================================
