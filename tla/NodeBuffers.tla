---------------------------- MODULE NodeBuffers -----------------------------
(***************************************************************************)
(* The nodes of level 0 with their arrays.  A node holds its pairs in      *)
(* cells offset .. offset+count-1 of two parallel arrays of node_size      *)
(* cells, and every insertion, removal, split and merge slides pairs with  *)
(* memmove/memcpy and adjusts offset and count.  The module implements     *)
(* NodeChain: the live cells are the sequence of pairs it speaks of.       *)
(*                                                                         *)
(* Cells outside the live slice keep whatever was last written there.      *)
(***************************************************************************)
EXTENDS Integers, Sequences, SequencesExt

CONSTANTS NodeSize,   \* sa->node_size
          Keys, Vals, \* what the cells of a live pair hold
          Pair,       \* the bindings
          Empty,      \* the zero bytes of a new array
          MaxPairs    \* bound on the number of pairs

ASSUME NodeBuffersAssumption ==
  /\ NodeSize \in Nat /\ NodeSize >= 2
  /\ Pair \subseteq [key : Keys, val : Vals]
  /\ MaxPairs \in Nat

VARIABLES nodes,  \* the nodes of level 0
          out     \* what the last call removed: a set of at most one pair

vars == <<nodes, out>>

Cells == 0 .. NodeSize - 1

Required == NodeSize \div 2

-----------------------------------------------------------------------------
(* A node: [keys, values, offset, count]. *)

node_alloc(offset) ==
  [keys   |-> [x \in Cells |-> Empty],
   values |-> [x \in Cells |-> Empty],
   offset |-> offset,
   count  |-> 0]

\* The k cells of source from cell from, written over dest from cell to on.
\* A write past the ends of the array would show as a cell it does not have.
copied(dest, to, source, from, k) ==
  [x \in DOMAIN dest \cup (to .. to + k - 1) |->
     IF x \in to .. to + k - 1 THEN source[x - to + from] ELSE dest[x]]

move_pairs_KeysOnly(dest, source, to, from, k) ==
  [dest EXCEPT !.keys = copied(@, to, source.keys, from, k)]

move_pairs(dest, source, to, from, k) ==
  [dest EXCEPT !.keys   = copied(@, to, source.keys, from, k),
               !.values = copied(@, to, source.values, from, k)]

shift_pairs(n, to, from, k) == move_pairs(n, n, to, from, k)

\* Make room for a pair at index.
prepare_node_for_insert(n, index) ==
  IF index = 0
  THEN IF n.count > 0 /\ n.offset > 0
       THEN [n EXCEPT !.offset = @ - 1]
       ELSE shift_pairs(n, n.offset + 1, n.offset, n.count)
  ELSE IF index < n.count
  THEN IF n.offset > 0
       THEN [shift_pairs(n, n.offset - 1, n.offset, index + 1)
               EXCEPT !.offset = @ - 1]
       ELSE shift_pairs(n, index + 1, index, n.count - index)
  ELSE IF n.offset + index = NodeSize
  THEN [shift_pairs(n, 0, n.offset, n.count) EXCEPT !.offset = 0]
  ELSE n

insert(n, index, pair) ==
  LET room == prepare_node_for_insert(n, index)
  IN  [room EXCEPT !.keys[room.offset + index]   = pair.key,
                   !.values[room.offset + index] = pair.val,
                   !.count = @ + 1]

drop_first_Drift(n) == [n EXCEPT !.offset = @ + 1, !.count  = @ - 1]

\* "Deletion shouldn't gradually shift off the end."
drop_first(n) ==
  [n EXCEPT !.offset = IF @ + 1 = NodeSize THEN NodeSize \div 2 ELSE @ + 1,
            !.count  = @ - 1]

drop_last(n) == [n EXCEPT !.count = @ - 1]

drop(n, index) ==
  IF index = 0 THEN drop_first(n)
  ELSE IF index = n.count - 1 THEN drop_last(n)
  ELSE drop_last(shift_pairs(n, n.offset + index, n.offset + index + 1,
                             n.count - index - 1))

\* The two halves of a node that is split.
split_low(n) == [n EXCEPT !.count = @ - @ \div 2]

split_high(n) ==
  LET to_move == n.count \div 2
  IN  [move_pairs(node_alloc(0), n, 0, n.offset + n.count - to_move, to_move)
         EXCEPT !.count = to_move]

\* n with its pairs moved to the front, and the first k of next after them.
take(n, next, k) ==
  LET front == [shift_pairs(n, 0, n.offset, n.count) EXCEPT !.offset = 0]
  IN  [move_pairs(front, next, n.count, next.offset, k) EXCEPT !.count = @ + k]

give_Tail(next, k) == [next EXCEPT !.count = @ - k]

\* next without its first k pairs.
give(next, k) == [next EXCEPT !.count = @ - k, !.offset = @ + k]

PairAt(n, index) ==
  [key |-> n.keys[n.offset + index], val |-> n.values[n.offset + index]]

\* The live slice.
Content(n) == [i \in 1 .. n.count |-> PairAt(n, i - 1)]

Contents == [c \in DOMAIN nodes |-> Content(nodes[c])]

Promise == INSTANCE NodeChain WITH chain <- Contents

-----------------------------------------------------------------------------
(* The calls, on the nodes of level 0. *)

Init ==
  /\ nodes = << node_alloc(NodeSize \div 2) >>
  /\ out = {}

SplitAndInsert(c, index, pair) ==
  LET low  == split_low(nodes[c])
      high == split_high(nodes[c])
  IN  IF index > low.count
      THEN InsertAt([nodes EXCEPT ![c] = low], c + 1,
                    insert(high, index - low.count, pair))
      ELSE InsertAt([nodes EXCEPT ![c] = insert(low, index, pair)], c + 1, high)

Set(c, index, pair) ==
  /\ Promise!Total < MaxPairs
  /\ Promise!Place(c, index)
  /\ nodes' = IF nodes[c].count = NodeSize
              THEN SplitAndInsert(c, index, pair)
              ELSE [nodes EXCEPT ![c] = insert(@, index, pair)]
  /\ out' = {}

Rebind(c, index, pair) ==
  LET at == nodes[c].offset + index
  IN  /\ index < nodes[c].count
      /\ nodes' = [nodes EXCEPT ![c].keys[at] = pair.key,
                                ![c].values[at] = pair.val]
      /\ out' = {PairAt(nodes[c], index)}

Merge(ns, c) ==
  RemoveAt([ns EXCEPT ![c] = take(@, ns[c + 1], ns[c + 1].count)], c + 1)

Refill(ns, c) ==
  LET k == ns[c + 1].count - Required
  IN  [ns EXCEPT ![c] = take(@, ns[c + 1], k), ![c + 1] = give(@, k)]

MergeOrRefill(ns, c) ==
  IF ns[c].count + ns[c + 1].count <= NodeSize THEN Merge(ns, c) ELSE Refill(ns, c)

MergeBack(ns, c) ==
  IF ns[c - 1].count + ns[c].count <= NodeSize THEN Merge(ns, c - 1) ELSE ns

Balance(ns, c) ==
  IF ns[c].count >= Required \/ Len(ns) = 1 THEN ns
  ELSE IF c < Len(ns) THEN MergeOrRefill(ns, c) ELSE MergeBack(ns, c)

Forget(c, index) ==
  /\ index < nodes[c].count
  /\ nodes' = Balance([nodes EXCEPT ![c] = drop(@, index)], c)
  /\ out' = {PairAt(nodes[c], index)}

PopFirst ==
  /\ nodes[1].count > 0
  /\ nodes' = Balance([nodes EXCEPT ![1] = drop_first(@)], 1)
  /\ out' = {PairAt(nodes[1], 0)}

PopLast ==
  LET last == Len(nodes)
  IN  /\ nodes[last].count > 0
      /\ nodes' = IF nodes[last].count = 1 /\ last > 1
                  THEN RemoveAt(nodes, last)
                  ELSE [nodes EXCEPT ![last] = drop_last(@)]
      /\ out' = {PairAt(nodes[last], nodes[last].count - 1)}

Next ==
  \/ \E c \in DOMAIN nodes : \E index \in 0 .. nodes[c].count :
       \/ \E pair \in Pair : Set(c, index, pair) \/ Rebind(c, index, pair)
       \/ Forget(c, index)
  \/ PopFirst
  \/ PopLast

Spec == Init /\ [][Next]_vars

-----------------------------------------------------------------------------
(* Properties. *)

Buffer ==
  [keys   : [Cells -> Keys \cup {Empty}],
   values : [Cells -> Vals \cup {Empty}],
   offset : Cells,
   count  : 0 .. NodeSize]

\* No call writes outside the arrays of a node, and the live slice of every
\* node lies within them, also between a removal and the next insertion: offset
\* never drifts off the end.
TypeOK ==
  /\ nodes \in Seq(Buffer) /\ nodes # << >>
  /\ \A c \in DOMAIN nodes : nodes[c].offset + nodes[c].count <= NodeSize

\* The two arrays move together: a live slice has no cell that was never
\* written and no key beside another key's value.
NoTornPair == \A c \in DOMAIN nodes : Content(nodes[c]) \in Seq(Pair)

\* Whatever slides pairs about in the arrays, the calls do to the sequence of
\* live pairs what NodeChain says: none is lost or doubled, and the pair a call
\* returns is the one it removes.
RefinesNodeChain == Promise!Spec

=============================================================================
