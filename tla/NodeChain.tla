----------------------------- MODULE NodeChain ------------------------------
(***************************************************************************)
(* Level 0 of a skiparray as a sequence of nodes, each the sequence of its *)
(* pairs: where an insertion lands, when a node is split, and how nodes    *)
(* are kept half full as pairs leave.  The levels above (SkipArray) and    *)
(* the arrays the pairs lie in (NodeBuffers) both implement this module.   *)
(* Keys are not compared: an insertion may open any gap between pairs.     *)
(***************************************************************************)
EXTENDS Integers, Sequences, SequencesExt

CONSTANTS NodeSize,   \* sa->node_size
          Pair,       \* the bindings
          MaxPairs    \* bound on the number of pairs

ASSUME NodeChainAssumption ==
  /\ NodeSize \in Nat /\ NodeSize >= 2
  /\ MaxPairs \in Nat

VARIABLES chain,  \* the nodes of level 0
          out     \* what the last call removed: a set of at most one pair

vars == <<chain, out>>

Required == NodeSize \div 2

Count(c) == Len(chain[c])

\* The number of pairs kept by a full node that is split.
Kept == NodeSize - NodeSize \div 2

Total == Len(FlattenSeq(chain))

\* Of the two places around the border of two nodes search gives the end of
\* the first one if that is less full, else the start of the second.
Place(c, index) ==
  /\ index \in 0 .. Count(c)
  /\ index = 0 /\ c > 1 => Count(c - 1) >= Count(c)
  /\ index = Count(c) /\ c < Len(chain) => Count(c) < Count(c + 1)

Init ==
  /\ chain = << << >> >>
  /\ out = {}

-----------------------------------------------------------------------------

Insert(c, index, pair) ==
  /\ Count(c) < NodeSize
  /\ chain' = [chain EXCEPT ![c] = InsertAt(@, index + 1, pair)]

SplitAndInsert(c, index, pair) ==
  LET low  == SubSeq(chain[c], 1, Kept)
      high == SubSeq(chain[c], Kept + 1, NodeSize)
  IN  /\ Count(c) = NodeSize
      /\ \/ /\ index <= Kept
            /\ chain' = InsertAt([chain EXCEPT ![c] = InsertAt(low, index + 1, pair)],
                                 c + 1, high)
         \/ /\ index > Kept
            /\ chain' = InsertAt([chain EXCEPT ![c] = low],
                                 c + 1, InsertAt(high, index - Kept + 1, pair))

Set(c, index, pair) ==
  /\ Total < MaxPairs
  /\ Place(c, index)
  /\ Insert(c, index, pair) \/ SplitAndInsert(c, index, pair)
  /\ out' = {}

\* Rebinding a key.
Rebind(c, index, pair) ==
  /\ index < Count(c)
  /\ chain' = [chain EXCEPT ![c][index + 1] = pair]
  /\ out' = {chain[c][index + 1]}

-----------------------------------------------------------------------------
(* Node c of ch absorbs its right neighbour, or takes that one's first     *)
(* pairs, leaving it half full.                                            *)

Merge_Front(ch, c) == RemoveAt([ch EXCEPT ![c] = ch[c + 1] \o @], c + 1)

Merge(ch, c) == RemoveAt([ch EXCEPT ![c] = @ \o ch[c + 1]], c + 1)

Refill_OneMore(ch, c) ==
  LET give == Len(ch[c + 1]) - Required + 1
  IN  [ch EXCEPT ![c]     = @ \o SubSeq(ch[c + 1], 1, give),
                 ![c + 1] = SubSeq(@, give + 1, Len(@))]

Refill(ch, c) ==
  LET give == Len(ch[c + 1]) - Required
  IN  [ch EXCEPT ![c]     = @ \o SubSeq(ch[c + 1], 1, give),
                 ![c + 1] = SubSeq(@, give + 1, Len(@))]

MergeOrRefill_OneOver(ch, c) ==
  IF Len(ch[c]) + Len(ch[c + 1]) <= NodeSize + 1 THEN Merge(ch, c) ELSE Refill(ch, c)

MergeOrRefill(ch, c) ==
  IF Len(ch[c]) + Len(ch[c + 1]) <= NodeSize THEN Merge(ch, c) ELSE Refill(ch, c)

\* The last node is merged into the one before it if it fits, else left low.
MergeBack(ch, c) ==
  IF Len(ch[c - 1]) + Len(ch[c]) <= NodeSize THEN Merge(ch, c - 1) ELSE ch

Balance(ch, c) ==
  IF Len(ch[c]) >= Required \/ Len(ch) = 1 THEN ch
  ELSE IF c < Len(ch) THEN MergeOrRefill(ch, c) ELSE MergeBack(ch, c)

Removed(c, index) == [chain EXCEPT ![c] = RemoveAt(@, index + 1)]

Forget(c, index) ==
  /\ index < Count(c)
  /\ chain' = Balance(Removed(c, index), c)
  /\ out' = {chain[c][index + 1]}

PopFirst ==
  /\ Count(1) > 0
  /\ chain' = Balance(Removed(1, 0), 1)
  /\ out' = {chain[1][1]}

\* No balancing here: an emptied node goes, unless it is the only one.
PopLast ==
  LET last  == Len(chain)
      index == Count(last) - 1
  IN  /\ Count(last) > 0
      /\ chain' = IF index = 0 /\ last > 1 THEN RemoveAt(chain, last)
                                           ELSE Removed(last, index)
      /\ out' = {chain[last][index + 1]}

\* A call that finds nothing to do, or that is refused.
Nothing == out' = {} /\ UNCHANGED chain

\* A query, which returns a pair it leaves in place.
Read(c, index) ==
  /\ index < Count(c)
  /\ out' = {chain[c][index + 1]}
  /\ UNCHANGED chain

Next ==
  \/ \E c \in 1 .. Len(chain) : \E index \in 0 .. Count(c) :
       \/ \E pair \in Pair : Set(c, index, pair) \/ Rebind(c, index, pair)
       \/ Forget(c, index)
       \/ Read(c, index)
  \/ PopFirst
  \/ PopLast
  \/ Nothing

Spec == Init /\ [][Next]_vars

-----------------------------------------------------------------------------
(* Properties. *)

\* Every node is a sequence of at most node_size pairs, and there is one.
TypeOK ==
  /\ chain \in Seq(Seq(Pair)) /\ Len(chain) >= 1
  /\ \A c \in 1 .. Len(chain) : Count(c) <= NodeSize
  /\ out \subseteq Pair

\* Only the last node may be less than half full, and only the only node
\* empty, whatever the order of insertions, removals and pops.
HalfFull ==
  \A c \in 1 .. Len(chain) :
    /\ c < Len(chain) => Count(c) >= Required
    /\ Len(chain) > 1 => Count(c) > 0

List == FlattenSeq(chain)

\* Every step changes the list of all pairs in at most one place, by the pair
\* the call is about, however the pairs are moved between nodes.
OnePlaceAtATime ==
  [][\/ List' = List
     \/ \E i \in 1 .. Len(List) + 1, p \in Pair : List' = InsertAt(List, i, p)
     \/ \E i \in 1 .. Len(List) : /\ List' = RemoveAt(List, i)
                                  /\ out' = {List[i]}
     \/ \E i \in 1 .. Len(List), p \in Pair : /\ List' = ReplaceAt(List, i, p)
                                              /\ out' = {List[i]}]_vars

=============================================================================
