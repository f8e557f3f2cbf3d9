------------------------- MODULE NodeBuffersProofs --------------------------
(***************************************************************************)
(* Proofs about NodeBuffers, for every node_size from 2 on, all sets of    *)
(* keys, values and bindings, and any number of them.                      *)
(*                                                                         *)
(* No call touches a cell a node's arrays do not have: TypeOK is           *)
(* inductive, node by node.  It says that every node Fits, and a call      *)
(* takes nodes that do to nodes that do.  A move of cells (copied) keeps   *)
(* the shape of an array just if it neither reads nor writes outside it,   *)
(* so that proof has to look at every offset, count and index.             *)
(*                                                                         *)
(* NodeBuffers implements NodeChain: what the calls do to the cells of the *)
(* arrays is, to the sequences of live pairs, what NodeChain says.  There  *)
(* are three layers: where a move of cells leaves each cell, what an       *)
(* operation on a node does to the node's Content, and what a call does to *)
(* the Contents of all nodes.                                              *)
(***************************************************************************)
EXTENDS NodeBuffers, SequenceLemmas

Fits == {n \in Buffer : n.offset + n.count <= NodeSize}

\* node_size/2 is at least one pair, and two halves fit one node.
LEMMA RequiredBounds ==
  /\ NodeSize \in Nat /\ NodeSize >= 2
  /\ Required \in Nat /\ Required >= 1 /\ Required + Required <= NodeSize
  /\ NodeSize \div 2 = Required
BY NodeBuffersAssumption DEF Required

\* TypeOK, node by node.
LEMMA TypeOKIsFits ==
  TypeOK <=> nodes \in Seq(Fits) /\ nodes # << >>
<1>1. ASSUME TypeOK
      PROVE  nodes \in Seq(Fits) /\ nodes # << >>
  <2>1. /\ nodes \in Seq(Buffer) /\ nodes # << >>
        /\ \A c \in DOMAIN nodes : nodes[c].offset + nodes[c].count <= NodeSize
    BY <1>1 DEF TypeOK
  <2>2. Len(nodes) \in Nat /\ DOMAIN nodes = 1 .. Len(nodes)
    BY <2>1, LenProperties
  <2>3. nodes \in [1 .. Len(nodes) -> Fits]
    BY <2>1, <2>2, LenProperties DEF Fits
  <2> QED BY <2>1, <2>2, <2>3, SeqDef
<1>2. ASSUME nodes \in Seq(Fits), nodes # << >>
      PROVE  TypeOK
  <2>1. \A c \in DOMAIN nodes : nodes[c] \in Fits
    BY <1>2, LenProperties
  <2>2. Fits \subseteq Buffer
    BY DEF Fits
  <2>3. nodes \in Seq(Buffer)
    BY <1>2, <2>2, SeqMonotonic
  <2> QED BY <1>2, <2>1, <2>3 DEF TypeOK, Fits
<1> QED BY <1>1, <1>2

-----------------------------------------------------------------------------
(* Moving cells. *)

\* The k cells from cell from on, if any, are cells of an array.
Within(from, k) == k > 0 => from >= 0 /\ from + k <= NodeSize

\* Moving k cells within arrays of Cells makes an array of Cells.
LEMMA CopiedType ==
  ASSUME NEW X, NEW dest \in [Cells -> X], NEW source \in [Cells -> X],
         NEW to \in Int, NEW from \in Int, NEW k \in Int,
         Within(to, k), Within(from, k)
  PROVE  copied(dest, to, source, from, k) \in [Cells -> X]
<1>1. ASSUME NEW x \in to .. to + k - 1
      PROVE  x \in Cells /\ x - to + from \in Cells
  <2>1. k > 0 /\ x \in Int
    OBVIOUS
  <2>2. to >= 0 /\ to + k <= NodeSize /\ from >= 0 /\ from + k <= NodeSize
    BY <2>1 DEF Within
  <2> QED BY <2>1, <2>2, RequiredBounds DEF Cells
<1>2. Cells \cup (to .. to + k - 1) = Cells
  BY <1>1
<1>3. copied(dest, to, source, from, k) =
        [x \in Cells |-> IF x \in to .. to + k - 1 THEN source[x - to + from] ELSE dest[x]]
  BY <1>2 DEF copied
<1> QED BY <1>1, <1>3

\* The same of the two arrays of a node.
LEMMA MovePairsType ==
  ASSUME NEW dest \in Buffer, NEW source \in Buffer,
         NEW to \in Int, NEW from \in Int, NEW k \in Int,
         Within(to, k), Within(from, k)
  PROVE  /\ move_pairs(dest, source, to, from, k) \in Buffer
         /\ move_pairs(dest, source, to, from, k).offset = dest.offset
         /\ move_pairs(dest, source, to, from, k).count = dest.count
<1>1. /\ dest.keys \in [Cells -> Keys \cup {Empty}]
      /\ source.keys \in [Cells -> Keys \cup {Empty}]
      /\ dest.values \in [Cells -> Vals \cup {Empty}]
      /\ source.values \in [Cells -> Vals \cup {Empty}]
  BY DEF Buffer
<1> DEFINE keys   == copied(dest.keys, to, source.keys, from, k)
           values == copied(dest.values, to, source.values, from, k)
<1>2. keys \in [Cells -> Keys \cup {Empty}]
  BY <1>1, CopiedType
<1>3. values \in [Cells -> Vals \cup {Empty}]
  BY <1>1, CopiedType
<1>4. move_pairs(dest, source, to, from, k) =
        [dest EXCEPT !.keys = keys, !.values = values]
  BY DEF move_pairs
<1> HIDE DEF keys, values
<1> QED BY <1>2, <1>3, <1>4 DEF Buffer

-----------------------------------------------------------------------------
(* The operations on a node. *)

\* The same of sliding the pairs of one node.
LEMMA ShiftPairsType ==
  ASSUME NEW n \in Buffer, NEW to \in Int, NEW from \in Int, NEW k \in Int,
         Within(to, k), Within(from, k)
  PROVE  /\ shift_pairs(n, to, from, k) \in Buffer
         /\ shift_pairs(n, to, from, k).offset = n.offset
         /\ shift_pairs(n, to, from, k).count = n.count
BY MovePairsType DEF shift_pairs

\* What a node that Fits is known to have.
LEMMA FitsBounds ==
  ASSUME NEW n \in Fits
  PROVE  /\ n \in Buffer
         /\ n.offset \in Nat /\ n.offset < NodeSize
         /\ n.count \in Nat /\ n.count <= NodeSize
         /\ n.offset + n.count <= NodeSize
BY NodeBuffersAssumption DEF Fits, Buffer, Cells

\* Making room: the cell for the new pair exists, and so do all live ones after
\* the pair has been counted.
LEMMA PrepareFits ==
  ASSUME NEW n \in Fits, NEW index \in 0 .. n.count, n.count < NodeSize
  PROVE  LET room == prepare_node_for_insert(n, index)
         IN  /\ room \in Buffer
             /\ room.count = n.count
             /\ room.offset + n.count + 1 <= NodeSize
<1> DEFINE room == prepare_node_for_insert(n, index)
<1>1. /\ n \in Buffer
      /\ n.offset \in Nat /\ n.offset < NodeSize
      /\ n.count \in Nat /\ n.count <= NodeSize
      /\ n.offset + n.count <= NodeSize
      /\ NodeSize \in Nat /\ index \in Nat /\ index <= n.count
  BY FitsBounds, RequiredBounds
<1>2. Cells = {x \in Nat : x < NodeSize}
  BY RequiredBounds DEF Cells
<1>3. CASE index = 0 /\ n.count > 0 /\ n.offset > 0
  <2>1. room = [n EXCEPT !.offset = n.offset - 1]
    BY <1>3 DEF prepare_node_for_insert
  <2>2. n.offset - 1 \in Cells
    BY <1>1, <1>2, <1>3
  <2> QED BY <1>1, <2>1, <2>2 DEF Buffer
<1>4. CASE index = 0 /\ ~ (n.count > 0 /\ n.offset > 0)
  <2> DEFINE to == n.offset + 1
  <2>1. room = shift_pairs(n, to, n.offset, n.count)
    BY <1>4 DEF prepare_node_for_insert
  <2>2. n.offset + n.count + 1 <= NodeSize
    BY <1>1, <1>4
  <2>3. /\ to \in Int /\ n.offset \in Int /\ n.count \in Int
        /\ Within(to, n.count) /\ Within(n.offset, n.count)
    BY <1>1, <2>2 DEF Within
  <2> HIDE DEF to, room
  <2>4. room \in Buffer /\ room.offset = n.offset /\ room.count = n.count
    BY <1>1, <2>1, <2>3, ShiftPairsType
  <2> QED BY <1>1, <2>2, <2>4 DEF room
<1>5. CASE index # 0 /\ index < n.count /\ n.offset > 0
  <2> DEFINE to    == n.offset - 1
             k     == index + 1
             moved == shift_pairs(n, to, n.offset, k)
  <2>1. room = [moved EXCEPT !.offset = moved.offset - 1]
    BY <1>5 DEF prepare_node_for_insert
  <2>2. /\ to \in Int /\ n.offset \in Int /\ k \in Int
        /\ Within(to, k) /\ Within(n.offset, k)
    BY <1>1, <1>5 DEF Within
  <2> HIDE DEF to, k
  <2>3. moved \in Buffer /\ moved.offset = n.offset /\ moved.count = n.count
    BY <1>1, <2>2, ShiftPairsType
  <2>4. n.offset - 1 \in Cells
    BY <1>1, <1>2, <1>5
  <2> HIDE DEF moved
  <2> QED BY <1>1, <2>1, <2>3, <2>4 DEF Buffer
<1>6. CASE index # 0 /\ index < n.count /\ ~ (n.offset > 0)
  <2> DEFINE to == index + 1
             k  == n.count - index
  <2>1. room = shift_pairs(n, to, index, k)
    BY <1>6 DEF prepare_node_for_insert
  <2>2. /\ to \in Int /\ index \in Int /\ k \in Int
        /\ Within(to, k) /\ Within(index, k)
    BY <1>1, <1>6 DEF Within
  <2> HIDE DEF to, k, room
  <2>3. room \in Buffer /\ room.offset = n.offset /\ room.count = n.count
    BY <1>1, <2>1, <2>2, ShiftPairsType
  <2> QED BY <1>1, <1>6, <2>3 DEF room
<1>7. CASE index # 0 /\ ~ (index < n.count) /\ n.offset + index = NodeSize
  <2> DEFINE moved == shift_pairs(n, 0, n.offset, n.count)
  <2>1. room = [moved EXCEPT !.offset = 0]
    BY <1>7 DEF prepare_node_for_insert
  <2>2. /\ 0 \in Int /\ n.offset \in Int /\ n.count \in Int
        /\ Within(0, n.count) /\ Within(n.offset, n.count)
    BY <1>1 DEF Within
  <2>3. moved \in Buffer /\ moved.offset = n.offset /\ moved.count = n.count
    BY <1>1, <2>2, ShiftPairsType
  <2>4. 0 \in Cells
    BY <1>1, <1>2
  <2> HIDE DEF moved
  <2> QED BY <1>1, <2>1, <2>3, <2>4 DEF Buffer
<1>8. CASE index # 0 /\ ~ (index < n.count) /\ n.offset + index # NodeSize
  <2>1. room = n
    BY <1>8 DEF prepare_node_for_insert
  <2> QED BY <1>1, <1>8, <2>1
<1> QED BY <1>3, <1>4, <1>5, <1>6, <1>7, <1>8

\* Inserting a pair into a node with room.
LEMMA InsertFits ==
  ASSUME NEW n \in Fits, NEW index \in 0 .. n.count, n.count < NodeSize,
         NEW pair \in Pair
  PROVE  insert(n, index, pair) \in Fits
<1> DEFINE room == prepare_node_for_insert(n, index)
           at   == room.offset + index
<1>1. /\ n.count \in Nat /\ NodeSize \in Nat /\ index \in Nat /\ index <= n.count
      /\ pair.key \in Keys /\ pair.val \in Vals
  BY FitsBounds, NodeBuffersAssumption
<1>2. room \in Buffer /\ room.count = n.count /\ room.offset + n.count + 1 <= NodeSize
  BY PrepareFits
<1> HIDE DEF room
<1>3. room.offset \in Nat /\ at \in Cells
  BY <1>1, <1>2 DEF Buffer, Cells
<1>4. insert(n, index, pair) =
        [room EXCEPT !.keys = [room.keys EXCEPT ![at] = pair.key],
                     !.values = [room.values EXCEPT ![at] = pair.val],
                     !.count = n.count + 1]
  BY <1>2 DEF insert, room, Buffer
<1> HIDE DEF at
<1>5. n.count + 1 \in 0 .. NodeSize
  BY <1>1, <1>2, <1>3
<1>6. /\ [room.keys EXCEPT ![at] = pair.key] \in [Cells -> Keys \cup {Empty}]
      /\ [room.values EXCEPT ![at] = pair.val] \in [Cells -> Vals \cup {Empty}]
  BY <1>1, <1>2, <1>3 DEF Buffer
<1> DEFINE new == [room EXCEPT !.keys = [room.keys EXCEPT ![at] = pair.key],
                               !.values = [room.values EXCEPT ![at] = pair.val],
                               !.count = n.count + 1]
<1>7. new \in Buffer
  BY <1>2, <1>5, <1>6 DEF Buffer
<1>8. new.offset = room.offset /\ new.count = n.count + 1
  BY <1>2 DEF Buffer
<1>9. new.offset + new.count <= NodeSize
  BY <1>1, <1>2, <1>3, <1>8
<1> QED BY <1>4, <1>7, <1>9 DEF Fits

\* Removing the first pair, also from the last cell of the arrays.
LEMMA DropFirstFits ==
  ASSUME NEW n \in Fits, n.count > 0
  PROVE  drop_first(n) \in Fits
<1> DEFINE to == IF n.offset + 1 = NodeSize THEN NodeSize \div 2 ELSE n.offset + 1
           k  == n.count - 1
<1>1. /\ n \in Buffer
      /\ n.offset \in Nat /\ n.offset < NodeSize
      /\ n.count \in Nat /\ n.count > 0
      /\ n.offset + n.count <= NodeSize
  BY FitsBounds
<1>2. to \in Cells /\ k \in 0 .. NodeSize /\ to + k <= NodeSize
  BY <1>1, RequiredBounds DEF Cells
<1>3. drop_first(n) = [n EXCEPT !.offset = to, !.count = k]
  BY DEF drop_first
<1> HIDE DEF to, k
<1> QED BY <1>1, <1>2, <1>3 DEF Buffer, Fits

\* Removing the last pair.
LEMMA DropLastFits ==
  ASSUME NEW n \in Fits, n.count > 0
  PROVE  drop_last(n) \in Fits
<1> DEFINE k == n.count - 1
<1>1. /\ n \in Buffer /\ n.offset \in Nat /\ k \in 0 .. NodeSize
      /\ n.offset + k <= NodeSize
  BY FitsBounds, RequiredBounds
<1>2. drop_last(n) = [n EXCEPT !.count = k]
  BY DEF drop_last
<1> HIDE DEF k
<1> QED BY <1>1, <1>2 DEF Buffer, Fits

\* Removing any pair, closing the gap.
LEMMA DropFits ==
  ASSUME NEW n \in Fits, NEW index \in Nat, index < n.count
  PROVE  drop(n, index) \in Fits
<1>1. /\ n \in Buffer
      /\ n.offset \in Nat /\ n.offset < NodeSize
      /\ n.count \in Nat /\ n.count <= NodeSize
      /\ n.offset + n.count <= NodeSize
      /\ NodeSize \in Nat /\ n.count > 0
  BY FitsBounds, RequiredBounds
<1>2. CASE index = 0
  BY <1>1, <1>2, DropFirstFits DEF drop
<1>3. CASE index # 0 /\ index = n.count - 1
  BY <1>1, <1>3, DropLastFits DEF drop
<1>4. CASE index # 0 /\ index # n.count - 1
  <2> DEFINE to    == n.offset + index
             from  == n.offset + index + 1
             k     == n.count - index - 1
             moved == shift_pairs(n, to, from, k)
  <2>1. drop(n, index) = drop_last(moved)
    BY <1>4 DEF drop
  <2>2. /\ to \in Int /\ from \in Int /\ k \in Int
        /\ Within(to, k) /\ Within(from, k)
    BY <1>1, <1>4 DEF Within
  <2> HIDE DEF to, from, k
  <2>3. moved \in Buffer /\ moved.offset = n.offset /\ moved.count = n.count
    BY <1>1, <2>2, ShiftPairsType
  <2> HIDE DEF moved
  <2>4. moved \in Fits /\ moved.count > 0
    BY <1>1, <2>3 DEF Fits
  <2> QED BY <2>1, <2>4, DropLastFits
<1> QED BY <1>2, <1>3, <1>4

\* A new node.
LEMMA node_allocType ==
  ASSUME NEW offset \in Cells
  PROVE  /\ node_alloc(offset) \in Fits
         /\ node_alloc(offset).offset = offset /\ node_alloc(offset).count = 0
<1>1. node_alloc(offset) \in Buffer
  BY RequiredBounds DEF node_alloc, Buffer
<1>2. node_alloc(offset).offset = offset /\ node_alloc(offset).count = 0
  BY DEF node_alloc
<1>3. offset + 0 <= NodeSize
  BY RequiredBounds DEF Cells
<1> QED BY <1>1, <1>2, <1>3 DEF Fits

\* The halves of a full node, each with room for one more pair.
LEMMA SplitFits ==
  ASSUME NEW n \in Fits, n.count = NodeSize
  PROVE  /\ split_low(n) \in Fits /\ split_low(n).count = NodeSize - Required
         /\ split_high(n) \in Fits /\ split_high(n).count = Required
<1>1. /\ n \in Buffer
      /\ n.offset \in Nat /\ n.offset < NodeSize
      /\ n.offset + NodeSize <= NodeSize
      /\ NodeSize \in Nat /\ Required \in Nat
      /\ Required >= 1 /\ Required + Required <= NodeSize
  BY FitsBounds, RequiredBounds
<1>2. split_low(n) \in Fits /\ split_low(n).count = NodeSize - Required
  <2>1. split_low(n) = [n EXCEPT !.count = NodeSize - Required]
    BY RequiredBounds DEF split_low
  <2>2. NodeSize - Required \in 0 .. NodeSize /\ n.offset + (NodeSize - Required) <= NodeSize
    BY <1>1
  <2> QED BY <1>1, <2>1, <2>2 DEF Buffer, Fits
<1>3. split_high(n) \in Fits /\ split_high(n).count = Required
  <2> DEFINE new   == node_alloc(0)
             from  == n.offset + NodeSize - Required
             moved == move_pairs(new, n, 0, from, Required)
  <2>1. split_high(n) = [moved EXCEPT !.count = Required]
    BY RequiredBounds DEF split_high
  <2>2. 0 \in Cells
    BY <1>1 DEF Cells
  <2>3. new \in Buffer /\ new.offset = 0
    BY <2>2, node_allocType DEF Fits
  <2>4. /\ 0 \in Int /\ from \in Int /\ Required \in Int
        /\ Within(0, Required) /\ Within(from, Required)
    BY <1>1 DEF Within
  <2> HIDE DEF new, from
  <2>5. moved \in Buffer /\ moved.offset = 0
    BY <1>1, <2>3, <2>4, MovePairsType
  <2> HIDE DEF moved
  <2>6. Required \in 0 .. NodeSize /\ 0 + Required <= NodeSize
    BY <1>1
  <2> QED BY <2>1, <2>5, <2>6 DEF Buffer, Fits
<1> QED BY <1>2, <1>3

\* Taking pairs from the next node, as many as there is room for.
LEMMA TakeFits ==
  ASSUME NEW n \in Fits, NEW next \in Fits, NEW k \in 0 .. next.count,
         n.count + k <= NodeSize
  PROVE  take(n, next, k) \in Fits
<1>1. /\ n \in Buffer /\ n.offset \in Nat /\ n.offset < NodeSize
      /\ n.count \in Nat /\ n.count <= NodeSize
      /\ n.offset + n.count <= NodeSize
      /\ next \in Buffer /\ next.offset \in Nat /\ next.count \in Nat
      /\ next.offset + next.count <= NodeSize
      /\ NodeSize \in Nat /\ k \in Nat /\ k <= next.count
  BY FitsBounds, RequiredBounds
<1> DEFINE slid  == shift_pairs(n, 0, n.offset, n.count)
           front == [slid EXCEPT !.offset = 0]
           moved == move_pairs(front, next, n.count, next.offset, k)
<1>2. take(n, next, k) = [moved EXCEPT !.count = moved.count + k]
  BY DEF take
<1>3. slid \in Buffer /\ slid.count = n.count
  <2>1. /\ 0 \in Int /\ n.offset \in Int /\ n.count \in Int
        /\ Within(0, n.count) /\ Within(n.offset, n.count)
    BY <1>1 DEF Within
  <2> QED BY <1>1, <2>1, ShiftPairsType
<1> HIDE DEF slid
<1>4. front \in Buffer /\ front.offset = 0 /\ front.count = n.count
  <2>1. 0 \in Cells
    BY <1>1 DEF Cells
  <2> QED BY <1>3, <2>1 DEF Buffer
<1> HIDE DEF front
<1>5. moved \in Buffer /\ moved.offset = 0 /\ moved.count = n.count
  <2>1. /\ n.count \in Int /\ next.offset \in Int /\ k \in Int
        /\ Within(n.count, k) /\ Within(next.offset, k)
    BY <1>1 DEF Within
  <2>2. /\ moved \in Buffer /\ moved.offset = front.offset
        /\ moved.count = front.count
    BY <1>1, <1>4, <2>1, MovePairsType
  <2> QED BY <1>4, <2>2
<1> HIDE DEF moved
<1>6. n.count + k \in 0 .. NodeSize /\ 0 + (n.count + k) <= NodeSize
  BY <1>1
<1> QED BY <1>2, <1>5, <1>6 DEF Buffer, Fits

\* Giving away the first pairs, but not the last one.
LEMMA GiveFits ==
  ASSUME NEW n \in Fits, NEW k \in Nat, k < n.count
  PROVE  give(n, k) \in Fits
<1> DEFINE from == n.offset + k
           left == n.count - k
<1>1. n \in Buffer
  BY FitsBounds
<1>2. from \in Cells /\ left \in 0 .. NodeSize /\ from + left <= NodeSize
  BY FitsBounds, RequiredBounds DEF Cells
<1>3. give(n, k) = [n EXCEPT !.count = left, !.offset = from]
  BY DEF give
<1> HIDE DEF from, left
<1> QED BY <1>1, <1>2, <1>3 DEF Buffer, Fits

-----------------------------------------------------------------------------
(* The nodes after each kind of change. *)

Chains == Seq(Fits)

\* Any of the nodes, and the number of them.
LEMMA NodeFits ==
  ASSUME NEW ns \in Chains
  PROVE  /\ Len(ns) \in Nat /\ DOMAIN ns = 1 .. Len(ns)
         /\ \A c \in 1 .. Len(ns) : ns[c] \in Fits
         /\ ns # << >> => Len(ns) >= 1
BY LenProperties, ElementOfSeq, EmptySeq DEF Chains

\* Writing another node in the place of node c.
LEMMA ReplaceFits ==
  ASSUME NEW ns \in Chains, NEW c \in 1 .. Len(ns), NEW n \in Fits
  PROVE  /\ [ns EXCEPT ![c] = n] \in Chains
         /\ Len([ns EXCEPT ![c] = n]) = Len(ns)
         /\ [ns EXCEPT ![c] = n] # << >>
         /\ \A d \in 1 .. Len(ns) : [ns EXCEPT ![c] = n][d] = IF d = c THEN n ELSE ns[d]
<1> DEFINE new == [ns EXCEPT ![c] = n]
<1>1. /\ new \in Chains /\ Len(new) = Len(ns)
      /\ \A d \in 1 .. Len(ns) : new[d] = IF d = c THEN n ELSE ns[d]
  BY ExceptSeq DEF Chains
<1>2. Len(ns) \in Nat
  BY NodeFits
<1> HIDE DEF new
<1>3. new # << >>
  BY <1>1, <1>2, EmptySeq
<1> QED BY <1>1, <1>3 DEF new

\* Merging node c with the next one, which fits.
LEMMA MergeFits ==
  ASSUME NEW ns \in Chains, NEW c \in 1 .. Len(ns) - 1,
         ns[c].count + ns[c + 1].count <= NodeSize
  PROVE  Merge(ns, c) \in Chains /\ Merge(ns, c) # << >>
<1> DEFINE n    == take(ns[c], ns[c + 1], ns[c + 1].count)
           wide == [ns EXCEPT ![c] = n]
           at   == c + 1
<1>1. /\ Len(ns) \in Nat /\ c \in 1 .. Len(ns) /\ at \in 1 .. Len(ns)
      /\ ns[c] \in Fits /\ ns[c + 1] \in Fits
  BY NodeFits
<1>2. n \in Fits
  <2>1. ns[c + 1].count \in 0 .. ns[c + 1].count
    BY <1>1, FitsBounds
  <2> QED BY <1>1, <2>1, TakeFits
<1>3. Merge(ns, c) = RemoveAt(wide, at)
  BY DEF Merge
<1> HIDE DEF n, at
<1>4. wide \in Chains /\ Len(wide) = Len(ns)
  BY <1>1, <1>2, ReplaceFits
<1> HIDE DEF wide
<1>5. RemoveAt(wide, at) \in Chains /\ Len(RemoveAt(wide, at)) = Len(ns) - 1
  BY <1>1, <1>4, RemoveAtProperties DEF Chains
<1>6. RemoveAt(wide, at) # << >>
  BY <1>1, <1>5, EmptySeq
<1> QED BY <1>3, <1>5, <1>6

\* Refilling node c, low, from the next one, with which it does not fit in one.
LEMMA RefillFits ==
  ASSUME NEW ns \in Chains, NEW c \in 1 .. Len(ns) - 1,
         ns[c].count < Required,
         ~ (ns[c].count + ns[c + 1].count <= NodeSize)
  PROVE  Refill(ns, c) \in Chains /\ Refill(ns, c) # << >>
<1> DEFINE at   == c + 1
           next == ns[c + 1]
           k    == next.count - Required
           n    == take(ns[c], next, k)
           rest == give(next, k)
           wide == [ns EXCEPT ![c] = n]
<1>1. /\ Len(ns) \in Nat /\ c \in 1 .. Len(ns) /\ at \in 1 .. Len(ns) /\ c # at
      /\ ns[c] \in Fits /\ next \in Fits
  BY NodeFits
<1>2. /\ k \in Nat /\ k \in 0 .. next.count /\ k < next.count
      /\ ns[c].count + k <= NodeSize
  BY <1>1, FitsBounds, RequiredBounds
<1>3. n \in Fits
  BY <1>1, <1>2, TakeFits
<1>4. rest \in Fits
  BY <1>1, <1>2, GiveFits
<1>5. Refill(ns, c) = [wide EXCEPT ![at] = rest]
  BY <1>1 DEF Refill, Chains
<1> HIDE DEF n, rest, at
<1>6. wide \in Chains /\ Len(wide) = Len(ns)
  BY <1>1, <1>3, ReplaceFits
<1> HIDE DEF wide
<1>7. at \in 1 .. Len(wide)
  BY <1>1, <1>6
<1>8. [wide EXCEPT ![at] = rest] \in Chains /\ [wide EXCEPT ![at] = rest] # << >>
  BY <1>4, <1>6, <1>7, ReplaceFits
<1> QED BY <1>5, <1>8

\* Whatever Balance does after a removal from node c.
LEMMA BalanceFits ==
  ASSUME NEW ns \in Chains, ns # << >>, NEW c \in 1 .. Len(ns)
  PROVE  Balance(ns, c) \in Chains /\ Balance(ns, c) # << >>
<1>1. Len(ns) \in Nat /\ ns[c] \in Fits /\ ns[c].count \in Nat
  BY NodeFits, FitsBounds
<1>2. CASE ns[c].count >= Required \/ Len(ns) = 1
  <2>1. Balance(ns, c) = ns
    BY <1>2 DEF Balance
  <2> QED BY <2>1
<1>3. CASE ~ (ns[c].count >= Required \/ Len(ns) = 1) /\ c < Len(ns)
  <2>1. Balance(ns, c) = MergeOrRefill(ns, c)
    BY <1>3 DEF Balance
  <2>2. c \in 1 .. Len(ns) - 1 /\ ns[c].count < Required
    <3>1. ~ (ns[c].count >= Required)
      BY <1>3
    <3> QED BY <1>1, <1>3, <3>1, RequiredBounds
  <2>3. CASE ns[c].count + ns[c + 1].count <= NodeSize
    BY <2>1, <2>2, <2>3, MergeFits DEF MergeOrRefill
  <2>4. CASE ~ (ns[c].count + ns[c + 1].count <= NodeSize)
    BY <2>1, <2>2, <2>4, RefillFits DEF MergeOrRefill
  <2> QED BY <2>3, <2>4
<1>4. CASE ~ (ns[c].count >= Required \/ Len(ns) = 1) /\ ~ (c < Len(ns))
  <2>1. Balance(ns, c) = MergeBack(ns, c)
    BY <1>4 DEF Balance
  <2>2. CASE ns[c - 1].count + ns[c].count <= NodeSize
    <3> DEFINE back == c - 1
    <3>1. back \in 1 .. Len(ns) - 1 /\ back + 1 = c
      <4> DEFINE len == Len(ns)
      <4>1. len \in Nat /\ c \in 1 .. len /\ ~ (c < len) /\ len # 1
        BY <1>1, <1>4
      <4> HIDE DEF len
      <4>2. c - 1 \in 1 .. len - 1 /\ c - 1 + 1 = c
        BY <4>1
      <4> QED BY <4>2 DEF len
    <3>2. Balance(ns, c) = Merge(ns, back)
      BY <2>1, <2>2 DEF MergeBack
    <3>3. ns[back].count + ns[back + 1].count <= NodeSize
      BY <2>2, <3>1
    <3> HIDE DEF back
    <3> QED BY <3>1, <3>2, <3>3, MergeFits
  <2>3. CASE ~ (ns[c - 1].count + ns[c].count <= NodeSize)
    <3>1. Balance(ns, c) = ns
      BY <2>1, <2>3 DEF MergeBack
    <3> QED BY <3>1
  <2> QED BY <2>2, <2>3
<1> QED BY <1>2, <1>3, <1>4

-----------------------------------------------------------------------------
(* The calls. *)

Inv == nodes \in Chains /\ nodes # << >>

\* Splitting a full node and inserting into one of the halves.
LEMMA SplitAndInsertFits ==
  ASSUME Inv, NEW c \in 1 .. Len(nodes), NEW index \in 0 .. nodes[c].count,
         NEW pair \in Pair, nodes[c].count = NodeSize
  PROVE  SplitAndInsert(c, index, pair) \in Chains /\ SplitAndInsert(c, index, pair) # << >>
<1> DEFINE low  == split_low(nodes[c])
           high == split_high(nodes[c])
           at   == c + 1
<1>1. Len(nodes) \in Nat /\ nodes[c] \in Fits /\ at \in 1 .. Len(nodes) + 1
  BY NodeFits DEF Inv
<1>2. /\ low \in Fits /\ low.count = NodeSize - Required
      /\ high \in Fits /\ high.count = Required
  BY <1>1, SplitFits
<1>3. /\ NodeSize \in Nat /\ Required \in Nat
      /\ Required >= 1 /\ Required + Required <= NodeSize
  BY RequiredBounds
<1>4. \E l \in Fits, h \in Fits :
        SplitAndInsert(c, index, pair) = InsertAt([nodes EXCEPT ![c] = l], at, h)
  <2>1. CASE index > low.count
    <3>1. index - low.count \in 0 .. high.count /\ high.count < NodeSize
      BY <1>2, <1>3, <2>1
    <3> DEFINE j == index - low.count
    <3> HIDE DEF low, high
    <3>2. insert(high, j, pair) \in Fits
      BY <1>2, <3>1, InsertFits
    <3>3. SplitAndInsert(c, index, pair) =
            InsertAt([nodes EXCEPT ![c] = low], at, insert(high, j, pair))
      BY <2>1 DEF SplitAndInsert, low, high
    <3> QED BY <1>2, <3>2, <3>3
  <2>2. CASE ~ (index > low.count)
    <3>1. index \in 0 .. low.count /\ low.count < NodeSize
      BY <1>2, <1>3, <2>2
    <3> HIDE DEF low, high
    <3>2. insert(low, index, pair) \in Fits
      BY <1>2, <3>1, InsertFits
    <3>3. SplitAndInsert(c, index, pair) =
            InsertAt([nodes EXCEPT ![c] = insert(low, index, pair)], at, high)
      BY <2>2 DEF SplitAndInsert, low, high
    <3> QED BY <1>2, <3>2, <3>3
  <2> QED BY <2>1, <2>2
<1>5. PICK l \in Fits, h \in Fits :
        SplitAndInsert(c, index, pair) = InsertAt([nodes EXCEPT ![c] = l], at, h)
  BY <1>4
<1> DEFINE wide == [nodes EXCEPT ![c] = l]
<1>6. wide \in Chains /\ Len(wide) = Len(nodes)
  BY ReplaceFits DEF Inv
<1> HIDE DEF wide, at
<1>7. InsertAt(wide, at, h) \in Chains /\ Len(InsertAt(wide, at, h)) = Len(wide) + 1
  <2>1. wide \in Seq(Fits) /\ at \in 1 .. Len(wide) + 1
    BY <1>1, <1>6 DEF Chains
  <2> QED BY <2>1, InsertAtProperties DEF Chains
<1>8. InsertAt(wide, at, h) # << >>
  BY <1>1, <1>6, <1>7, EmptySeq
<1> QED BY <1>5, <1>7, <1>8 DEF wide

\* A call of skiparray_set that binds a new key.
LEMMA SetFits ==
  ASSUME Inv, NEW c \in 1 .. Len(nodes), NEW index \in 0 .. nodes[c].count,
         NEW pair \in Pair, Set(c, index, pair)
  PROVE  Inv'
<1>1. nodes \in Chains /\ nodes[c] \in Fits
  BY NodeFits DEF Inv
<1>2. CASE nodes[c].count = NodeSize
  <2>1. nodes' = SplitAndInsert(c, index, pair)
    BY <1>2 DEF Set
  <2> QED BY <1>2, <2>1, SplitAndInsertFits DEF Inv
<1>3. CASE nodes[c].count # NodeSize
  <2>1. nodes' = [nodes EXCEPT ![c] = insert(nodes[c], index, pair)]
    BY <1>3 DEF Set
  <2>2. nodes[c].count < NodeSize
    BY <1>1, <1>3, FitsBounds, RequiredBounds
  <2>3. insert(nodes[c], index, pair) \in Fits
    BY <1>1, <2>2, InsertFits
  <2> QED BY <1>1, <2>1, <2>3, ReplaceFits DEF Inv
<1> QED BY <1>2, <1>3

\* A call of skiparray_set that rebinds a key.
LEMMA RebindFits ==
  ASSUME Inv, NEW c \in 1 .. Len(nodes), NEW index \in Nat,
         NEW pair \in Pair, Rebind(c, index, pair)
  PROVE  Inv'
<1> DEFINE n      == nodes[c]
           at     == n.offset + index
           keys   == [n.keys EXCEPT ![at] = pair.key]
           values == [n.values EXCEPT ![at] = pair.val]
           new    == [n EXCEPT !.keys = keys, !.values = values]
<1>1. nodes \in Chains /\ n \in Fits
  BY NodeFits DEF Inv
<1>2. pair.key \in Keys /\ pair.val \in Vals
  BY NodeBuffersAssumption
<1>3. n \in Buffer
  BY <1>1, FitsBounds
<1>4. nodes' = [nodes EXCEPT ![c] = new]
  BY <1>1, <1>3 DEF Rebind, Buffer, Chains
<1> HIDE DEF n, at
<1>5. /\ keys \in [Cells -> Keys \cup {Empty}]
      /\ values \in [Cells -> Vals \cup {Empty}]
  BY <1>2, <1>3 DEF Buffer
<1> HIDE DEF keys, values
<1>6. new \in Fits
  BY <1>1, <1>3, <1>5 DEF Buffer, Fits
<1> HIDE DEF new
<1> QED BY <1>1, <1>4, <1>6, ReplaceFits DEF Inv

\* A call of skiparray_forget or skiparray_pop_first that removes a pair.
LEMMA RemovalFits ==
  ASSUME Inv, NEW c \in 1 .. Len(nodes), NEW n \in Fits,
         nodes' = Balance([nodes EXCEPT ![c] = n], c)
  PROVE  Inv'
<1> DEFINE ns == [nodes EXCEPT ![c] = n]
<1>1. ns \in Chains /\ ns # << >> /\ c \in 1 .. Len(ns)
  BY ReplaceFits DEF Inv
<1> HIDE DEF ns
<1>2. Balance(ns, c) \in Chains /\ Balance(ns, c) # << >>
  BY <1>1, BalanceFits
<1> QED BY <1>2 DEF Inv, ns

\* A call of skiparray_pop_last that removes a pair.
LEMMA PopLastFits ==
  ASSUME Inv, PopLast
  PROVE  Inv'
<1> DEFINE last == Len(nodes)
<1>1. /\ nodes \in Chains /\ last \in Nat /\ last \in 1 .. Len(nodes)
      /\ nodes[last] \in Fits
  BY NodeFits DEF Inv
<1>2. CASE nodes[last].count = 1 /\ last > 1
  <2>1. nodes' = RemoveAt(nodes, last)
    BY <1>2 DEF PopLast
  <2>2. RemoveAt(nodes, last) \in Chains /\ Len(RemoveAt(nodes, last)) = last - 1
    BY <1>1, RemoveAtProperties DEF Chains
  <2>3. RemoveAt(nodes, last) # << >>
    BY <1>1, <1>2, <2>2, EmptySeq
  <2> QED BY <2>1, <2>2, <2>3 DEF Inv
<1>3. CASE ~ (nodes[last].count = 1 /\ last > 1)
  <2>1. nodes' = [nodes EXCEPT ![last] = drop_last(nodes[last])] /\ nodes[last].count > 0
    BY <1>3 DEF PopLast
  <2>2. drop_last(nodes[last]) \in Fits
    BY <1>1, <2>1, DropLastFits
  <2> QED BY <1>1, <2>1, <2>2, ReplaceFits DEF Inv
<1> QED BY <1>2, <1>3

\* skiparray_new makes one node, with its offset in the middle.
LEMMA InitInv ==
  Init => Inv
<1> SUFFICES ASSUME Init PROVE Inv
  OBVIOUS
<1> DEFINE n == node_alloc(NodeSize \div 2)
<1>1. n \in Fits
  <2>1. NodeSize \div 2 \in Cells
    BY RequiredBounds DEF Cells
  <2> QED BY <2>1, node_allocType
<1>2. nodes = <<n>>
  BY DEF Init
<1> HIDE DEF n
<1> QED BY <1>1, <1>2 DEF Inv, Chains

\* Every call takes nodes that fit their arrays to nodes that do.
LEMMA NextInv ==
  Inv /\ [Next]_vars => Inv'
<1> SUFFICES ASSUME Inv, [Next]_vars
             PROVE  Inv'
  OBVIOUS
<1>1. /\ nodes \in Chains /\ DOMAIN nodes = 1 .. Len(nodes)
      /\ 1 \in 1 .. Len(nodes)
  BY NodeFits DEF Inv
<1>2. ASSUME NEW c \in 1 .. Len(nodes)
      PROVE  nodes[c] \in Fits /\ 0 .. nodes[c].count \subseteq Nat
  BY <1>1, NodeFits
<1>3. ASSUME NEW c \in 1 .. Len(nodes), NEW index \in Nat, Forget(c, index)
      PROVE  Inv'
  <2>1. drop(nodes[c], index) \in Fits
    BY <1>2, <1>3, DropFits DEF Forget
  <2>2. nodes' = Balance([nodes EXCEPT ![c] = drop(nodes[c], index)], c)
    BY <1>3 DEF Forget
  <2> QED BY <2>1, <2>2, RemovalFits
<1>4. ASSUME PopFirst
      PROVE  Inv'
  <2>1. drop_first(nodes[1]) \in Fits
    BY <1>1, <1>2, <1>4, DropFirstFits DEF PopFirst
  <2>2. nodes' = Balance([nodes EXCEPT ![1] = drop_first(nodes[1])], 1)
    BY <1>4 DEF PopFirst
  <2> QED BY <1>1, <2>1, <2>2, RemovalFits
<1>5. CASE UNCHANGED vars
  BY <1>5 DEF vars, Inv
<1> QED BY <1>1, <1>2, <1>3, <1>4, <1>5, SetFits, RebindFits, PopLastFits DEF Next

-----------------------------------------------------------------------------

\* No sequence of calls makes memmove or memcpy write outside the arrays of a
\* node, nor leaves a node with offset + count beyond node_size.
THEOREM BuffersTypeCorrect == Spec => []TypeOK
<1>1. Inv => TypeOK
  BY TypeOKIsFits DEF Inv, Chains
<1> QED BY <1>1, InitInv, NextInv, PTL DEF Spec

-----------------------------------------------------------------------------
(* The contents. *)


\* What any cell may hold, one that was never written too.
AnyPair == [key : Keys \cup {Empty}, val : Vals \cup {Empty}]

CellAt(n, x) == [key |-> n.keys[x], val |-> n.values[x]]

\* The cell of the i-th live pair.
At(n, i) == n.offset + i - 1

-----------------------------------------------------------------------------
(* Cells. *)

\* Where the live pairs lie.
LEMMA LiveCells ==
  ASSUME NEW n \in Fits
  PROVE  /\ n \in Buffer /\ n.count \in Nat /\ n.offset \in Nat
         /\ NodeSize \in Nat /\ n.offset + n.count <= NodeSize
         /\ n.offset < NodeSize
         /\ \A i \in 1 .. n.count : At(n, i) \in Cells
<1>1. /\ n \in Buffer /\ n.count \in Nat /\ n.offset \in Nat
      /\ NodeSize \in Nat /\ n.offset + n.count <= NodeSize
      /\ n.offset < NodeSize
  BY FitsBounds, RequiredBounds
<1> QED BY <1>1 DEF At, Cells

\* The live slice, cell by cell,
LEMMA ContentProperties ==
  ASSUME NEW n \in Fits
  PROVE  /\ Content(n) \in Seq(AnyPair) /\ Len(Content(n)) = n.count
         /\ \A i \in 1 .. n.count : Content(n)[i] = CellAt(n, At(n, i))
<1>1. n \in Buffer /\ n.count \in Nat /\ n.offset \in Nat
  BY LiveCells
<1>2. ASSUME NEW i \in 1 .. n.count
      PROVE  /\ PairAt(n, i - 1) = CellAt(n, At(n, i))
             /\ CellAt(n, At(n, i)) \in AnyPair
  <2>1. n.offset + (i - 1) = At(n, i)
    BY <1>1 DEF At
  <2>2. At(n, i) \in Cells
    BY LiveCells
  <2>3. CellAt(n, At(n, i)) \in AnyPair
    BY <1>1, <2>2 DEF Buffer, CellAt, AnyPair
  <2> QED BY <2>1, <2>3 DEF PairAt, CellAt
<1>3. Content(n) \in [1 .. n.count -> AnyPair]
  BY <1>2 DEF Content
<1>4. Content(n) \in Seq(AnyPair) /\ Len(Content(n)) = n.count
  BY <1>1, <1>3, SeqDef, LenProperties
<1> QED BY <1>2, <1>4 DEF Content

\* and which sequence it is.
LEMMA ContentIs ==
  ASSUME NEW n \in Fits, NEW s \in Seq(AnyPair), Len(s) = n.count,
         \A i \in 1 .. n.count : CellAt(n, At(n, i)) = s[i]
  PROVE  Content(n) = s
<1>1. /\ Content(n) \in Seq(AnyPair) /\ Len(Content(n)) = n.count
      /\ \A i \in 1 .. n.count : Content(n)[i] = CellAt(n, At(n, i))
  BY ContentProperties
<1> QED BY <1>1, SeqEqual

\* memmove and memcpy: the cells moved are those of the source, all others are
\* left alone.
LEMMA MovedCells ==
  ASSUME NEW dest \in Buffer, NEW source, NEW to \in Int, NEW from \in Int,
         NEW k \in Int, NEW x \in Cells
  PROVE  CellAt(move_pairs(dest, source, to, from, k), x) =
           IF to <= x /\ x < to + k THEN CellAt(source, x - to + from)
                                    ELSE CellAt(dest, x)
<1>1. DOMAIN dest.keys = Cells /\ DOMAIN dest.values = Cells
  BY DEF Buffer
<1>2. ASSUME NEW a, NEW b, DOMAIN a = Cells
      PROVE  copied(a, to, b, from, k)[x] =
               IF to <= x /\ x < to + k THEN b[x - to + from] ELSE a[x]
  <2>1. x \in to .. to + k - 1 <=> to <= x /\ x < to + k
    BY RequiredBounds DEF Cells
  <2> QED BY <1>2, <2>1 DEF copied
<1>3. /\ move_pairs(dest, source, to, from, k).keys =
           copied(dest.keys, to, source.keys, from, k)
      /\ move_pairs(dest, source, to, from, k).values =
           copied(dest.values, to, source.values, from, k)
  BY DEF move_pairs, Buffer
<1> QED BY <1>1, <1>2, <1>3 DEF CellAt

\* The same of a move inside one node, where the ranges may overlap.
LEMMA ShiftedCells ==
  ASSUME NEW n \in Buffer, NEW to \in Int, NEW from \in Int, NEW k \in Int,
         NEW x \in Cells
  PROVE  CellAt(shift_pairs(n, to, from, k), x) =
           IF to <= x /\ x < to + k THEN CellAt(n, x - to + from)
                                    ELSE CellAt(n, x)
BY MovedCells DEF shift_pairs

-----------------------------------------------------------------------------
(* The operations on a node. *)

\* Making room: the pairs before the place for the new one lie where the node
\* now says they do, and those from it on one cell further.
LEMMA PrepareCells ==
  ASSUME NEW n \in Fits, NEW index \in 0 .. n.count, n.count < NodeSize
  PROVE  LET room == prepare_node_for_insert(n, index)
         IN  /\ \A i \in 1 .. index : CellAt(room, At(room, i)) = CellAt(n, At(n, i))
             /\ \A i \in index + 1 .. n.count :
                  CellAt(room, At(room, i + 1)) = CellAt(n, At(n, i))
<1> DEFINE room == prepare_node_for_insert(n, index)
           o    == n.offset
           m    == n.count
<1>1. /\ n \in Buffer /\ m \in Nat /\ o \in Nat /\ index \in Nat /\ index <= m
      /\ NodeSize \in Nat /\ o + m <= NodeSize /\ o < NodeSize
  BY LiveCells
<1>2. \A i \in 1 .. m : At(n, i) \in Cells /\ At(n, i) = o + i - 1
  BY LiveCells DEF At
<1>3. \A x : x \in Cells <=> x \in Nat /\ x < NodeSize
  BY <1>1 DEF Cells
<1>4. room \in Buffer /\ room.count = m /\ room.offset + m + 1 <= NodeSize
  BY PrepareFits
<1> DEFINE Kept(i)  == CellAt(room, At(room, i)) = CellAt(n, At(n, i))
           Slid(i)  == CellAt(room, At(room, i + 1)) = CellAt(n, At(n, i))
           Good     == /\ \A i \in 1 .. index : Kept(i)
                       /\ \A i \in index + 1 .. m : Slid(i)
<1>5. CASE index = 0 /\ m > 0 /\ o > 0
  <2>1. room = [n EXCEPT !.offset = o - 1]
    BY <1>5 DEF prepare_node_for_insert
  <2>2. room.offset = o - 1 /\ room.keys = n.keys /\ room.values = n.values
    BY <1>1, <2>1 DEF Buffer
  <2>3. ASSUME NEW i \in 1 .. m
        PROVE  At(room, i + 1) = At(n, i)
    BY <1>1, <2>2 DEF At
  <2> QED BY <1>5, <2>2, <2>3 DEF CellAt
<1>6. CASE index = 0 /\ ~ (m > 0 /\ o > 0)
  <2> DEFINE to == o + 1
  <2>1. room = shift_pairs(n, to, o, m)
    BY <1>6 DEF prepare_node_for_insert
  <2>2. room.offset = o
    BY <1>1, <2>1 DEF shift_pairs, move_pairs, Buffer
  <2>3. ASSUME NEW i \in 1 .. m
        PROVE  Slid(i)
    <3> DEFINE x == o + i
    <3>1. x \in Cells /\ to <= x /\ x < to + m /\ x - to + o = At(n, i)
      BY <1>1, <1>2, <1>3, <1>4, <2>2
    <3>2. At(room, i + 1) = x
      BY <1>1, <2>2 DEF At
    <3>3. to \in Int /\ o \in Int /\ m \in Int
      BY <1>1
    <3> HIDE DEF to, o, m, x
    <3>4. CellAt(shift_pairs(n, to, o, m), x) = CellAt(n, x - to + o)
      BY <1>1, <3>1, <3>3, ShiftedCells
    <3> QED BY <2>1, <3>1, <3>2, <3>4
  <2> QED BY <1>6, <2>3
<1>7. CASE index # 0 /\ index < m /\ o > 0
  <2> DEFINE to    == o - 1
             k     == index + 1
             moved == shift_pairs(n, to, o, k)
  <2>1. room = [moved EXCEPT !.offset = moved.offset - 1]
    BY <1>7 DEF prepare_node_for_insert
  <2>2. moved.offset = o
    BY <1>1 DEF shift_pairs, move_pairs, Buffer
  <2>3. /\ room.offset = o - 1
        /\ room.keys = moved.keys /\ room.values = moved.values
    BY <1>1, <2>1, <2>2 DEF shift_pairs, move_pairs, Buffer
  <2>4. to \in Int /\ o \in Int /\ k \in Int
    BY <1>1
  <2>5. \A x \in Cells :
          CellAt(room, x) = IF to <= x /\ x < to + k THEN CellAt(n, x - to + o)
                                                     ELSE CellAt(n, x)
    <3>1. \A x \in Cells :
            CellAt(moved, x) = IF to <= x /\ x < to + k THEN CellAt(n, x - to + o)
                                                        ELSE CellAt(n, x)
      <4> HIDE DEF to, k, o
      <4> QED BY <1>1, <2>4, ShiftedCells
    <3> QED BY <2>3, <3>1 DEF CellAt
  <2>6. ASSUME NEW i \in 1 .. index
        PROVE  Kept(i)
    <3> DEFINE x == o + i - 2
    <3>1. x \in Cells /\ to <= x /\ x < to + k /\ x - to + o = At(n, i)
      <4>1. i \in 1 .. n.count /\ At(n, i) = o + i - 1
        BY <1>1, <1>2
      <4>2. x \in Nat /\ x < NodeSize
        BY <1>1, <1>7
      <4> QED BY <1>1, <1>3, <4>1, <4>2
    <3>2. At(room, i) = x
      BY <1>1, <2>3 DEF At
    <3> HIDE DEF to, k, x
    <3> QED BY <2>5, <3>1, <3>2
  <2>7. ASSUME NEW i \in index + 1 .. m
        PROVE  Slid(i)
    <3> DEFINE x == o + i - 1
    <3>1. /\ x \in Cells /\ x = At(n, i)
          /\ to <= x /\ x < to + k => x - to + o = x + 1
      BY <1>1, <1>2, <1>3, <1>7
    <3>2. At(room, i + 1) = x /\ ~ (to <= x /\ x < to + k)
      BY <1>1, <2>3 DEF At
    <3> HIDE DEF to, k, x
    <3> QED BY <2>5, <3>1, <3>2
  <2> QED BY <2>6, <2>7
<1>8. CASE index # 0 /\ index < m /\ ~ (o > 0)
  <2> DEFINE to == index + 1
             k  == m - index
  <2>1. room = shift_pairs(n, to, index, k)
    BY <1>8 DEF prepare_node_for_insert
  <2>2. o = 0 /\ room.offset = 0
    BY <1>1, <1>8, <2>1 DEF shift_pairs, move_pairs, Buffer
  <2>3. to \in Int /\ index \in Int /\ k \in Int
    BY <1>1
  <2>4. \A x \in Cells :
          CellAt(room, x) = IF to <= x /\ x < to + k THEN CellAt(n, x - to + index)
                                                     ELSE CellAt(n, x)
    <3> HIDE DEF to, k
    <3> QED BY <1>1, <2>1, <2>3, ShiftedCells
  <2>5. ASSUME NEW i \in 1 .. index
        PROVE  Kept(i)
    <3>1. /\ At(n, i) \in Cells /\ ~ (to <= At(n, i))
          /\ At(room, i) = At(n, i)
      BY <1>1, <1>2, <2>2 DEF At
    <3> HIDE DEF to, k
    <3> QED BY <2>4, <3>1
  <2>6. ASSUME NEW i \in index + 1 .. m
        PROVE  Slid(i)
    <3> DEFINE x == i
    <3>1. /\ x \in Cells /\ to <= x /\ x < to + k
          /\ x - to + index = At(n, i) /\ At(room, i + 1) = x
      BY <1>1, <1>2, <1>3, <1>4, <2>2 DEF At
    <3> HIDE DEF to, k, x
    <3> QED BY <2>4, <3>1
  <2> QED BY <2>5, <2>6
<1>9. CASE index # 0 /\ ~ (index < m) /\ o + index = NodeSize
  <2> DEFINE moved == shift_pairs(n, 0, o, m)
  <2>1. room = [moved EXCEPT !.offset = 0]
    BY <1>9 DEF prepare_node_for_insert
  <2>2. room.offset = 0 /\ room.keys = moved.keys /\ room.values = moved.values
    BY <1>1, <2>1 DEF shift_pairs, move_pairs, Buffer
  <2>3. \A x \in Cells :
          CellAt(room, x) = IF 0 <= x /\ x < 0 + m THEN CellAt(n, x - 0 + o)
                                                   ELSE CellAt(n, x)
    <3>1. \A x \in Cells :
            CellAt(moved, x) = IF 0 <= x /\ x < 0 + m THEN CellAt(n, x - 0 + o)
                                                      ELSE CellAt(n, x)
      <4>1. 0 \in Int /\ o \in Int /\ m \in Int
        BY <1>1
      <4> HIDE DEF o, m
      <4> QED BY <1>1, <4>1, ShiftedCells
    <3> QED BY <2>2, <3>1 DEF CellAt
  <2>4. ASSUME NEW i \in 1 .. m
        PROVE  Kept(i)
    <3> DEFINE x == i - 1
    <3>1. /\ x \in Cells /\ 0 <= x /\ x < 0 + m
          /\ x - 0 + o = At(n, i) /\ At(room, i) = x
      BY <1>1, <1>2, <1>3, <2>2 DEF At
    <3> HIDE DEF x
    <3> QED BY <2>3, <3>1
  <2>5. index = m
    BY <1>1, <1>9
  <2> QED BY <1>1, <2>4, <2>5
<1>10. CASE index # 0 /\ ~ (index < m) /\ o + index # NodeSize
  <2>1. room = n
    BY <1>10 DEF prepare_node_for_insert
  <2>2. index = m
    BY <1>1, <1>10
  <2> QED BY <1>1, <2>1, <2>2
<1>11. Good
  BY <1>5, <1>6, <1>7, <1>8, <1>9, <1>10
<1> QED BY <1>11

\* Inserting a pair inserts it into the live slice.
LEMMA InsertContent ==
  ASSUME NEW n \in Fits, NEW index \in 0 .. n.count, n.count < NodeSize,
         NEW pair \in Pair
  PROVE  Content(insert(n, index, pair)) = InsertAt(Content(n), index + 1, pair)
<1> DEFINE room == prepare_node_for_insert(n, index)
           new  == insert(n, index, pair)
           at   == room.offset + index
           s    == Content(n)
           t    == InsertAt(s, index + 1, pair)
<1>1. n.count \in Nat /\ index \in Nat /\ index <= n.count /\ NodeSize \in Nat
  BY LiveCells
<1>2. room \in Buffer /\ room.count = n.count /\ room.offset + n.count + 1 <= NodeSize
  BY PrepareFits
<1>3. pair \in AnyPair /\ pair = [key |-> pair.key, val |-> pair.val]
  BY NodeBuffersAssumption DEF AnyPair
<1>4. /\ s \in Seq(AnyPair) /\ Len(s) = n.count
      /\ \A i \in 1 .. n.count : s[i] = CellAt(n, At(n, i))
  BY ContentProperties
<1>5. /\ t \in Seq(AnyPair) /\ Len(t) = n.count + 1
      /\ \A j \in 1 .. n.count + 1 :
           t[j] = IF j < index + 1 THEN s[j]
                  ELSE IF j = index + 1 THEN pair ELSE s[j - 1]
  <2>1. index + 1 \in 1 .. Len(s) + 1
    BY <1>1, <1>4
  <2> DEFINE place == index + 1
  <2> HIDE DEF s, place
  <2>2. /\ InsertAt(s, place, pair) \in Seq(AnyPair)
        /\ Len(InsertAt(s, place, pair)) = Len(s) + 1
        /\ \A j \in 1 .. Len(s) + 1 :
             InsertAt(s, place, pair)[j] =
               IF j < place THEN s[j] ELSE IF j = place THEN pair ELSE s[j - 1]
    <3>1. place \in 1 .. Len(s) + 1
      BY <2>1 DEF place
    <3>2. s \in Seq(AnyPair) /\ pair \in AnyPair
      BY <1>3, <1>4
    <3>3. /\ InsertAt(s, place, pair) \in Seq(AnyPair)
          /\ Len(InsertAt(s, place, pair)) = Len(s) + 1
      BY <3>1, <3>2, InsertAtProperties
    <3>4. ASSUME NEW j \in 1 .. Len(s) + 1
          PROVE  InsertAt(s, place, pair)[j] =
                   IF j < place THEN s[j] ELSE IF j = place THEN pair ELSE s[j - 1]
      BY <3>1, <3>2, InsertAtProperties
    <3> QED BY <3>3, <3>4
  <2> QED BY <1>4, <2>2 DEF place
<1>6. /\ \A i \in 1 .. index : CellAt(room, At(room, i)) = CellAt(n, At(n, i))
      /\ \A i \in index + 1 .. n.count :
           CellAt(room, At(room, i + 1)) = CellAt(n, At(n, i))
  BY PrepareCells
<1>7. room.offset \in Nat /\ at \in Cells
  BY <1>1, <1>2 DEF Buffer, Cells
<1>8. /\ new \in Fits /\ new.offset = room.offset /\ new.count = n.count + 1
      /\ \A x \in Cells : CellAt(new, x) = IF x = at THEN pair ELSE CellAt(room, x)
  <2>1. new \in Fits
    BY InsertFits
  <2> HIDE DEF room
  <2>2. new = [room EXCEPT !.keys = [room.keys EXCEPT ![at] = pair.key],
                           !.values = [room.values EXCEPT ![at] = pair.val],
                           !.count = n.count + 1]
    BY <1>2 DEF insert, room, Buffer
  <2>3. /\ new.offset = room.offset /\ new.count = n.count + 1
        /\ new.keys = [room.keys EXCEPT ![at] = pair.key]
        /\ new.values = [room.values EXCEPT ![at] = pair.val]
    BY <1>2, <2>2 DEF Buffer
  <2>4. DOMAIN room.keys = Cells /\ DOMAIN room.values = Cells
    BY <1>2 DEF Buffer
  <2> HIDE DEF new, at
  <2> QED BY <1>3, <2>1, <2>3, <2>4 DEF CellAt
<1>9. ASSUME NEW i \in 1 .. n.count + 1
      PROVE  CellAt(new, At(new, i)) = t[i]
  <2>1. /\ At(new, i) = At(room, i) /\ At(new, i) \in Cells
        /\ At(new, i) = at <=> i = index + 1
    BY <1>1, <1>2, <1>7, <1>8 DEF At, Cells
  <2> HIDE DEF room, new, at, s, t
  <2>2. CASE i = index + 1
    BY <1>1, <1>5, <1>8, <2>1, <2>2
  <2>3. CASE i < index + 1
    BY <1>1, <1>4, <1>5, <1>6, <1>8, <2>1, <2>3
  <2>4. CASE i > index + 1
    <3> DEFINE j == i - 1
    <3>1. j \in index + 1 .. n.count /\ j \in 1 .. n.count /\ j + 1 = i
      BY <1>1, <2>4
    <3>2. t[i] = s[j]
      BY <1>1, <1>5, <2>4
    <3> HIDE DEF j
    <3>3. CellAt(room, At(room, i)) = CellAt(n, At(n, j))
      BY <1>6, <3>1
    <3> QED BY <1>1, <1>4, <1>8, <2>1, <2>4, <3>1, <3>2, <3>3
  <2> QED BY <1>1, <2>2, <2>3, <2>4
<1> HIDE DEF new, t
<1>10. Content(new) = t
  BY <1>5, <1>8, <1>9, ContentIs
<1> QED BY <1>10 DEF new, t

\* Removing a pair by moving an end of the slice,
LEMMA DropEndContent ==
  ASSUME NEW n \in Fits, n.count > 0
  PROVE  /\ Content(drop_first(n)) = RemoveAt(Content(n), 1)
         /\ Content(drop_last(n)) = RemoveAt(Content(n), n.count)
<1> DEFINE s == Content(n)
           k == n.count - 1
<1>1. /\ n \in Buffer /\ n.count \in Nat /\ n.offset \in Nat /\ NodeSize \in Nat
      /\ n.offset + n.count <= NodeSize /\ n.offset < NodeSize
  BY LiveCells
<1>2. /\ s \in Seq(AnyPair) /\ Len(s) = n.count
      /\ \A i \in 1 .. n.count : s[i] = CellAt(n, At(n, i))
  BY ContentProperties
<1> HIDE DEF s
<1>3. ASSUME NEW at \in 1 .. n.count
      PROVE  /\ RemoveAt(s, at) \in Seq(AnyPair) /\ Len(RemoveAt(s, at)) = k
             /\ \A j \in 1 .. k :
                  RemoveAt(s, at)[j] = IF j < at THEN s[j] ELSE s[j + 1]
  BY <1>2, RemoveAtProperties
<1>4. Content(drop_first(n)) = RemoveAt(s, 1)
  <2> DEFINE new == drop_first(n)
             to  == IF n.offset + 1 = NodeSize THEN NodeSize \div 2 ELSE n.offset + 1
  <2>1. new = [n EXCEPT !.offset = to, !.count = k]
    BY DEF drop_first
  <2>2. /\ new \in Fits /\ new.offset = to /\ new.count = k
        /\ new.keys = n.keys /\ new.values = n.values
    <3>1. new \in Fits
      BY DropFirstFits
    <3> HIDE DEF to, k
    <3> QED BY <1>1, <2>1, <3>1 DEF Buffer
  <2>3. ASSUME NEW i \in 1 .. k
        PROVE  CellAt(new, At(new, i)) = s[i + 1]
    <3>1. to = n.offset + 1 /\ i + 1 \in 1 .. n.count
      BY <1>1
    <3>2. At(new, i) = At(n, i + 1)
      BY <1>1, <2>2, <3>1 DEF At
    <3> QED BY <1>2, <2>2, <3>1, <3>2 DEF CellAt
  <2>4. 1 \in 1 .. n.count /\ \A i \in 1 .. k : ~ (i < 1)
    BY <1>1
  <2>5. /\ RemoveAt(s, 1) \in Seq(AnyPair) /\ Len(RemoveAt(s, 1)) = k
        /\ \A i \in 1 .. k : RemoveAt(s, 1)[i] = s[i + 1]
    BY <1>3, <2>4
  <2> HIDE DEF new, k
  <2> QED BY <2>2, <2>3, <2>5, ContentIs DEF new
<1>5. Content(drop_last(n)) = RemoveAt(s, n.count)
  <2> DEFINE new == drop_last(n)
             all == n.count
  <2>1. new = [n EXCEPT !.count = k]
    BY DEF drop_last
  <2>2. /\ new \in Fits /\ new.offset = n.offset /\ new.count = k
        /\ new.keys = n.keys /\ new.values = n.values
    <3>1. new \in Fits
      BY DropLastFits
    <3> HIDE DEF k
    <3> QED BY <1>1, <2>1, <3>1 DEF Buffer
  <2>3. ASSUME NEW i \in 1 .. k
        PROVE  CellAt(new, At(new, i)) = s[i]
    <3>1. i \in 1 .. n.count
      BY <1>1
    <3>2. At(new, i) = At(n, i)
      BY <2>2 DEF At
    <3> QED BY <1>2, <2>2, <3>1, <3>2 DEF CellAt
  <2>4. all \in 1 .. n.count /\ \A i \in 1 .. k : i < all
    BY <1>1
  <2> HIDE DEF all
  <2>5. /\ RemoveAt(s, all) \in Seq(AnyPair) /\ Len(RemoveAt(s, all)) = k
        /\ \A i \in 1 .. k : RemoveAt(s, all)[i] = s[i]
    BY <1>3, <2>4
  <2> HIDE DEF new, k
  <2>6. Content(new) = RemoveAt(s, all)
    BY <2>2, <2>3, <2>5, ContentIs
  <2> QED BY <2>6 DEF new, all
<1> QED BY <1>4, <1>5 DEF s

\* or by closing the gap.
LEMMA DropContent ==
  ASSUME NEW n \in Fits, NEW index \in Nat, index < n.count
  PROVE  Content(drop(n, index)) = RemoveAt(Content(n), index + 1)
<1>1. /\ n \in Buffer /\ n.count \in Nat /\ n.offset \in Nat /\ NodeSize \in Nat
      /\ n.offset + n.count <= NodeSize /\ n.offset < NodeSize /\ n.count > 0
  BY LiveCells
<1>2. CASE index = 0
  BY <1>1, <1>2, DropEndContent DEF drop
<1>3. CASE index # 0 /\ index = n.count - 1
  <2>1. index + 1 = n.count
    BY <1>1, <1>3
  <2> QED BY <1>1, <1>3, <2>1, DropEndContent DEF drop
<1>4. CASE index # 0 /\ index # n.count - 1
  <2> DEFINE s     == Content(n)
             left  == n.count - 1
             place == index + 1
             to    == n.offset + index
             from  == n.offset + index + 1
             k     == n.count - index - 1
             moved == shift_pairs(n, to, from, k)
             new   == drop(n, index)
  <2>1. new = drop_last(moved)
    BY <1>4 DEF drop
  <2>2. to \in Int /\ from \in Int /\ k \in Int /\ place \in 1 .. n.count
    BY <1>1
  <2>3. /\ new \in Fits /\ new.offset = n.offset /\ new.count = left
        /\ new.keys = moved.keys /\ new.values = moved.values
    <3>1. new \in Fits
      BY DropFits
    <3> HIDE DEF to, from, k
    <3>2. moved.offset = n.offset /\ moved.count = n.count
      BY <1>1 DEF shift_pairs, move_pairs, Buffer
    <3>3. new = [moved EXCEPT !.count = left]
      BY <2>1, <3>2 DEF drop_last
    <3> QED BY <1>1, <3>1, <3>2, <3>3 DEF shift_pairs, move_pairs, Buffer
  <2>4. \A x \in Cells :
          CellAt(new, x) = IF to <= x /\ x < to + k THEN CellAt(n, x - to + from)
                                                    ELSE CellAt(n, x)
    <3>1. \A x \in Cells :
            CellAt(moved, x) = IF to <= x /\ x < to + k THEN CellAt(n, x - to + from)
                                                        ELSE CellAt(n, x)
      <4> HIDE DEF to, from, k
      <4> QED BY <1>1, <2>2, ShiftedCells
    <3> QED BY <2>3, <3>1 DEF CellAt
  <2>5. /\ s \in Seq(AnyPair) /\ Len(s) = n.count
        /\ \A i \in 1 .. n.count : s[i] = CellAt(n, At(n, i))
    BY ContentProperties
  <2>6. /\ RemoveAt(s, place) \in Seq(AnyPair) /\ Len(RemoveAt(s, place)) = left
        /\ \A j \in 1 .. left :
             RemoveAt(s, place)[j] = IF j < place THEN s[j] ELSE s[j + 1]
    <3>1. place \in 1 .. Len(s) /\ left = Len(s) - 1
      BY <2>2, <2>5
    <3> HIDE DEF s, place, left
    <3>2. /\ RemoveAt(s, place) \in Seq(AnyPair)
          /\ Len(RemoveAt(s, place)) = Len(s) - 1
          /\ \A j \in 1 .. Len(s) - 1 :
               RemoveAt(s, place)[j] = IF j < place THEN s[j] ELSE s[j + 1]
      BY <2>5, <3>1, RemoveAtProperties
    <3> QED BY <3>1, <3>2
  <2>7. ASSUME NEW i \in 1 .. left
        PROVE  CellAt(new, At(new, i)) = RemoveAt(s, place)[i]
    <3>1. At(new, i) = At(n, i) /\ At(n, i) \in Cells /\ i \in 1 .. n.count
      BY <1>1, <2>3, LiveCells DEF At
    <3>2. CASE i < place
      <4>1. ~ (to <= At(n, i))
        BY <1>1, <3>2 DEF At
      <4> HIDE DEF to, k, s, place, new
      <4> QED BY <2>4, <2>5, <2>6, <3>1, <3>2, <4>1
    <3>3. CASE ~ (i < place)
      <4>1. /\ to <= At(n, i) /\ At(n, i) < to + k
            /\ At(n, i) - to + from = At(n, i + 1) /\ i + 1 \in 1 .. n.count
        BY <1>1, <3>3 DEF At
      <4> HIDE DEF to, from, k, s, place, new
      <4> QED BY <2>4, <2>5, <2>6, <3>1, <3>3, <4>1
    <3> QED BY <3>2, <3>3
  <2> HIDE DEF new, left, place, s
  <2>8. Content(new) = RemoveAt(s, place)
    BY <2>3, <2>6, <2>7, ContentIs
  <2> QED BY <2>8 DEF new, place, s
<1> QED BY <1>2, <1>3, <1>4

\* Rebinding a key replaces the pair.
rebound(n, index, pair) ==
  LET at == n.offset + index
  IN  [n EXCEPT !.keys = [n.keys EXCEPT ![at] = pair.key],
                !.values = [n.values EXCEPT ![at] = pair.val]]

\* skiparray_set_with_pair on a key that is present writes one cell.
LEMMA RebindContent ==
  ASSUME NEW n \in Fits, NEW index \in Nat, index < n.count, NEW pair \in Pair,
         rebound(n, index, pair) \in Fits
  PROVE  Content(rebound(n, index, pair)) = ReplaceAt(Content(n), index + 1, pair)
<1> DEFINE s   == Content(n)
           t   == ReplaceAt(s, index + 1, pair)
           at  == n.offset + index
           new == rebound(n, index, pair)
<1>1. /\ n \in Buffer /\ n.count \in Nat /\ n.offset \in Nat /\ NodeSize \in Nat
      /\ n.offset + n.count <= NodeSize /\ n.offset < NodeSize
  BY LiveCells
<1>2. pair \in AnyPair /\ pair = [key |-> pair.key, val |-> pair.val]
  BY NodeBuffersAssumption DEF AnyPair
<1>3. /\ s \in Seq(AnyPair) /\ Len(s) = n.count
      /\ \A i \in 1 .. n.count : s[i] = CellAt(n, At(n, i))
  BY ContentProperties
<1>4. /\ t \in Seq(AnyPair) /\ Len(t) = n.count
      /\ \A i \in 1 .. n.count : t[i] = IF i = index + 1 THEN pair ELSE s[i]
  <2>1. index + 1 \in 1 .. Len(s)
    BY <1>1, <1>3
  <2> DEFINE place == index + 1
  <2> HIDE DEF s, place
  <2>2. /\ ReplaceAt(s, place, pair) \in Seq(AnyPair)
        /\ Len(ReplaceAt(s, place, pair)) = Len(s)
        /\ \A j \in 1 .. Len(s) :
             ReplaceAt(s, place, pair)[j] = IF j = place THEN pair ELSE s[j]
    BY <1>2, <1>3, <2>1, ExceptSeq DEF ReplaceAt, place
  <2> QED BY <1>3, <2>2 DEF place
<1>5. new.offset = n.offset /\ new.count = n.count
  BY <1>1 DEF rebound, Buffer
<1>6. ASSUME NEW i \in 1 .. n.count
      PROVE  CellAt(new, At(new, i)) = t[i]
  <2>1. /\ At(new, i) = At(n, i) /\ At(n, i) \in Cells
        /\ At(n, i) = at <=> i = index + 1
    BY <1>1, <1>5, LiveCells DEF At
  <2>2. /\ new.keys = [n.keys EXCEPT ![at] = pair.key]
        /\ new.values = [n.values EXCEPT ![at] = pair.val]
        /\ DOMAIN n.keys = Cells /\ DOMAIN n.values = Cells
    BY <1>1 DEF rebound, Buffer
  <2> HIDE DEF new
  <2> DEFINE x == At(n, i)
  <2>3. CellAt(new, x) = IF x = at THEN pair ELSE CellAt(n, x)
    <3> HIDE DEF x
    <3> QED BY <1>2, <2>1, <2>2 DEF CellAt, x
  <2> QED BY <1>3, <1>4, <2>1, <2>3
<1> HIDE DEF s, t, new
<1>7. new \in Fits
  BY DEF new
<1>8. Content(new) = t
  BY <1>4, <1>5, <1>6, <1>7, ContentIs
<1> QED BY <1>8 DEF s, t, new

\* A new node has no pairs.
LEMMA node_allocContent ==
  ASSUME NEW offset \in Cells
  PROVE  Content(node_alloc(offset)) = << >>
<1> DEFINE n == node_alloc(offset)
<1>1. n \in Fits /\ n.count = 0
  BY node_allocType
<1> HIDE DEF n
<1>2. Content(n) \in Seq(AnyPair) /\ Len(Content(n)) = 0
  BY <1>1, ContentProperties
<1> QED BY <1>2, EmptySeq DEF n

\* The halves of a full node are the two parts of its slice.
LEMMA SplitContent ==
  ASSUME NEW n \in Fits, n.count = NodeSize
  PROVE  LET kept == NodeSize - Required
         IN  /\ Content(split_low(n)) = SubSeq(Content(n), 1, kept)
             /\ Content(split_high(n)) = SubSeq(Content(n), kept + 1, NodeSize)
<1> DEFINE s    == Content(n)
           kept == NodeSize - Required
           low  == split_low(n)
           high == split_high(n)
           from == n.offset + NodeSize - Required
<1>1. /\ n \in Buffer /\ n.offset \in Nat /\ NodeSize \in Nat /\ Required \in Nat
      /\ n.offset + NodeSize <= NodeSize /\ Required <= NodeSize
      /\ NodeSize \div 2 = Required
  BY LiveCells, RequiredBounds
<1>2. /\ s \in Seq(AnyPair) /\ Len(s) = NodeSize
      /\ \A i \in 1 .. NodeSize : s[i] = CellAt(n, At(n, i))
  BY ContentProperties
<1>3. /\ low \in Fits /\ low.count = kept
      /\ high \in Fits /\ high.count = Required
  BY SplitFits
<1>4. /\ SubSeq(s, 1, kept) \in Seq(AnyPair) /\ Len(SubSeq(s, 1, kept)) = kept
      /\ SubSeq(s, kept + 1, NodeSize) \in Seq(AnyPair)
      /\ Len(SubSeq(s, kept + 1, NodeSize)) = Required
      /\ \A j \in 1 .. kept : SubSeq(s, 1, kept)[j] = s[j]
      /\ \A j \in 1 .. Required : SubSeq(s, kept + 1, NodeSize)[j] = s[kept + j]
  <2>1. kept \in 0 .. Len(s) /\ Len(s) - kept = Required
    BY <1>1, <1>2
  <2> HIDE DEF s, kept
  <2>2. /\ SubSeq(s, 1, kept) \in Seq(AnyPair) /\ Len(SubSeq(s, 1, kept)) = kept
        /\ SubSeq(s, kept + 1, Len(s)) \in Seq(AnyPair)
        /\ Len(SubSeq(s, kept + 1, Len(s))) = Len(s) - kept
    BY <1>2, <2>1, CutProperties
  <2>3. /\ \A j \in 1 .. kept : SubSeq(s, 1, kept)[j] = s[j]
        /\ \A j \in 1 .. Len(s) - kept : SubSeq(s, kept + 1, Len(s))[j] = s[kept + j]
    BY <1>2, <2>1, CutElements
  <2> QED BY <1>2, <2>1, <2>2, <2>3
<1>5. Content(low) = SubSeq(s, 1, kept)
  <2>1. low.offset = n.offset /\ low.keys = n.keys /\ low.values = n.values
    BY <1>1 DEF split_low, Buffer
  <2>2. ASSUME NEW i \in 1 .. kept
        PROVE  CellAt(low, At(low, i)) = s[i]
    BY <1>1, <1>2, <2>1 DEF CellAt, At
  <2>3. \A i \in 1 .. low.count : CellAt(low, At(low, i)) = SubSeq(s, 1, kept)[i]
    BY <1>3, <1>4, <2>2
  <2> HIDE DEF low, s, kept
  <2> QED BY <1>3, <1>4, <2>3, ContentIs
<1>6. Content(high) = SubSeq(s, kept + 1, NodeSize)
  <2> DEFINE new   == node_alloc(0)
             moved == move_pairs(new, n, 0, from, Required)
  <2>1. /\ high.offset = 0 /\ high.keys = moved.keys /\ high.values = moved.values
    <3>1. high = [moved EXCEPT !.count = Required]
      BY <1>1 DEF split_high
    <3> QED BY <3>1 DEF move_pairs, node_alloc
  <2>2. new \in Buffer
    <3>1. 0 \in Cells
      BY RequiredBounds DEF Cells
    <3> QED BY <3>1, node_allocType DEF Fits
  <2>3. \A x \in Cells :
          CellAt(high, x) = IF 0 <= x /\ x < 0 + Required THEN CellAt(n, x - 0 + from)
                                                          ELSE CellAt(new, x)
    <3>1. 0 \in Int /\ from \in Int /\ Required \in Int
      BY <1>1
    <3> HIDE DEF new, from
    <3>2. \A x \in Cells :
            CellAt(moved, x) =
              IF 0 <= x /\ x < 0 + Required THEN CellAt(n, x - 0 + from)
                                            ELSE CellAt(new, x)
      BY <2>2, <3>1, MovedCells
    <3> HIDE DEF moved, high
    <3> QED BY <2>1, <3>2 DEF CellAt
  <2>4. ASSUME NEW i \in 1 .. high.count
        PROVE  CellAt(high, At(high, i)) = SubSeq(s, kept + 1, NodeSize)[i]
    <3> DEFINE x == i - 1
    <3>1. /\ x \in Cells /\ 0 <= x /\ x < 0 + Required /\ At(high, i) = x
          /\ x - 0 + from = At(n, kept + i) /\ kept + i \in 1 .. NodeSize
          /\ i \in 1 .. Required
      BY <1>1, <1>3, <2>1 DEF At, Cells
    <3> HIDE DEF x, from, kept, high, s, new
    <3> QED BY <1>2, <1>4, <2>3, <3>1
  <2> HIDE DEF high, s, kept
  <2> QED BY <1>3, <1>4, <2>4, ContentIs
<1> QED BY <1>5, <1>6

\* Taking the first pairs of the next node puts them after a node's own,
LEMMA TakeContent ==
  ASSUME NEW n \in Fits, NEW next \in Fits, NEW k \in 0 .. next.count,
         n.count + k <= NodeSize
  PROVE  Content(take(n, next, k)) = Content(n) ++ SubSeq(Content(next), 1, k)
<1> DEFINE s     == Content(n)
           t     == SubSeq(Content(next), 1, k)
           slid  == shift_pairs(n, 0, n.offset, n.count)
           front == [slid EXCEPT !.offset = 0]
           moved == move_pairs(front, next, n.count, next.offset, k)
           new   == take(n, next, k)
<1>1. /\ n \in Buffer /\ n.offset \in Nat /\ n.count \in Nat /\ NodeSize \in Nat
      /\ n.offset + n.count <= NodeSize
      /\ next \in Buffer /\ next.offset \in Nat /\ next.count \in Nat
      /\ next.offset + next.count <= NodeSize /\ k \in Nat /\ k <= next.count
  BY LiveCells
<1>2. /\ s \in Seq(AnyPair) /\ Len(s) = n.count
      /\ \A i \in 1 .. n.count : s[i] = CellAt(n, At(n, i))
  BY ContentProperties
<1>3. /\ t \in Seq(AnyPair) /\ Len(t) = k
      /\ \A i \in 1 .. k : t[i] = CellAt(next, At(next, i))
  <2> DEFINE u == Content(next)
  <2>1. /\ u \in Seq(AnyPair) /\ Len(u) = next.count
        /\ \A i \in 1 .. next.count : u[i] = CellAt(next, At(next, i))
    BY ContentProperties
  <2> HIDE DEF u
  <2>2. /\ SubSeq(u, 1, k) \in Seq(AnyPair) /\ Len(SubSeq(u, 1, k)) = k
        /\ \A j \in 1 .. k : SubSeq(u, 1, k)[j] = u[j]
    BY <2>1, CutProperties, CutElements
  <2> QED BY <1>1, <2>1, <2>2 DEF u
<1> HIDE DEF s, t
<1>4. /\ s ++ t \in Seq(AnyPair) /\ Len(s ++ t) = n.count + k
      /\ \A i \in 1 .. n.count + k :
           (s ++ t)[i] = IF i <= n.count THEN s[i] ELSE t[i - n.count]
  <2>1. /\ s ++ t \in Seq(AnyPair) /\ Len(s ++ t) = Len(s) + Len(t)
        /\ \A i \in 1 .. Len(s) + Len(t) :
             (s ++ t)[i] = IF i <= Len(s) THEN s[i] ELSE t[i - Len(s)]
    BY <1>2, <1>3, RowProperties, RowElements
  <2> QED BY <1>2, <1>3, <2>1
<1>5. /\ front \in Buffer /\ front.count = n.count /\ front.offset = 0
      /\ front.keys = slid.keys /\ front.values = slid.values
  <2>1. 0 \in Cells
    BY RequiredBounds DEF Cells
  <2>2. slid \in Buffer /\ slid.count = n.count
    <3>1. /\ 0 \in Int /\ n.offset \in Int /\ n.count \in Int
          /\ Within(0, n.count) /\ Within(n.offset, n.count)
      BY <1>1 DEF Within
    <3> QED BY <1>1, <3>1, ShiftPairsType
  <2> HIDE DEF slid
  <2> QED BY <2>1, <2>2 DEF Buffer
<1>6. \A x \in Cells :
        CellAt(front, x) = IF 0 <= x /\ x < 0 + n.count THEN CellAt(n, x - 0 + n.offset)
                                                        ELSE CellAt(n, x)
  <2>1. \A x \in Cells :
          CellAt(slid, x) = IF 0 <= x /\ x < 0 + n.count THEN CellAt(n, x - 0 + n.offset)
                                                         ELSE CellAt(n, x)
    <3>1. 0 \in Int /\ n.offset \in Int /\ n.count \in Int
      BY <1>1
    <3> QED BY <1>1, <3>1, ShiftedCells
  <2> HIDE DEF slid
  <2> QED BY <1>5, <2>1 DEF CellAt
<1> HIDE DEF front
<1>7. \A x \in Cells :
        CellAt(moved, x) =
          IF n.count <= x /\ x < n.count + k THEN CellAt(next, x - n.count + next.offset)
                                             ELSE CellAt(front, x)
  <2>1. n.count \in Int /\ next.offset \in Int /\ k \in Int
    BY <1>1
  <2> QED BY <1>5, <2>1, MovedCells
<1>8. /\ new \in Fits /\ new.count = n.count + k /\ new.offset = 0
      /\ new.keys = moved.keys /\ new.values = moved.values
  <2>1. new \in Fits
    BY TakeFits
  <2>2. /\ moved.count = n.count /\ moved.offset = 0
    BY <1>5 DEF move_pairs, Buffer
  <2>3. new = [moved EXCEPT !.count = n.count + k]
    BY <2>2 DEF take, front, slid
  <2> QED BY <1>5, <2>1, <2>2, <2>3 DEF move_pairs, Buffer
<1>9. ASSUME NEW i \in 1 .. n.count + k
      PROVE  CellAt(new, At(new, i)) = (s ++ t)[i]
  <2> DEFINE x == i - 1
  <2>1. x \in Cells /\ At(new, i) = x
    BY <1>1, <1>8 DEF At, Cells
  <2>2. CellAt(new, x) = CellAt(moved, x)
    BY <1>8 DEF CellAt
  <2>3. CASE i <= n.count
    <3>1. /\ ~ (n.count <= x) /\ 0 <= x /\ x < 0 + n.count
          /\ x - 0 + n.offset = At(n, i) /\ i \in 1 .. n.count
      BY <1>1, <2>3 DEF At
    <3> HIDE DEF x, moved, new
    <3> QED BY <1>2, <1>4, <1>6, <1>7, <2>1, <2>2, <2>3, <3>1
  <2>4. CASE ~ (i <= n.count)
    <3> DEFINE j == i - n.count
    <3>1. /\ n.count <= x /\ x < n.count + k
          /\ x - n.count + next.offset = At(next, j) /\ j \in 1 .. k
      BY <1>1, <2>4 DEF At
    <3>2. (s ++ t)[i] = t[j]
      BY <1>4, <2>4
    <3> HIDE DEF x, j, moved, new
    <3> QED BY <1>3, <1>7, <2>1, <2>2, <3>1, <3>2
  <2> QED BY <2>3, <2>4
<1>10. Content(new) = s ++ t
  <2> HIDE DEF new
  <2> QED BY <1>4, <1>8, <1>9, ContentIs
<1> QED BY <1>10 DEF s, t

\* and giving them away leaves the others.
LEMMA GiveContent ==
  ASSUME NEW n \in Fits, NEW k \in Nat, k < n.count
  PROVE  Content(give(n, k)) = SubSeq(Content(n), k + 1, Len(Content(n)))
<1> DEFINE s    == Content(n)
           left == n.count - k
           new  == give(n, k)
           rest == SubSeq(s, k + 1, Len(s))
<1>1. n \in Buffer /\ n.offset \in Nat /\ n.count \in Nat
  BY LiveCells
<1>2. /\ s \in Seq(AnyPair) /\ Len(s) = n.count
      /\ \A i \in 1 .. n.count : s[i] = CellAt(n, At(n, i))
  BY ContentProperties
<1> HIDE DEF s
<1>3. /\ rest \in Seq(AnyPair) /\ Len(rest) = left
      /\ \A j \in 1 .. left : rest[j] = s[k + j]
  <2>1. k \in 0 .. Len(s)
    BY <1>1, <1>2
  <2>2. /\ rest \in Seq(AnyPair) /\ Len(rest) = Len(s) - k
        /\ \A j \in 1 .. Len(s) - k : rest[j] = s[k + j]
    BY <1>2, <2>1, CutProperties, CutElements
  <2> QED BY <1>2, <2>2
<1>4. /\ new \in Fits /\ new.count = left /\ new.offset = n.offset + k
      /\ new.keys = n.keys /\ new.values = n.values
  <2>1. new \in Fits
    BY GiveFits
  <2> QED BY <1>1, <2>1 DEF give, Buffer
<1>5. ASSUME NEW i \in 1 .. left
      PROVE  CellAt(new, At(new, i)) = rest[i]
  <2>1. At(new, i) = At(n, k + i) /\ k + i \in 1 .. n.count
    BY <1>1, <1>4 DEF At
  <2> HIDE DEF new, rest, left
  <2> QED BY <1>2, <1>3, <1>4, <2>1 DEF CellAt
<1> HIDE DEF new, rest, left
<1>6. Content(new) = rest
  BY <1>3, <1>4, <1>5, ContentIs
<1> QED BY <1>6 DEF new, rest, s

-----------------------------------------------------------------------------
(* All nodes. *)

Chained(ns) == [c \in DOMAIN ns |-> Content(ns[c])]

AnyChains == Seq(Seq(AnyPair))

\* The slices of the nodes, one by one,
LEMMA ChainedProperties ==
  ASSUME NEW ns \in Chains
  PROVE  /\ Chained(ns) \in AnyChains /\ Len(Chained(ns)) = Len(ns)
         /\ \A c \in 1 .. Len(ns) : /\ Chained(ns)[c] = Content(ns[c])
                                    /\ Content(ns[c]) \in Seq(AnyPair)
                                    /\ Len(Content(ns[c])) = ns[c].count
<1>1. Len(ns) \in Nat /\ DOMAIN ns = 1 .. Len(ns)
  BY NodeFits
<1>2. ASSUME NEW c \in 1 .. Len(ns)
      PROVE  Content(ns[c]) \in Seq(AnyPair) /\ Len(Content(ns[c])) = ns[c].count
  <2>1. ns[c] \in Fits
    BY NodeFits
  <2> QED BY <2>1, ContentProperties
<1>3. Chained(ns) \in [1 .. Len(ns) -> Seq(AnyPair)]
  BY <1>1, <1>2 DEF Chained
<1>4. Chained(ns) \in AnyChains /\ Len(Chained(ns)) = Len(ns)
  BY <1>1, <1>3, SeqDef, LenProperties DEF AnyChains
<1> QED BY <1>1, <1>2, <1>4 DEF Chained

\* and which sequence of slices it is.
LEMMA ChainedIs ==
  ASSUME NEW ns \in Chains, NEW ch \in AnyChains, Len(ch) = Len(ns),
         \A c \in 1 .. Len(ns) : Content(ns[c]) = ch[c]
  PROVE  Chained(ns) = ch
<1>1. /\ Chained(ns) \in AnyChains /\ Len(Chained(ns)) = Len(ns)
      /\ \A c \in 1 .. Len(ns) : Chained(ns)[c] = Content(ns[c])
  BY ChainedProperties
<1> QED BY <1>1, SeqEqual DEF AnyChains

\* What the slices are when a node is written,
LEMMA ChainedReplace ==
  ASSUME NEW ns \in Chains, NEW c \in 1 .. Len(ns), NEW n \in Fits
  PROVE  Chained([ns EXCEPT ![c] = n]) = ReplaceAt(Chained(ns), c, Content(n))
<1> DEFINE new == [ns EXCEPT ![c] = n]
           ch  == Chained(ns)
           e   == Content(n)
<1>1. /\ new \in Chains /\ Len(new) = Len(ns)
      /\ \A d \in 1 .. Len(ns) : new[d] = IF d = c THEN n ELSE ns[d]
  BY ReplaceFits
<1>2. /\ ch \in AnyChains /\ Len(ch) = Len(ns)
      /\ \A d \in 1 .. Len(ns) : ch[d] = Content(ns[d])
  BY ChainedProperties
<1>3. e \in Seq(AnyPair)
  BY ContentProperties
<1> HIDE DEF new, ch
<1>4. ASSUME NEW d \in 1 .. Len(ns)
      PROVE  Content(new[d]) = IF d = c THEN e ELSE ch[d]
  BY <1>1, <1>2
<1> HIDE DEF e
<1>5. /\ ReplaceAt(ch, c, e) \in AnyChains /\ Len(ReplaceAt(ch, c, e)) = Len(ch)
      /\ \A d \in 1 .. Len(ch) : ReplaceAt(ch, c, e)[d] = IF d = c THEN e ELSE ch[d]
  BY <1>2, <1>3, ExceptSeq DEF ReplaceAt, AnyChains
<1>6. Chained(new) = ReplaceAt(ch, c, e)
  <2> DEFINE put == ReplaceAt(ch, c, e)
  <2>1. /\ put \in AnyChains /\ Len(put) = Len(new)
        /\ \A d \in 1 .. Len(new) : Content(new[d]) = put[d]
    BY <1>1, <1>2, <1>4, <1>5
  <2> HIDE DEF put
  <2>2. Chained(new) = put
    BY <1>1, <2>1, ChainedIs
  <2> QED BY <2>2 DEF put
<1> QED BY <1>6 DEF new, ch, e

\* when one is linked in after a split,
LEMMA ChainedInsert ==
  ASSUME NEW ns \in Chains, NEW c \in 1 .. Len(ns) + 1, NEW n \in Fits
  PROVE  Chained(InsertAt(ns, c, n)) = InsertAt(Chained(ns), c, Content(n))
<1> DEFINE new == InsertAt(ns, c, n)
           ch  == Chained(ns)
           e   == Content(n)
           to  == InsertAt(ch, c, e)
<1>1. /\ new \in Chains /\ Len(new) = Len(ns) + 1
      /\ \A d \in 1 .. Len(ns) + 1 :
           new[d] = IF d < c THEN ns[d] ELSE IF d = c THEN n ELSE ns[d - 1]
  <2>1. new \in Chains /\ Len(new) = Len(ns) + 1
    BY InsertAtProperties DEF Chains
  <2>2. ASSUME NEW d \in 1 .. Len(ns) + 1
        PROVE  new[d] = IF d < c THEN ns[d] ELSE IF d = c THEN n ELSE ns[d - 1]
    BY InsertAtProperties DEF Chains
  <2> QED BY <2>1, <2>2
<1>2. /\ ch \in AnyChains /\ Len(ch) = Len(ns) /\ Len(ns) \in Nat
      /\ \A d \in 1 .. Len(ns) : ch[d] = Content(ns[d])
  BY ChainedProperties, NodeFits
<1>3. e \in Seq(AnyPair)
  BY ContentProperties
<1> HIDE DEF new, ch, e
<1>4. /\ to \in AnyChains /\ Len(to) = Len(ns) + 1
      /\ \A d \in 1 .. Len(ns) + 1 :
           to[d] = IF d < c THEN ch[d] ELSE IF d = c THEN e ELSE ch[d - 1]
  <2>1. c \in 1 .. Len(ch) + 1
    BY <1>2
  <2>2. /\ to \in AnyChains /\ Len(to) = Len(ch) + 1
        /\ \A d \in 1 .. Len(ch) + 1 :
             to[d] = IF d < c THEN ch[d] ELSE IF d = c THEN e ELSE ch[d - 1]
    BY <1>2, <1>3, <2>1, InsertAtProperties DEF AnyChains
  <2> QED BY <1>2, <2>2
<1> HIDE DEF to
<1>5. ASSUME NEW d \in 1 .. Len(ns) + 1
      PROVE  Content(new[d]) = to[d]
  <2>1. CASE d < c
    BY <1>1, <1>2, <1>4, <2>1
  <2>2. CASE d = c
    BY <1>1, <1>4, <2>2 DEF e
  <2>3. CASE d > c
    BY <1>1, <1>2, <1>4, <2>3
  <2> QED BY <1>2, <2>1, <2>2, <2>3
<1>6. Chained(new) = to
  BY <1>1, <1>4, <1>5, ChainedIs
<1> QED BY <1>6 DEF new, to, ch, e

\* and when one is unlinked after a merge or with its last pair.
LEMMA ChainedRemove ==
  ASSUME NEW ns \in Chains, NEW c \in 1 .. Len(ns)
  PROVE  Chained(RemoveAt(ns, c)) = RemoveAt(Chained(ns), c)
<1> DEFINE new == RemoveAt(ns, c)
           ch  == Chained(ns)
           to  == RemoveAt(ch, c)
<1>1. /\ new \in Chains /\ Len(new) = Len(ns) - 1
      /\ \A d \in 1 .. Len(ns) - 1 : new[d] = IF d < c THEN ns[d] ELSE ns[d + 1]
  BY RemoveAtProperties DEF Chains
<1>2. /\ ch \in AnyChains /\ Len(ch) = Len(ns) /\ Len(ns) \in Nat
      /\ \A d \in 1 .. Len(ns) : ch[d] = Content(ns[d])
  BY ChainedProperties, NodeFits
<1> HIDE DEF new, ch
<1>3. /\ to \in AnyChains /\ Len(to) = Len(ns) - 1
      /\ \A d \in 1 .. Len(ns) - 1 : to[d] = IF d < c THEN ch[d] ELSE ch[d + 1]
  <2>1. c \in 1 .. Len(ch)
    BY <1>2
  <2>2. /\ to \in AnyChains /\ Len(to) = Len(ch) - 1
        /\ \A d \in 1 .. Len(ch) - 1 : to[d] = IF d < c THEN ch[d] ELSE ch[d + 1]
    BY <1>2, <2>1, RemoveAtProperties DEF AnyChains
  <2> QED BY <1>2, <2>2
<1> HIDE DEF to
<1>4. ASSUME NEW d \in 1 .. Len(ns) - 1
      PROVE  Content(new[d]) = to[d]
  <2>1. CASE d < c
    BY <1>1, <1>2, <1>3, <2>1
  <2>2. CASE ~ (d < c)
    BY <1>1, <1>2, <1>3, <2>2
  <2> QED BY <2>1, <2>2
<1>5. Chained(new) = to
  BY <1>1, <1>3, <1>4, ChainedIs
<1> QED BY <1>5 DEF new, to, ch

\* Moving pairs between neighbours is what NodeChain says it is.
LEMMA MergeChained ==
  ASSUME NEW ns \in Chains, NEW c \in 1 .. Len(ns) - 1,
         ns[c].count + ns[c + 1].count <= NodeSize
  PROVE  Chained(Merge(ns, c)) = Promise!Merge(Chained(ns), c)
<1> DEFINE at   == c + 1
           next == ns[at]
           n    == take(ns[c], next, next.count)
           wide == [ns EXCEPT ![c] = n]
           ch   == Chained(ns)
<1>1. /\ Len(ns) \in Nat /\ c \in 1 .. Len(ns) /\ at \in 1 .. Len(ns)
      /\ ns[c] \in Fits /\ next \in Fits
  BY NodeFits
<1>2. next.count \in 0 .. next.count
  BY <1>1, FitsBounds
<1>3. n \in Fits
  BY <1>1, <1>2, TakeFits
<1>4. Content(n) = ch[c] ++ ch[at]
  <2>1. Content(n) = Content(ns[c]) ++ SubSeq(Content(next), 1, next.count)
    BY <1>1, <1>2, TakeContent
  <2> DEFINE s == Content(next)
  <2>2. s \in Seq(AnyPair) /\ Len(s) = next.count /\ Len(s) \in Nat
    BY <1>1, ContentProperties, FitsBounds
  <2>3. SubSeq(s, 1, Len(s)) = s
    <3> HIDE DEF s
    <3>1. Len(s) \in 0 .. Len(s)
      BY <2>2
    <3>2. /\ SubSeq(s, 1, Len(s)) \in Seq(AnyPair)
          /\ Len(SubSeq(s, 1, Len(s))) = Len(s)
          /\ \A j \in 1 .. Len(s) : SubSeq(s, 1, Len(s))[j] = s[j]
      BY <2>2, <3>1, CutProperties, CutElements
    <3> QED BY <2>2, <3>2, SeqEqual
  <2>4. ch[c] = Content(ns[c]) /\ ch[at] = s
    <3> HIDE DEF at
    <3> QED BY <1>1, ChainedProperties
  <2> QED BY <2>1, <2>2, <2>3, <2>4
<1>5. Merge(ns, c) = RemoveAt(wide, at)
  BY DEF Merge
<1>6. Promise!Merge(ch, c) = RemoveAt(ReplaceAt(ch, c, ch[c] ++ ch[at]), at)
  BY DEF Promise!Merge, Promise!RemoveAt, RemoveAt, ReplaceAt, ++
<1> HIDE DEF at, next, n, ch
<1>7. /\ Chained(wide) = ReplaceAt(ch, c, Content(n))
      /\ wide \in Chains /\ Len(wide) = Len(ns)
  BY <1>1, <1>3, ChainedReplace, ReplaceFits DEF ch
<1> HIDE DEF wide
<1>8. Chained(RemoveAt(wide, at)) = RemoveAt(Chained(wide), at)
  BY <1>1, <1>7, ChainedRemove
<1> QED BY <1>4, <1>5, <1>6, <1>7, <1>8 DEF ch

\* shift_or_merge when the two nodes do not fit into one: the first cells of
\* the next node go over, and its offset passes them.
LEMMA RefillChained ==
  ASSUME NEW ns \in Chains, NEW c \in 1 .. Len(ns) - 1,
         ns[c].count < Required,
         ~ (ns[c].count + ns[c + 1].count <= NodeSize)
  PROVE  Chained(Refill(ns, c)) = Promise!Refill(Chained(ns), c)
<1> DEFINE at   == c + 1
           next == ns[at]
           k    == next.count - Required
           n    == take(ns[c], next, k)
           rest == give(next, k)
           wide == [ns EXCEPT ![c] = n]
           ch   == Chained(ns)
           low  == ch[c] ++ SubSeq(ch[at], 1, k)
           high == SubSeq(ch[at], k + 1, Len(ch[at]))
<1>1. /\ Len(ns) \in Nat /\ c \in 1 .. Len(ns) /\ at \in 1 .. Len(ns) /\ c # at
      /\ ns[c] \in Fits /\ next \in Fits
  BY NodeFits
<1>2. /\ k \in Nat /\ k \in 0 .. next.count /\ k < next.count
      /\ ns[c].count + k <= NodeSize
  BY <1>1, FitsBounds, RequiredBounds
<1>3. n \in Fits /\ rest \in Fits
  BY <1>1, <1>2, TakeFits, GiveFits
<1>4. /\ ch \in AnyChains /\ Len(ch) = Len(ns)
      /\ ch[c] = Content(ns[c]) /\ ch[at] = Content(next)
      /\ Len(ch[at]) = next.count
  <2> HIDE DEF at
  <2> QED BY <1>1, ChainedProperties
<1>5. Content(n) = low /\ Content(rest) = high
  BY <1>1, <1>2, <1>4, TakeContent, GiveContent
<1>6. Refill(ns, c) = [wide EXCEPT ![at] = rest]
  BY <1>1 DEF Refill, Chains
<1>7. Promise!Refill(ch, c) = ReplaceAt(ReplaceAt(ch, c, low), at, high)
  <2>1. [ch EXCEPT ![c] = low][at] = ch[at]
    BY <1>1, <1>4 DEF AnyChains
  <2>2. Len(ch[at]) - Promise!Required = k
    BY <1>4 DEF Promise!Required, Required
  <2>3. Promise!Refill(ch, c) = [[ch EXCEPT ![c] = low] EXCEPT ![at] = high]
    <3>1. Len(ch[c + 1]) - Promise!Required = k
      BY <2>2
    <3> HIDE DEF k, ch
    <3> QED BY <1>1, <1>4, <2>1, <3>1 DEF Promise!Refill, AnyChains, ++
  <2> QED BY <2>3 DEF ReplaceAt
<1> HIDE DEF at, next, k, n, rest, ch, low, high
<1>8. /\ Chained(wide) = ReplaceAt(ch, c, Content(n))
      /\ wide \in Chains /\ Len(wide) = Len(ns)
  BY <1>1, <1>3, ChainedReplace, ReplaceFits DEF ch
<1> HIDE DEF wide
<1>9. Chained([wide EXCEPT ![at] = rest]) = ReplaceAt(Chained(wide), at, Content(rest))
  BY <1>1, <1>3, <1>8, ChainedReplace
<1> QED BY <1>5, <1>6, <1>7, <1>8, <1>9 DEF ch

\* shift_or_merge after a removal from node c, in each of its cases.
LEMMA BalanceChained ==
  ASSUME NEW ns \in Chains, NEW c \in 1 .. Len(ns)
  PROVE  Chained(Balance(ns, c)) = Promise!Balance(Chained(ns), c)
<1> DEFINE ch == Chained(ns)
<1>1. /\ Len(ns) \in Nat /\ ns[c] \in Fits /\ ns[c].count \in Nat
      /\ Promise!Required = Required
  BY NodeFits, FitsBounds DEF Promise!Required, Required
<1>2. /\ Len(ch) = Len(ns)
      /\ \A d \in 1 .. Len(ns) : Len(ch[d]) = ns[d].count
  BY ChainedProperties
<1>3. CASE ns[c].count >= Required \/ Len(ns) = 1
  <2>1. Balance(ns, c) = ns
    BY <1>3 DEF Balance
  <2>2. Promise!Balance(ch, c) = ch
    <3> HIDE DEF ch
    <3> QED BY <1>1, <1>2, <1>3, Zenon DEF Promise!Balance
  <2> QED BY <2>1, <2>2
<1>4. CASE ~ (ns[c].count >= Required \/ Len(ns) = 1) /\ c < Len(ns)
  <2>1. Balance(ns, c) = MergeOrRefill(ns, c)
    BY <1>4 DEF Balance
  <2>2. Promise!Balance(ch, c) = Promise!MergeOrRefill(ch, c)
    <3> HIDE DEF ch
    <3> QED BY <1>1, <1>2, <1>4, Zenon DEF Promise!Balance
  <2>3. c \in 1 .. Len(ns) - 1 /\ c + 1 \in 1 .. Len(ns) /\ ns[c].count < Required
    <3>1. ~ (ns[c].count >= Required)
      BY <1>4
    <3> QED BY <1>1, <1>4, <3>1, RequiredBounds
  <2>4. Len(ch[c]) = ns[c].count /\ Len(ch[c + 1]) = ns[c + 1].count
    <3> DEFINE at == c + 1
    <3> HIDE DEF at, ch
    <3>1. Len(ch[at]) = ns[at].count
      BY <1>2, <2>3 DEF at
    <3> QED BY <1>2, <3>1 DEF at
  <2>5. CASE ns[c].count + ns[c + 1].count <= NodeSize
    <3>1. MergeOrRefill(ns, c) = Merge(ns, c)
      BY <2>5 DEF MergeOrRefill
    <3>2. Promise!MergeOrRefill(ch, c) = Promise!Merge(ch, c)
      <4> HIDE DEF ch
      <4> QED BY <2>4, <2>5, Zenon DEF Promise!MergeOrRefill
    <3> QED BY <2>1, <2>2, <2>3, <2>5, <3>1, <3>2, MergeChained
  <2>6. CASE ~ (ns[c].count + ns[c + 1].count <= NodeSize)
    <3>1. MergeOrRefill(ns, c) = Refill(ns, c)
      BY <2>6 DEF MergeOrRefill
    <3>2. Promise!MergeOrRefill(ch, c) = Promise!Refill(ch, c)
      <4> HIDE DEF ch
      <4> QED BY <2>4, <2>6, Zenon DEF Promise!MergeOrRefill
    <3> QED BY <2>1, <2>2, <2>3, <2>6, <3>1, <3>2, RefillChained
  <2> QED BY <2>5, <2>6
<1>5. CASE ~ (ns[c].count >= Required \/ Len(ns) = 1) /\ ~ (c < Len(ns))
  <2> DEFINE back == c - 1
  <2>1. Balance(ns, c) = MergeBack(ns, c)
    BY <1>5 DEF Balance
  <2>2. Promise!Balance(ch, c) = Promise!MergeBack(ch, c)
    <3> HIDE DEF ch
    <3> QED BY <1>1, <1>2, <1>5, Zenon DEF Promise!Balance
  <2>3. back \in 1 .. Len(ns) - 1 /\ back \in 1 .. Len(ns) /\ back + 1 = c
    <3> DEFINE len == Len(ns)
    <3>1. len \in Nat /\ c \in 1 .. len /\ ~ (c < len) /\ len # 1
      BY <1>1, <1>5
    <3> HIDE DEF len
    <3>2. c - 1 \in 1 .. len - 1 /\ c - 1 \in 1 .. len /\ c - 1 + 1 = c
      BY <3>1
    <3> QED BY <3>2 DEF len
  <2>4. Len(ch[c]) = ns[c].count /\ Len(ch[back]) = ns[back].count
    <3> HIDE DEF back, ch
    <3> QED BY <1>2, <2>3
  <2>5. CASE ns[back].count + ns[c].count <= NodeSize
    <3>1. MergeBack(ns, c) = Merge(ns, back)
      BY <2>5 DEF MergeBack
    <3>2. Promise!MergeBack(ch, c) = Promise!Merge(ch, back)
      <4> HIDE DEF ch
      <4> QED BY <2>4, <2>5, Zenon DEF Promise!MergeBack
    <3>3. Chained(Merge(ns, back)) = Promise!Merge(ch, back)
      <4> HIDE DEF back
      <4> QED BY <2>3, <2>5, MergeChained
    <3> QED BY <2>1, <2>2, <3>1, <3>2, <3>3
  <2>6. CASE ~ (ns[back].count + ns[c].count <= NodeSize)
    <3>1. MergeBack(ns, c) = ns
      BY <2>6 DEF MergeBack
    <3>2. Promise!MergeBack(ch, c) = ch
      <4> HIDE DEF ch
      <4> QED BY <2>4, <2>6, Zenon DEF Promise!MergeBack
    <3> QED BY <2>1, <2>2, <3>1, <3>2
  <2> QED BY <2>5, <2>6
<1> QED BY <1>3, <1>4, <1>5

-----------------------------------------------------------------------------
(* The calls: each is one of NodeChain's. *)

\* The nodes and their slices.
LEMMA ContentsFacts ==
  ASSUME Inv
  PROVE  /\ Contents = Chained(nodes) /\ Contents' = Chained(nodes')
         /\ nodes \in Chains /\ Len(nodes) \in Nat /\ Len(nodes) >= 1
         /\ DOMAIN nodes = 1 .. Len(nodes)
         /\ Contents \in AnyChains /\ Len(Contents) = Len(nodes)
         /\ \A c \in 1 .. Len(nodes) : /\ nodes[c] \in Fits
                                       /\ nodes[c].count \in Nat
                                       /\ Contents[c] = Content(nodes[c])
                                       /\ Promise!Count(c) = nodes[c].count
<1>1. Contents = Chained(nodes) /\ Contents' = Chained(nodes')
  BY DEF Contents, Chained
<1>2. /\ nodes \in Chains /\ Len(nodes) \in Nat /\ Len(nodes) >= 1
      /\ DOMAIN nodes = 1 .. Len(nodes)
      /\ \A c \in 1 .. Len(nodes) : nodes[c] \in Fits /\ nodes[c].count \in Nat
  BY NodeFits, FitsBounds DEF Inv
<1>3. /\ Chained(nodes) \in AnyChains /\ Len(Chained(nodes)) = Len(nodes)
      /\ \A c \in 1 .. Len(nodes) : /\ Chained(nodes)[c] = Content(nodes[c])
                                    /\ Len(Content(nodes[c])) = nodes[c].count
  BY <1>2, ChainedProperties
<1> QED BY <1>1, <1>2, <1>3 DEF Promise!Count

\* The pair a call returns.
LEMMA PairReturned ==
  ASSUME Inv, NEW c \in 1 .. Len(nodes), NEW index \in Nat, index < nodes[c].count
  PROVE  PairAt(nodes[c], index) = Contents[c][index + 1]
<1>1. nodes[c].count \in Nat /\ Contents[c] = Content(nodes[c])
  BY ContentsFacts
<1>2. index + 1 \in 1 .. nodes[c].count /\ (index + 1) - 1 = index
  BY <1>1
<1> QED BY <1>1, <1>2 DEF Content

\* Writing a node back after a change of its slice.
LEMMA ContentsReplaced ==
  ASSUME Inv, NEW c \in 1 .. Len(nodes), NEW n \in Fits
  PROVE  Chained([nodes EXCEPT ![c] = n]) = [Contents EXCEPT ![c] = Content(n)]
<1>1. nodes \in Chains /\ Contents = Chained(nodes)
  BY ContentsFacts
<1>2. Chained([nodes EXCEPT ![c] = n]) = ReplaceAt(Contents, c, Content(n))
  BY <1>1, ChainedReplace
<1> QED BY <1>2 DEF ReplaceAt

\* skiparray_set_with_pair of a new key in a node with room: whichever end
\* prepare_node_for_insert makes room at, the slice gets the pair at its index.
LEMMA InsertStep ==
  ASSUME Inv, NEW c \in 1 .. Len(nodes), NEW index \in 0 .. nodes[c].count,
         NEW pair \in Pair, nodes[c].count # NodeSize, Set(c, index, pair)
  PROVE  Promise!Insert(c, index, pair)
<1> DEFINE new == insert(nodes[c], index, pair)
<1>1. /\ nodes[c] \in Fits /\ nodes[c].count \in Nat
      /\ Contents[c] = Content(nodes[c]) /\ Promise!Count(c) = nodes[c].count
      /\ Contents' = Chained(nodes')
  BY ContentsFacts
<1>2. nodes[c].count < NodeSize
  BY <1>1, FitsBounds, RequiredBounds
<1>3. new \in Fits /\ Content(new) = InsertAt(Contents[c], index + 1, pair)
  BY <1>1, <1>2, InsertFits, InsertContent
<1>4. nodes' = [nodes EXCEPT ![c] = new]
  BY DEF Set
<1> HIDE DEF new
<1>5. Contents' = [Contents EXCEPT ![c] = InsertAt(Contents[c], index + 1, pair)]
  <2>1. Chained([nodes EXCEPT ![c] = new]) = [Contents EXCEPT ![c] = Content(new)]
    BY <1>3, ContentsReplaced
  <2> QED BY <1>1, <1>3, <1>4, <2>1
<1> QED BY <1>1, <1>2, <1>5 DEF Promise!Insert, Promise!InsertAt, InsertAt

\* The same in a full node: split_node copies the upper cells to a new node,
\* and the pair goes into one of the two.
LEMMA SplitStep ==
  ASSUME Inv, NEW c \in 1 .. Len(nodes), NEW index \in 0 .. nodes[c].count,
         NEW pair \in Pair, nodes[c].count = NodeSize, Set(c, index, pair)
  PROVE  Promise!SplitAndInsert(c, index, pair)
<1> DEFINE n    == nodes[c]
           low  == split_low(n)
           high == split_high(n)
           at   == c + 1
           kept == NodeSize - Required
           part == SubSeq(Contents[c], 1, kept)
           rest == SubSeq(Contents[c], kept + 1, NodeSize)
           j    == index - kept
<1>1. /\ n \in Fits /\ Contents[c] = Content(n) /\ Promise!Count(c) = n.count
      /\ Contents' = Chained(nodes') /\ nodes \in Chains /\ Len(nodes) \in Nat
  BY ContentsFacts
<1>2. /\ NodeSize \in Nat /\ Required \in Nat /\ Required >= 1
      /\ Required + Required <= NodeSize /\ NodeSize \div 2 = Required
  BY RequiredBounds
<1>3. /\ low \in Fits /\ low.count = kept /\ high \in Fits /\ high.count = Required
      /\ Content(low) = part /\ Content(high) = rest
  BY <1>1, SplitFits, SplitContent
<1>4. Promise!Kept = kept
  BY <1>2 DEF Promise!Kept
<1>5. nodes' = SplitAndInsert(c, index, pair)
  BY DEF Set
<1>6. index \in Nat /\ at \in 1 .. Len(nodes) + 1 /\ kept \in Nat
  BY <1>1, <1>2
<1>7. ASSUME NEW l \in Fits, NEW h \in Fits,
             nodes' = InsertAt([nodes EXCEPT ![c] = l], at, h)
      PROVE  Contents' = InsertAt([Contents EXCEPT ![c] = Content(l)], at, Content(h))
  <2> DEFINE wide == [nodes EXCEPT ![c] = l]
  <2>1. wide \in Chains /\ Len(wide) = Len(nodes)
    BY <1>1, ReplaceFits
  <2>2. Chained(wide) = [Contents EXCEPT ![c] = Content(l)]
    BY ContentsReplaced
  <2> HIDE DEF wide, at
  <2>3. at \in 1 .. Len(wide) + 1
    BY <1>6, <2>1
  <2>4. Chained(InsertAt(wide, at, h)) = InsertAt(Chained(wide), at, Content(h))
    BY <2>1, <2>3, ChainedInsert
  <2>5. nodes' = InsertAt(wide, at, h)
    BY <1>7 DEF wide
  <2> QED BY <1>1, <2>2, <2>4, <2>5
<1> HIDE DEF low, high
<1>8. CASE index > kept
  <2> DEFINE new == insert(high, j, pair)
  <2>1. j \in 0 .. high.count /\ high.count < NodeSize
    BY <1>2, <1>3, <1>6, <1>8
  <2>2. new \in Fits /\ Content(new) = InsertAt(rest, j + 1, pair)
    <3> HIDE DEF j
    <3> QED BY <1>3, <2>1, InsertFits, InsertContent
  <2>3. nodes' = InsertAt([nodes EXCEPT ![c] = low], at, new)
    BY <1>3, <1>5, <1>8 DEF SplitAndInsert, low, high
  <2> HIDE DEF new, rest, part, at
  <2>4. Contents' = InsertAt([Contents EXCEPT ![c] = part], at, InsertAt(rest, j + 1, pair))
    BY <1>3, <1>7, <2>2, <2>3
  <2> QED BY <1>1, <1>4, <1>8, <2>4
       DEF Promise!SplitAndInsert, Promise!InsertAt, InsertAt, part, rest, at
<1>9. CASE ~ (index > kept)
  <2> DEFINE new == insert(low, index, pair)
  <2>1. index \in 0 .. low.count /\ low.count < NodeSize /\ index <= kept
    BY <1>2, <1>3, <1>6, <1>9
  <2>2. new \in Fits /\ Content(new) = InsertAt(part, index + 1, pair)
    BY <1>3, <2>1, InsertFits, InsertContent
  <2>3. nodes' = InsertAt([nodes EXCEPT ![c] = new], at, high)
    BY <1>3, <1>5, <1>9 DEF SplitAndInsert, low, high
  <2> HIDE DEF new, rest, part, at
  <2>4. Contents' = InsertAt([Contents EXCEPT ![c] = InsertAt(part, index + 1, pair)],
                             at, rest)
    BY <1>3, <1>7, <2>2, <2>3
  <2> QED BY <1>1, <1>4, <2>1, <2>4
       DEF Promise!SplitAndInsert, Promise!InsertAt, InsertAt, part, rest, at
<1> QED BY <1>8, <1>9

\* skiparray_set_with_pair of a key that is present.
LEMMA RebindStep ==
  ASSUME Inv, NEW c \in 1 .. Len(nodes), NEW index \in Nat,
         NEW pair \in Pair, Rebind(c, index, pair)
  PROVE  Promise!Rebind(c, index, pair)
<1> DEFINE n   == nodes[c]
           new == rebound(n, index, pair)
           s   == Contents[c]
<1>1. /\ n \in Fits /\ s = Content(n) /\ Promise!Count(c) = n.count
      /\ Contents' = Chained(nodes') /\ nodes \in Chains
      /\ Contents \in AnyChains /\ c \in 1 .. Len(Contents)
  BY ContentsFacts
<1>2. index < n.count /\ out' = {PairAt(n, index)}
  BY DEF Rebind
<1>3. nodes' = [nodes EXCEPT ![c] = new]
  BY <1>1, FitsBounds DEF Rebind, rebound, Buffer, Chains
<1>4. new \in Fits
  <2>1. nodes' \in Chains
    BY RebindFits DEF Inv
  <2>2. Len(nodes') = Len(nodes) /\ nodes'[c] = new
    <3> HIDE DEF new
    <3> QED BY <1>1, <1>3 DEF Chains
  <2> QED BY <2>1, <2>2, ElementOfSeq DEF Chains
<1>5. Content(new) = ReplaceAt(s, index + 1, pair)
  BY <1>1, <1>2, <1>4, RebindContent
<1> HIDE DEF new
<1>6. Contents' = [Contents EXCEPT ![c] = ReplaceAt(s, index + 1, pair)]
  BY <1>1, <1>3, <1>4, <1>5, ContentsReplaced
<1>7. Contents' = [Contents EXCEPT ![c][index + 1] = pair]
  BY <1>6 DEF ReplaceAt
<1>8. PairAt(n, index) = s[index + 1]
  BY <1>2, PairReturned
<1> QED BY <1>1, <1>2, <1>7, <1>8 DEF Promise!Rebind

\* A removal from a node and the balancing after it.
LEMMA RemovalStep ==
  ASSUME Inv, NEW c \in 1 .. Len(nodes), NEW index \in Nat, NEW n \in Fits,
         Content(n) = RemoveAt(Content(nodes[c]), index + 1)
  PROVE  /\ Chained([nodes EXCEPT ![c] = n]) = Promise!Removed(c, index)
         /\ Chained(Balance([nodes EXCEPT ![c] = n], c))
              = Promise!Balance(Promise!Removed(c, index), c)
<1> DEFINE ns == [nodes EXCEPT ![c] = n]
<1>1. nodes \in Chains /\ Contents[c] = Content(nodes[c])
  BY ContentsFacts
<1>2. ns \in Chains /\ Len(ns) = Len(nodes)
  BY <1>1, ReplaceFits
<1>3. Chained(ns) = [Contents EXCEPT ![c] = RemoveAt(Contents[c], index + 1)]
  BY <1>1, ContentsReplaced
<1> HIDE DEF ns
<1>4. Chained(ns) = Promise!Removed(c, index)
  BY <1>3 DEF Promise!Removed, Promise!RemoveAt, RemoveAt
<1>5. Chained(Balance(ns, c)) = Promise!Balance(Chained(ns), c)
  BY <1>2, BalanceChained
<1> QED BY <1>4, <1>5 DEF ns

\* skiparray_forget: the cells on one side of the pair close up, and the node
\* is balanced.
LEMMA ForgetStep ==
  ASSUME Inv, NEW c \in 1 .. Len(nodes), NEW index \in Nat, Forget(c, index)
  PROVE  Promise!Forget(c, index)
<1>1. /\ nodes[c] \in Fits /\ Promise!Count(c) = nodes[c].count
      /\ Contents' = Chained(nodes')
  BY ContentsFacts
<1>2. /\ index < nodes[c].count /\ out' = {PairAt(nodes[c], index)}
      /\ nodes' = Balance([nodes EXCEPT ![c] = drop(nodes[c], index)], c)
  BY DEF Forget
<1> DEFINE n == drop(nodes[c], index)
<1>3. n \in Fits /\ Content(n) = RemoveAt(Content(nodes[c]), index + 1)
  BY <1>1, <1>2, DropFits, DropContent
<1> HIDE DEF n
<1>4. Contents' = Promise!Balance(Promise!Removed(c, index), c)
  BY <1>1, <1>2, <1>3, RemovalStep DEF n
<1>5. PairAt(nodes[c], index) = Contents[c][index + 1]
  BY <1>2, PairReturned
<1> QED BY <1>1, <1>2, <1>4, <1>5 DEF Promise!Forget

\* skiparray_pop_first, which only raises the offset, and balances.
LEMMA PopFirstStep ==
  ASSUME Inv, PopFirst
  PROVE  Promise!PopFirst
<1>1. /\ 1 \in 1 .. Len(nodes) /\ nodes[1] \in Fits
      /\ Promise!Count(1) = nodes[1].count /\ Contents' = Chained(nodes')
  BY ContentsFacts
<1>2. /\ nodes[1].count > 0 /\ out' = {PairAt(nodes[1], 0)}
      /\ nodes' = Balance([nodes EXCEPT ![1] = drop_first(nodes[1])], 1)
  BY DEF PopFirst
<1> DEFINE n == drop_first(nodes[1])
<1>3. n \in Fits /\ Content(n) = RemoveAt(Content(nodes[1]), 0 + 1)
  BY <1>1, <1>2, DropFirstFits, DropEndContent
<1> HIDE DEF n
<1>4. Contents' = Promise!Balance(Promise!Removed(1, 0), 1)
  BY <1>1, <1>2, <1>3, RemovalStep DEF n
<1>5. PairAt(nodes[1], 0) = Contents[1][0 + 1]
  BY <1>1, <1>2, FitsBounds, PairReturned
<1> QED BY <1>1, <1>2, <1>4, <1>5 DEF Promise!PopFirst

\* skiparray_pop_last, which only lowers the count, or drops the node.
LEMMA PopLastStep ==
  ASSUME Inv, PopLast
  PROVE  Promise!PopLast
<1> DEFINE last  == Len(nodes)
           n     == drop_last(nodes[last])
           index == nodes[last].count - 1
<1>1. /\ last \in 1 .. Len(nodes) /\ last \in Nat /\ nodes[last] \in Fits
      /\ Promise!Count(last) = nodes[last].count /\ nodes[last].count \in Nat
      /\ Contents = Chained(nodes) /\ Contents' = Chained(nodes')
      /\ nodes \in Chains /\ Len(Contents) = last
  <2>1. last \in 1 .. Len(nodes) /\ last \in Nat
    BY ContentsFacts
  <2> HIDE DEF last
  <2>2. \A c \in 1 .. Len(nodes) : /\ nodes[c] \in Fits /\ nodes[c].count \in Nat
                                   /\ Promise!Count(c) = nodes[c].count
    BY ContentsFacts
  <2>3. /\ Contents = Chained(nodes) /\ Contents' = Chained(nodes')
        /\ nodes \in Chains /\ Len(Contents) = Len(nodes)
    BY ContentsFacts
  <2> QED BY <2>1, <2>2, <2>3 DEF last
<1>2. /\ nodes[last].count > 0 /\ out' = {PairAt(nodes[last], index)}
      /\ nodes' = IF nodes[last].count = 1 /\ last > 1
                  THEN RemoveAt(nodes, last) ELSE [nodes EXCEPT ![last] = n]
  BY DEF PopLast
<1>3. index \in Nat /\ index < nodes[last].count /\ index + 1 = nodes[last].count
  BY <1>1, <1>2
<1>4. n \in Fits /\ Content(n) = RemoveAt(Content(nodes[last]), index + 1)
  BY <1>1, <1>2, <1>3, DropLastFits, DropEndContent
<1>5. PairAt(nodes[last], index) = Contents[last][index + 1]
  <2> HIDE DEF last, index
  <2> QED BY <1>1, <1>3, PairReturned
<1>6. Contents' = IF index = 0 /\ last > 1 THEN Promise!RemoveAt(Contents, last)
                                           ELSE Promise!Removed(last, index)
  <2>1. CASE nodes[last].count = 1 /\ last > 1
    <3>1. Chained(RemoveAt(nodes, last)) = RemoveAt(Contents, last)
      <4> HIDE DEF last
      <4> QED BY <1>1, ChainedRemove
    <3>2. index = 0 /\ last > 1 /\ nodes' = RemoveAt(nodes, last)
      BY <1>2, <1>3, <2>1
    <3> QED BY <1>1, <3>1, <3>2 DEF Promise!RemoveAt, RemoveAt
  <2>2. CASE ~ (nodes[last].count = 1 /\ last > 1)
    <3>1. Chained([nodes EXCEPT ![last] = n]) = Promise!Removed(last, index)
      <4> HIDE DEF last, index, n
      <4> QED BY <1>1, <1>3, <1>4, RemovalStep
    <3>2. ~ (index = 0 /\ last > 1) /\ nodes' = [nodes EXCEPT ![last] = n]
      BY <1>2, <1>3, <2>2
    <3> QED BY <1>1, <3>1, <3>2
  <2> QED BY <2>1, <2>2
<1> QED BY <1>1, <1>2, <1>5, <1>6 DEF Promise!PopLast

\* skiparray_new makes the one empty node NodeChain starts with.
LEMMA InitStep ==
  Init => Promise!Init
<1> SUFFICES ASSUME Init PROVE Promise!Init
  OBVIOUS
<1> DEFINE n == node_alloc(NodeSize \div 2)
<1>1. nodes = <<n>> /\ out = {}
  BY DEF Init
<1>2. Content(n) = << >>
  <2>1. NodeSize \div 2 \in Cells
    BY RequiredBounds DEF Cells
  <2> QED BY <2>1, node_allocContent
<1> HIDE DEF n
<1>3. Contents = << << >> >>
  <2>1. Contents = [c \in 1 .. 1 |-> << >>]
    BY <1>1, <1>2 DEF Contents
  <2> QED BY <2>1
<1> QED BY <1>1, <1>3 DEF Promise!Init

\* So every call does to the slices what NodeChain says, or nothing.
LEMMA NextStep ==
  Inv /\ [Next]_vars => [Promise!Next]_Promise!vars
<1> SUFFICES ASSUME Inv, [Next]_vars
             PROVE  [Promise!Next]_Promise!vars
  OBVIOUS
<1>1. /\ DOMAIN nodes = 1 .. Len(nodes) /\ Len(Contents) = Len(nodes)
      /\ \A c \in 1 .. Len(nodes) : /\ nodes[c].count \in Nat
                                    /\ Promise!Count(c) = nodes[c].count
  BY ContentsFacts
<1>2. ASSUME NEW c \in 1 .. Len(nodes), NEW index \in 0 .. nodes[c].count,
             NEW pair \in Pair, Set(c, index, pair)
      PROVE  Promise!Set(c, index, pair)
  BY <1>2, InsertStep, SplitStep DEF Set, Promise!Set
<1>3. ASSUME NEW c \in 1 .. Len(nodes)
      PROVE  0 .. nodes[c].count \subseteq Nat
  BY <1>1
<1>4. CASE UNCHANGED vars
  BY <1>4 DEF vars, Promise!vars, Contents
<1>5. ASSUME NEW c \in 1 .. Len(nodes), NEW index \in 0 .. nodes[c].count,
             \/ \E pair \in Pair : Set(c, index, pair) \/ Rebind(c, index, pair)
             \/ Forget(c, index)
      PROVE  \/ \E pair \in Pair :
                  Promise!Set(c, index, pair) \/ Promise!Rebind(c, index, pair)
             \/ Promise!Forget(c, index)
  BY <1>2, <1>3, <1>5, RebindStep, ForgetStep
<1>6. CASE \E c \in DOMAIN nodes : \E index \in 0 .. nodes[c].count :
             \/ \E pair \in Pair : Set(c, index, pair) \/ Rebind(c, index, pair)
             \/ Forget(c, index)
  BY <1>1, <1>5, <1>6 DEF Promise!Next
<1>7. CASE PopFirst \/ PopLast
  BY <1>7, PopFirstStep, PopLastStep DEF Promise!Next
<1> QED BY <1>4, <1>6, <1>7 DEF Next

-----------------------------------------------------------------------------
(* What is proved of NodeChain holds of the slices. *)

Chain == INSTANCE NodeChainProofs WITH chain <- Contents

\* Promise and Chain are the same specification.
LEMMA ChainAssumption == Promise!NodeChainAssumption
BY NodeBuffersAssumption DEF Promise!NodeChainAssumption

\* Definition by definition,
LEMMA ChainSame ==
  /\ \A c, index : Promise!Place(c, index) <=> Chain!Place(c, index)
  /\ \A c, index, pair : Promise!Insert(c, index, pair) <=> Chain!Insert(c, index, pair)
  /\ \A c, index, pair : Promise!SplitAndInsert(c, index, pair)
                           <=> Chain!SplitAndInsert(c, index, pair)
  /\ \A c, index : Promise!Removed(c, index) = Chain!Removed(c, index)
  /\ \A ch, c : Promise!Balance(ch, c) = Chain!Balance(ch, c)
  /\ \A ch, c : Promise!RemoveAt(ch, c) = Chain!RemoveAt(ch, c)
  /\ \A c : Promise!Count(c) = Chain!Count(c)
  /\ Promise!Total = Chain!Total
<1>1. ASSUME NEW c, NEW index
      PROVE  Promise!Place(c, index) <=> Chain!Place(c, index)
  BY DEF Promise!Place, Chain!Place, Promise!Count, Chain!Count
<1>2. ASSUME NEW c, NEW index, NEW pair
      PROVE  Promise!Insert(c, index, pair) <=> Chain!Insert(c, index, pair)
  BY DEF Promise!Insert, Chain!Insert, Promise!Count, Chain!Count,
         Promise!InsertAt, Chain!InsertAt
<1>3. ASSUME NEW c, NEW index, NEW pair
      PROVE  Promise!SplitAndInsert(c, index, pair)
               <=> Chain!SplitAndInsert(c, index, pair)
  BY Zenon DEF Promise!SplitAndInsert, Chain!SplitAndInsert, Promise!Count,
               Chain!Count, Promise!InsertAt, Chain!InsertAt, Promise!Kept, Chain!Kept
<1>4. ASSUME NEW c, NEW index
      PROVE  Promise!Removed(c, index) = Chain!Removed(c, index)
  BY Zenon DEF Promise!Removed, Chain!Removed, Promise!RemoveAt, Chain!RemoveAt
<1>5. ASSUME NEW ch, NEW c
      PROVE  Promise!Balance(ch, c) = Chain!Balance(ch, c)
  BY Zenon DEF Promise!Balance, Chain!Balance, Promise!MergeOrRefill,
               Chain!MergeOrRefill, Promise!MergeBack, Chain!MergeBack,
               Promise!Merge, Chain!Merge, Promise!Refill, Chain!Refill,
               Promise!RemoveAt, Chain!RemoveAt, Promise!Required, Chain!Required
<1>6. ASSUME NEW ch, NEW c
      PROVE  Promise!RemoveAt(ch, c) = Chain!RemoveAt(ch, c)
  BY Zenon DEF Promise!RemoveAt, Chain!RemoveAt
<1>7. ASSUME NEW c
      PROVE  Promise!Count(c) = Chain!Count(c)
  BY DEF Promise!Count, Chain!Count
<1>8. Promise!Total = Chain!Total
  BY Zenon DEF Promise!Total, Chain!Total, Promise!FlattenSeq, Chain!FlattenSeq
<1> QED BY <1>1, <1>2, <1>3, <1>4, <1>5, <1>6, <1>7, <1>8, Zenon

\* and so step by step.
LEMMA ChainStep ==
  [Promise!Next]_Promise!vars => [Chain!Next]_Chain!vars
<1> SUFFICES ASSUME Promise!Next
             PROVE  Chain!Next
  BY DEF Promise!vars, Chain!vars
<1>1. ASSUME NEW c, NEW index, NEW pair
      PROVE  /\ Promise!Set(c, index, pair) <=> Chain!Set(c, index, pair)
             /\ Promise!Rebind(c, index, pair) <=> Chain!Rebind(c, index, pair)
  <2>1. Promise!Set(c, index, pair) <=> Chain!Set(c, index, pair)
    BY ChainSame, Zenon DEF Promise!Set, Chain!Set
  <2>2. Promise!Rebind(c, index, pair) <=> Chain!Rebind(c, index, pair)
    BY ChainSame, Zenon DEF Promise!Rebind, Chain!Rebind
  <2> QED BY <2>1, <2>2
<1>2. ASSUME NEW c, NEW index
      PROVE  /\ Promise!Forget(c, index) <=> Chain!Forget(c, index)
             /\ Promise!Read(c, index) <=> Chain!Read(c, index)
  <2>1. Promise!Forget(c, index) <=> Chain!Forget(c, index)
    BY ChainSame, Zenon DEF Promise!Forget, Chain!Forget
  <2>2. Promise!Read(c, index) <=> Chain!Read(c, index)
    BY ChainSame, Zenon DEF Promise!Read, Chain!Read
  <2> QED BY <2>1, <2>2
<1>3. Promise!PopFirst <=> Chain!PopFirst
  BY ChainSame, Zenon DEF Promise!PopFirst, Chain!PopFirst
<1>4. Promise!PopLast <=> Chain!PopLast
  BY ChainSame, Zenon DEF Promise!PopLast, Chain!PopLast
<1>5. Promise!Nothing <=> Chain!Nothing
  BY DEF Promise!Nothing, Chain!Nothing
<1>6. \A c : 0 .. Promise!Count(c) = 0 .. Chain!Count(c)
  BY ChainSame, Zenon
<1> QED BY <1>1, <1>2, <1>3, <1>4, <1>5, <1>6, Zenon DEF Promise!Next, Chain!Next

\* The slices keep the inductive invariant of NodeChain.
LEMMA SlicesInOrder ==
  /\ Init => Chain!Inv
  /\ Inv /\ Chain!Inv /\ [Next]_vars => Chain!Inv'
<1>1. Init => Chain!Inv
  <2>1. Promise!Init => Chain!Init
    BY DEF Promise!Init, Chain!Init
  <2> QED BY <2>1, InitStep, ChainAssumption, Chain!InitInv
<1>2. Inv /\ Chain!Inv /\ [Next]_vars => Chain!Inv'
  BY NextStep, ChainStep, ChainAssumption, Chain!NextInv
<1> QED BY <1>1, <1>2

\* Slices in order are sequences of whole pairs.
LEMMA SlicesWhole ==
  Inv /\ Chain!Inv => NoTornPair
<1> SUFFICES ASSUME Inv, Chain!Inv
             PROVE  NoTornPair
  OBVIOUS
<1>1. /\ DOMAIN nodes = 1 .. Len(nodes) /\ Len(Contents) = Len(nodes)
      /\ \A c \in 1 .. Len(nodes) : Contents[c] = Content(nodes[c])
  BY ContentsFacts
<1>2. Contents \in Seq(Seq(Pair))
  BY DEF Chain!Inv, Chain!InOrder, Chain!Chains
<1>3. \A c \in 1 .. Len(Contents) : Contents[c] \in Seq(Pair)
  BY <1>2, ElementOfSeq
<1> QED BY <1>1, <1>3 DEF NoTornPair

-----------------------------------------------------------------------------

\* prepare_node_for_insert, move_pairs, split_node and shift_or_merge, whatever
\* they move in the arrays, do to the live pairs of the nodes what NodeChain
\* says: every behaviour of the arrays is one of NodeChain.
THEOREM BuffersRefineNodeChain == Spec => RefinesNodeChain
BY InitInv, NextInv, InitStep, NextStep, PTL
   DEF Spec, RefinesNodeChain, Promise!Spec

\* move_pairs moves keys and values by the same offsets, so that no live key
\* ever lies beside another key's value or in a cell never written.
THEOREM BuffersNoTornPair == Spec => []NoTornPair
BY InitInv, NextInv, SlicesInOrder, SlicesWhole, PTL DEF Spec

=============================================================================
