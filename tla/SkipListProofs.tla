--------------------------- MODULE SkipListProofs ---------------------------
(***************************************************************************)
(* What the operators of SkipList do to a skiparray, for any number of     *)
(* nodes and levels, any keys and every node_size from 2 on.               *)
(*                                                                         *)
(* A skiparray is Sound for some ranks of its nodes: every level is the    *)
(* chain, in the order of the ranks, of the nodes tall enough for it, the  *)
(* back pointers are level 0 read backwards, the height is that of the     *)
(* tallest node (Formed); the keys ascend in every node and from node to   *)
(* node (Ordered); and no node is empty but one that is alone (Filled).    *)
(* The ranks stand for the places of the nodes in the list: a new node     *)
(* takes one behind the node it was split from, and a merge or an unlink   *)
(* takes one away, so that all that has to be said of the links is which   *)
(* pointer goes past which node.                                           *)
(*                                                                         *)
(* First the chains, the values, and that Formed is what the properties    *)
(* LevelsExact and BackLinksExact say; then the search; and then each of   *)
(* the functions that changes links or pairs, from the assignments up: an  *)
(* insertion, a split, an unlink, a merge and a refill leave a Sound       *)
(* skiparray Sound.                                                        *)
(***************************************************************************)
EXTENDS SkipArray, SequenceLemmas, FiniteSetTheorems, FunctionTheorems

-----------------------------------------------------------------------------
(* Chains.  f leads from NULL, and from each node of the set T, to the next *)
(* node of T in the order of their ranks r.                                 *)

Ranks(r, N) ==
  /\ N \subseteq Nat \ {NULL}
  /\ \A n \in N : r[n] \in Nat
  /\ \A m, n \in N : r[m] = r[n] => m = n
  /\ \E K \in Nat : \A n \in N : r[n] <= K

Behind(r, p, m) == p = NULL \/ r[p] < r[m]

Follows(r, T, p, q) ==
  \/ q = NULL /\ \A m \in T : ~Behind(r, p, m)
  \/ q \in T /\ Behind(r, p, q) /\ \A m \in T : Behind(r, p, m) => r[q] <= r[m]

Chained(f, T, r) == \A p \in {NULL} \cup T : Follows(r, T, p, f[p])

\* p is the last of T, or NULL, in front of x.
InFront(r, T, p, x) ==
  /\ p \in {NULL} \cup T /\ Behind(r, p, x)
  /\ \A m \in T : r[m] < r[x] => p # NULL /\ r[m] <= r[p]

\* A node goes into a chain behind the last one in front of it,
LEMMA ChainInsert ==
  ASSUME NEW N, NEW r, Ranks(r, N), NEW T \in SUBSET N, NEW x \in N, x \notin T,
         NEW f, Chained(f, T, r), NEW p, InFront(r, T, p, x),
         NEW g, g[x] = f[p], g[p] = x,
         \A q \in {NULL} \cup T : q # p => g[q] = f[q]
  PROVE  Chained(g, T \cup {x}, r)
<1>1. /\ \A m \in N : r[m] \in Nat /\ m # NULL
      /\ \A m, n \in N : r[m] = r[n] => m = n
      /\ p \in {NULL} \cup T
  BY DEF Ranks, InFront
<1>2. Follows(r, T, p, f[p])
  BY <1>1 DEF Chained
<1>3. Follows(r, T \cup {x}, x, g[x])
  <2>1. \A m \in T : Behind(r, x, m) => Behind(r, p, m)
    BY <1>1 DEF Behind, InFront
  <2>2. CASE f[p] = NULL
    BY <1>1, <1>2, <2>1, <2>2 DEF Follows, Behind
  <2>3. CASE f[p] # NULL
    <3>1. f[p] \in T /\ Behind(r, p, f[p]) /\ \A m \in T : Behind(r, p, m) => r[f[p]] <= r[m]
      BY <1>2, <2>3 DEF Follows
    <3>2. r[x] < r[f[p]]
      BY <1>1, <3>1 DEF Behind, InFront
    <3> QED BY <1>1, <2>1, <3>1, <3>2 DEF Follows, Behind
  <2> QED BY <2>2, <2>3
<1>4. Follows(r, T \cup {x}, p, g[p])
  BY <1>1 DEF Follows, Behind, InFront
<1>5. ASSUME NEW q \in {NULL} \cup T, q # p
      PROVE  Follows(r, T \cup {x}, q, g[q])
  <2>1. Follows(r, T, q, f[q]) /\ g[q] = f[q]
    BY <1>5 DEF Chained
  <2>2. Behind(r, q, x) => p \in T /\ Behind(r, q, p)
    BY <1>1, <1>5 DEF Behind, InFront
  <2>3. p \in T => r[p] < r[x]
    BY <1>1 DEF InFront, Behind
  <2>4. CASE f[q] = NULL
    BY <1>1, <2>1, <2>2, <2>4 DEF Follows
  <2>5. CASE f[q] # NULL
    <3>1. f[q] \in T /\ Behind(r, q, f[q]) /\ \A m \in T : Behind(r, q, m) => r[f[q]] <= r[m]
      BY <2>1, <2>5 DEF Follows
    <3>2. Behind(r, q, x) => r[f[q]] <= r[x]
      BY <1>1, <2>2, <2>3, <3>1
    <3> QED BY <2>1, <3>1, <3>2 DEF Follows
  <2> QED BY <2>4, <2>5
<1> QED BY <1>3, <1>4, <1>5 DEF Chained

\* and leaves it when what led to it leads on to the next.
LEMMA ChainRemove ==
  ASSUME NEW N, NEW r, Ranks(r, N), NEW T \in SUBSET N, NEW x \in T,
         NEW f, Chained(f, T, r), NEW g,
         \A q \in {NULL} \cup (T \ {x}) : g[q] = IF f[q] = x THEN f[x] ELSE f[q]
  PROVE  Chained(g, T \ {x}, r)
<1>1. /\ \A m \in N : r[m] \in Nat /\ m # NULL
      /\ \A m, n \in N : r[m] = r[n] => m = n
  BY DEF Ranks
<1>2. ASSUME NEW q \in {NULL} \cup (T \ {x})
      PROVE  Follows(r, T \ {x}, q, g[q])
  <2>1. Follows(r, T, q, f[q]) /\ Follows(r, T, x, f[x])
    BY <1>2 DEF Chained
  <2>2. CASE f[q] = x
    <3>1. /\ g[q] = f[x] /\ Behind(r, q, x)
          /\ \A m \in T : Behind(r, q, m) => r[x] <= r[m]
      BY <1>1, <2>1, <2>2 DEF Follows
    <3>2. \A m \in T \ {x} : Behind(r, q, m) <=> Behind(r, x, m)
      BY <1>1, <3>1 DEF Behind
    <3>3. CASE f[x] = NULL
      BY <1>1, <2>1, <3>1, <3>2, <3>3 DEF Follows
    <3>4. CASE f[x] # NULL
      <4>1. /\ f[x] \in T /\ Behind(r, x, f[x])
            /\ \A m \in T : Behind(r, x, m) => r[f[x]] <= r[m]
        BY <2>1, <3>4 DEF Follows
      <4>2. f[x] # x
        BY <1>1, <4>1 DEF Behind
      <4> QED BY <3>1, <3>2, <4>1, <4>2 DEF Follows
    <3> QED BY <3>3, <3>4
  <2>3. CASE f[q] # x
    BY <1>2, <2>1, <2>3 DEF Follows
  <2> QED BY <2>2, <2>3
<1> QED BY <1>2 DEF Chained

\* Only the order of the ranks matters.
LEMMA ChainSame ==
  ASSUME NEW N, NEW r, NEW T \in SUBSET N, NEW f, Chained(f, T, r),
         NEW s, Ranks(r, N), Ranks(s, N),
         \A m, n \in T : r[m] < r[n] <=> s[m] < s[n],
         NEW g, \A q \in {NULL} \cup T : g[q] = f[q]
  PROVE  Chained(g, T, s)
<1>1. \A m \in T : r[m] \in Nat /\ s[m] \in Nat /\ m # NULL
  BY DEF Ranks
<1>2. \A m, n \in T : r[m] <= r[n] => s[m] <= s[n]
  BY <1>1
<1>3. ASSUME NEW p \in {NULL} \cup T
      PROVE  Follows(s, T, p, g[p])
  <2>1. Follows(r, T, p, f[p]) /\ g[p] = f[p]
    BY DEF Chained
  <2>2. \A m \in T : Behind(s, p, m) <=> Behind(r, p, m)
    BY DEF Behind
  <2> QED BY <1>2, <2>1, <2>2 DEF Follows
<1> QED BY <1>3 DEF Chained

\* A chain is empty if it leads nowhere.
LEMMA ChainEmpty ==
  ASSUME NEW f, NEW T, NEW r, Chained(f, T, r), NULL \notin T
  PROVE  f[NULL] = NULL <=> T = {}
<1>1. Follows(r, T, NULL, f[NULL])
  BY DEF Chained
<1> QED BY <1>1 DEF Follows, Behind

\* There is only one chain.
LEMMA ChainOne ==
  ASSUME NEW N, NEW r, Ranks(r, N), NEW T \in SUBSET N,
         NEW f, Chained(f, T, r), NEW p \in {NULL} \cup T, NEW q, Follows(r, T, p, q)
  PROVE  f[p] = q
<1>1. /\ \A m \in T : r[m] \in Nat /\ m # NULL
      /\ \A m, n \in T : r[m] = r[n] => m = n
  BY DEF Ranks
<1>2. Follows(r, T, p, f[p])
  BY DEF Chained
<1>3. CASE f[p] = NULL \/ q = NULL
  BY <1>1, <1>2, <1>3 DEF Follows
<1>4. CASE f[p] # NULL /\ q # NULL
  <2>1. r[q] <= r[f[p]] /\ r[f[p]] <= r[q] /\ q \in T /\ f[p] \in T
    BY <1>2, <1>4 DEF Follows
  <2>2. r[q] = r[f[p]]
    BY <1>1, <2>1
  <2> QED BY <1>1, <2>1, <2>2
<1> QED BY <1>3, <1>4

-----------------------------------------------------------------------------
(* The values sa takes. *)

\* The bindings: set_found may give the key of one pair the value of another.
AllPairs == Pair \cup {[p EXCEPT !.val = q.val] : p, q \in Pair}

LevelSet == 0 .. MaxLevel - 1

NodeRecords ==
  {x \in [height : 1 .. MaxLevel, pairs : Seq(AllPairs), back : Nat,
          fwd : UNION {[0 .. h - 1 -> Nat] : h \in 1 .. MaxLevel}] :
     x.fwd \in [0 .. x.height - 1 -> Nat]}

SkipArrays ==
  {a \in [height : 1 .. MaxLevel, nodes : [LevelSet -> Nat],
          heap : UNION {[N -> NodeRecords] : N \in SUBSET (Nat \ {NULL})}] :
     IsFiniteSet(DOMAIN a.heap)}

\* There is at least one level.
LEMMA MaxLevelIs == MaxLevel \in Nat /\ MaxLevel >= 1
BY SkipListAssumption

\* No key is 0, which stands for no key.
LEMMA KeysAreNumbers == \A p \in AllPairs : p.key \in Nat /\ p.key # 0
<1>1. \A p, q \in Pair : [p EXCEPT !.val = q.val].key = p.key
  BY SkipArrayAssumption
<1> QED BY <1>1, SkipArrayAssumption DEF AllPairs

\* The fields of a node,
LEMMA NodeParts ==
  ASSUME NEW x \in NodeRecords
  PROVE  /\ x.height \in 1 .. MaxLevel
         /\ x.pairs \in Seq(AllPairs)
         /\ x.back \in Nat
         /\ x.fwd \in [0 .. x.height - 1 -> Nat]
BY DEF NodeRecords

\* of which one is made,
LEMMA NodeMade ==
  ASSUME NEW h \in 1 .. MaxLevel, NEW s \in Seq(AllPairs), NEW b \in Nat,
         NEW f \in [0 .. h - 1 -> Nat]
  PROVE  [height |-> h, pairs |-> s, back |-> b, fwd |-> f] \in NodeRecords
BY DEF NodeRecords

\* and a node with one of them changed.
LEMMA NodeWith ==
  ASSUME NEW x \in NodeRecords
  PROVE  /\ \A s \in Seq(AllPairs) :
              LET y == [x EXCEPT !.pairs = s]
              IN  /\ y \in NodeRecords /\ y.height = x.height /\ y.pairs = s
                  /\ y.back = x.back /\ y.fwd = x.fwd
         /\ \A b \in Nat :
              LET y == [x EXCEPT !.back = b]
              IN  /\ y \in NodeRecords /\ y.height = x.height /\ y.pairs = x.pairs
                  /\ y.back = b /\ y.fwd = x.fwd
         /\ \A f \in [0 .. x.height - 1 -> Nat] :
              LET y == [x EXCEPT !.fwd = f]
              IN  /\ y \in NodeRecords /\ y.height = x.height /\ y.pairs = x.pairs
                  /\ y.back = x.back /\ y.fwd = f
BY DEF NodeRecords

\* The fields of a skiparray,
LEMMA ArrayParts ==
  ASSUME NEW a \in SkipArrays
  PROVE  /\ a.height \in 1 .. MaxLevel
         /\ a.nodes \in [LevelSet -> Nat]
         /\ DOMAIN a.heap \subseteq Nat \ {NULL}
         /\ IsFiniteSet(DOMAIN a.heap)
         /\ a.heap \in [DOMAIN a.heap -> NodeRecords]
BY DEF SkipArrays

\* of which one is made,
LEMMA ArrayMade ==
  ASSUME NEW h \in 1 .. MaxLevel, NEW f \in [LevelSet -> Nat],
         NEW N \in SUBSET (Nat \ {NULL}), IsFiniteSet(N),
         NEW g \in [N -> NodeRecords]
  PROVE  [height |-> h, nodes |-> f, heap |-> g] \in SkipArrays
BY DEF SkipArrays

\* and a skiparray with one of them changed.
LEMMA HeightWith ==
  ASSUME NEW a \in SkipArrays, NEW h \in 1 .. MaxLevel, NEW b, b = [a EXCEPT !.height = h]
  PROVE  b \in SkipArrays /\ b.height = h /\ b.nodes = a.nodes /\ b.heap = a.heap
BY DEF SkipArrays

\* (its heads,
LEMMA NodesWith ==
  ASSUME NEW a \in SkipArrays, NEW f \in [LevelSet -> Nat],
         NEW b, b = [a EXCEPT !.nodes = f]
  PROVE  b \in SkipArrays /\ b.height = a.height /\ b.nodes = f /\ b.heap = a.heap
BY DEF SkipArrays

\* its nodes).
LEMMA HeapWith ==
  ASSUME NEW a \in SkipArrays, NEW N \in SUBSET (Nat \ {NULL}), IsFiniteSet(N),
         NEW g \in [N -> NodeRecords], NEW b, b = [a EXCEPT !.heap = g]
  PROVE  b \in SkipArrays /\ b.height = a.height /\ b.nodes = a.nodes /\ b.heap = g
BY DEF SkipArrays

\* What one can see of a skiparray without its links, without its back
\* pointers, without its pairs.
SameNodes(a, b) ==
  /\ DOMAIN b.heap = DOMAIN a.heap
  /\ \A n \in DOMAIN a.heap : b.heap[n].height = a.heap[n].height

SamePairs(a, b) == \A n \in DOMAIN a.heap : b.heap[n].pairs = a.heap[n].pairs

SameBacks(a, b) == \A n \in DOMAIN a.heap : b.heap[n].back = a.heap[n].back

SameLinks(a, b) ==
  \A l \in LevelSet : \A p \in {NULL} \cup OnLevel(a, l) :
    After(b, p, l) = After(a, p, l)

\* The levels are told by the heights,
LEMMA OnLevelSame ==
  ASSUME NEW a, NEW b, SameNodes(a, b), NEW l
  PROVE  OnLevel(b, l) = OnLevel(a, l)
BY DEF SameNodes, OnLevel

\* all nodes are on level 0,
LEMMA LevelZeroIsAll ==
  ASSUME NEW a \in SkipArrays
  PROVE  OnLevel(a, 0) = DOMAIN a.heap /\ 0 \in LevelSet
<1>1. \A n \in DOMAIN a.heap : a.heap[n].height \in 1 .. MaxLevel
  BY ArrayParts, NodeParts
<1> QED BY <1>1, MaxLevelIs DEF OnLevel, LevelSet

\* a node is on the levels below those it is on,
LEMMA LevelsNest ==
  ASSUME NEW a \in SkipArrays, NEW l \in LevelSet, NEW k \in LevelSet, k <= l
  PROVE  OnLevel(a, l) \subseteq OnLevel(a, k)
<1>1. \A n \in DOMAIN a.heap : a.heap[n].height \in 1 .. MaxLevel
  BY ArrayParts, NodeParts
<1> QED BY <1>1, MaxLevelIs DEF OnLevel, LevelSet

\* and every link holds an address.
LEMMA AfterIsNat ==
  ASSUME NEW a \in SkipArrays, NEW l \in LevelSet, NEW p \in {NULL} \cup OnLevel(a, l)
  PROVE  After(a, p, l) \in Nat
<1>1. CASE p = NULL
  BY <1>1, ArrayParts DEF After
<1>2. CASE p # NULL
  <2>1. p \in DOMAIN a.heap /\ l < a.heap[p].height /\ a.heap[p] \in NodeRecords
    BY <1>2, ArrayParts DEF OnLevel
  <2>2. l \in 0 .. a.heap[p].height - 1
    BY <2>1, NodeParts, MaxLevelIs DEF LevelSet
  <2> QED BY <1>2, <2>1, <2>2, NodeParts DEF After
<1> QED BY <1>1, <1>2

\* What the assignments do.
LEMMA SetAfterEffect ==
  ASSUME NEW a \in SkipArrays, NEW l \in LevelSet, NEW p \in {NULL} \cup OnLevel(a, l),
         NEW n \in Nat, NEW b, b = SetAfter(a, p, l, n)
  PROVE  /\ b \in SkipArrays /\ b.height = a.height
         /\ SameNodes(a, b) /\ SamePairs(a, b) /\ SameBacks(a, b)
         /\ \A k \in LevelSet : \A q \in {NULL} \cup OnLevel(a, k) :
              After(b, q, k) = IF q = p /\ k = l THEN n ELSE After(a, q, k)
<1>1. CASE p = NULL
  <2> DEFINE f == [a.nodes EXCEPT ![l] = n]
  <2>1. b = [a EXCEPT !.nodes = f]
    BY <1>1 DEF SetAfter
  <2>2. /\ f \in [LevelSet -> Nat]
        /\ \A k \in LevelSet : f[k] = IF k = l THEN n ELSE a.nodes[k]
    BY ArrayParts
  <2> HIDE DEF f
  <2>3. b \in SkipArrays /\ b.height = a.height /\ b.heap = a.heap /\ b.nodes = f
    BY <2>1, <2>2, NodesWith
  <2>4. \A k \in LevelSet : b.nodes[k] = IF k = l THEN n ELSE a.nodes[k]
    BY <2>2, <2>3
  <2> QED BY <1>1, <2>3, <2>4 DEF SameNodes, SamePairs, SameBacks, After
<1>2. CASE p # NULL
  <2> DEFINE x == a.heap[p]
             y == [x EXCEPT !.fwd = [x.fwd EXCEPT ![l] = n]]
             g == [a.heap EXCEPT ![p] = y]
  <2>1. p \in DOMAIN a.heap /\ l < x.height /\ x \in NodeRecords
    BY <1>2, ArrayParts DEF OnLevel
  <2>2. b = [a EXCEPT !.heap = g]
    BY <1>2 DEF SetAfter
  <2>3. l \in 0 .. x.height - 1 /\ [x.fwd EXCEPT ![l] = n] \in [0 .. x.height - 1 -> Nat]
    BY <2>1, NodeParts, MaxLevelIs DEF LevelSet
  <2>4. /\ y \in NodeRecords /\ y.height = x.height /\ y.pairs = x.pairs
        /\ y.back = x.back /\ y.fwd = [x.fwd EXCEPT ![l] = n]
    BY <2>1, <2>3, NodeWith, ZenonT(60)
  <2> HIDE DEF y
  <2>5. /\ g \in [DOMAIN a.heap -> NodeRecords]
        /\ g[p] = y /\ \A m \in DOMAIN a.heap : m # p => g[m] = a.heap[m]
    BY <2>1, <2>4, ArrayParts
  <2> HIDE DEF g
  <2>6. b \in SkipArrays /\ b.height = a.height /\ b.nodes = a.nodes /\ b.heap = g
    BY <2>2, <2>5, HeapWith, ArrayParts
  <2>7. DOMAIN b.heap = DOMAIN a.heap
    BY <2>5, <2>6
  <2>8. \A k \in 0 .. x.height - 1 : y.fwd[k] = IF k = l THEN n ELSE x.fwd[k]
    BY <2>1, <2>4, NodeParts
  <2>9. ASSUME NEW k \in LevelSet, NEW q \in {NULL} \cup OnLevel(a, k)
         PROVE  After(b, q, k) = IF q = p /\ k = l THEN n ELSE After(a, q, k)
    <3>1. CASE q = NULL
      BY <1>2, <2>6, <3>1 DEF After
    <3>2. CASE q = p
      <4>1. k \in 0 .. x.height - 1
        BY <1>2, <2>1, <3>2, NodeParts, MaxLevelIs DEF OnLevel, LevelSet
      <4> QED BY <1>2, <2>5, <2>6, <2>8, <3>2, <4>1 DEF After
    <3>3. CASE q # NULL /\ q # p
      BY <2>5, <2>6, <3>3 DEF After, OnLevel
    <3> QED BY <3>1, <3>2, <3>3
  <2> QED BY <2>4, <2>5, <2>6, <2>7, <2>9 DEF SameNodes, SamePairs, SameBacks
<1> QED BY <1>1, <1>2

BackIs(a, b, n, p) ==
  \A m \in DOMAIN a.heap : b.heap[m].back = IF m = n THEN p ELSE a.heap[m].back

\* The same for n->back = p, which leaves NULL alone.
LEMMA SetBackEffect ==
  ASSUME NEW a \in SkipArrays, NEW n \in {NULL} \cup DOMAIN a.heap,
         NEW p \in Nat, NEW b, b = SetBack(a, n, p)
  PROVE  /\ b \in SkipArrays /\ b.height = a.height
         /\ SameNodes(a, b) /\ SamePairs(a, b) /\ SameLinks(a, b)
         /\ BackIs(a, b, n, p)
<1>1. NULL \notin DOMAIN a.heap
  BY ArrayParts
<1>2. CASE n = NULL
  BY <1>1, <1>2 DEF SetBack, SameNodes, SamePairs, SameLinks, BackIs
<1>3. CASE n # NULL
  <2> DEFINE x == a.heap[n]
             y == [x EXCEPT !.back = p]
             g == [a.heap EXCEPT ![n] = y]
  <2>1. n \in DOMAIN a.heap /\ x \in NodeRecords
    BY <1>3, ArrayParts
  <2>2. b = [a EXCEPT !.heap = g]
    BY <1>3 DEF SetBack
  <2>3. /\ y \in NodeRecords /\ y.height = x.height /\ y.pairs = x.pairs
        /\ y.back = p /\ y.fwd = x.fwd
    BY <2>1, NodeWith
  <2> HIDE DEF y
  <2>4. /\ g \in [DOMAIN a.heap -> NodeRecords]
        /\ g[n] = y /\ \A m \in DOMAIN a.heap : m # n => g[m] = a.heap[m]
    BY <2>1, <2>3, ArrayParts
  <2> HIDE DEF g
  <2>5. b \in SkipArrays /\ b.height = a.height /\ b.nodes = a.nodes /\ b.heap = g
    BY <2>2, <2>4, HeapWith, ArrayParts
  <2>6. DOMAIN b.heap = DOMAIN a.heap
    BY <2>4, <2>5
  <2>7. \A m \in DOMAIN a.heap : b.heap[m].fwd = a.heap[m].fwd
    BY <2>3, <2>4, <2>5
  <2>8. SameLinks(a, b)
    BY <2>5, <2>7 DEF SameLinks, After, OnLevel
  <2> QED BY <2>3, <2>4, <2>5, <2>6, <2>8 DEF SameNodes, SamePairs, BackIs
<1> QED BY <1>2, <1>3

SetPairs(a, n, s) == [a EXCEPT !.heap[n].pairs = s]

\* The pairs of a node are replaced.
LEMMA SetPairsEffect ==
  ASSUME NEW a \in SkipArrays, NEW n \in DOMAIN a.heap, NEW s \in Seq(AllPairs),
         NEW b, b = SetPairs(a, n, s)
  PROVE  /\ b \in SkipArrays /\ b.height = a.height /\ b.nodes = a.nodes
         /\ SameNodes(a, b) /\ SameLinks(a, b) /\ SameBacks(a, b)
         /\ \A m \in DOMAIN a.heap :
              /\ b.heap[m].pairs = IF m = n THEN s ELSE a.heap[m].pairs
              /\ b.heap[m].fwd = a.heap[m].fwd
<1> DEFINE x == a.heap[n]
           y == [x EXCEPT !.pairs = s]
           g == [a.heap EXCEPT ![n] = y]
<1>1. n # NULL /\ x \in NodeRecords
  BY ArrayParts
<1>2. b = [a EXCEPT !.heap = g]
  BY DEF SetPairs
<1>3. /\ y \in NodeRecords /\ y.height = x.height /\ y.pairs = s
      /\ y.back = x.back /\ y.fwd = x.fwd
  BY <1>1, NodeWith
<1> HIDE DEF y
<1>4. /\ g \in [DOMAIN a.heap -> NodeRecords]
      /\ g[n] = y /\ \A m \in DOMAIN a.heap : m # n => g[m] = a.heap[m]
  BY <1>1, <1>3, ArrayParts
<1> HIDE DEF g
<1>5. b \in SkipArrays /\ b.height = a.height /\ b.nodes = a.nodes /\ b.heap = g
  <2>1. DOMAIN a.heap \in SUBSET (Nat \ {NULL}) /\ IsFiniteSet(DOMAIN a.heap)
    BY ArrayParts
  <2> QED BY <1>2, <1>4, <2>1, HeapWith
<1>6. DOMAIN b.heap = DOMAIN a.heap
  BY <1>4, <1>5
<1>7. \A m \in DOMAIN a.heap : b.heap[m].fwd = a.heap[m].fwd
  BY <1>3, <1>4, <1>5
<1>8. SameLinks(a, b)
  BY <1>5, <1>7 DEF SameLinks, After, OnLevel
<1> QED BY <1>3, <1>4, <1>5, <1>6, <1>7, <1>8 DEF SameNodes, SameBacks

-----------------------------------------------------------------------------
(* Walking along a level. *)

\* p is the last node of T that is in passed, or NULL.
LastPassed(r, T, p, passed) ==
  /\ p \in {NULL} \cup (T \cap passed)
  /\ \A m \in T \cap passed : p # NULL /\ r[m] <= r[p]

\* The walk stops at the last node it may pass, if from every node it may
\* pass a node of T behind it whenever there is one.
LEMMA AdvanceFinds ==
  ASSUME NEW a, NEW r, Ranks(r, DOMAIN a.heap), NEW l, NEW T \in SUBSET OnLevel(a, l),
         NEW passed,
         \A p \in {NULL} \cup OnLevel(a, l) :
           After(a, p, l) \in passed =>
             After(a, p, l) \in T /\ Behind(r, p, After(a, p, l)),
         \A p \in {NULL} \cup T :
           After(a, p, l) \notin passed =>
             \A m \in T : Behind(r, p, m) => m \notin passed,
         NEW start \in {NULL} \cup (T \cap passed)
  PROVE  LastPassed(r, T, Advance(a, start, l, passed), passed)
<1> DEFINE S == {NULL} \cup OnLevel(a, l)
           D == {p \in S : After(a, p, l) \notin passed}
           out == [p \in S |-> p]
           step == [p \in S |-> After(a, p, l)]
           P == {NULL} \cup (T \cap passed)
           from == CHOOSE f : f = [p \in S |->
                     LET next == After(a, p, l)
                     IN  IF next \in passed THEN f[next] ELSE p]
<1>1. PICK K \in Nat : \A n \in DOMAIN a.heap : r[n] \in Nat /\ r[n] <= K /\ n # NULL
  BY DEF Ranks
<1> DEFINE rank == [p \in S |-> IF p = NULL THEN K + 1 ELSE K - r[p]]
<1>2. Terminates(S, D, step, rank, K + 1)
  <2>1. \A p \in S : p # NULL => p \in DOMAIN a.heap
    BY DEF OnLevel
  <2>2. rank \in [S -> 0 .. K + 1]
    BY <1>1, <2>1
  <2>3. ASSUME NEW s \in S, s \notin D
        PROVE  step[s] \in S /\ rank[step[s]] < rank[s]
    <3>1. step[s] \in T /\ Behind(r, s, step[s]) /\ step[s] \in OnLevel(a, l)
      BY <2>3
    <3>2. step[s] \in DOMAIN a.heap /\ r[step[s]] \in Nat /\ r[step[s]] <= K
          /\ step[s] # NULL
      BY <1>1, <3>1 DEF OnLevel
    <3>3. s # NULL => r[s] < r[step[s]] /\ r[s] \in Nat
      BY <1>1, <2>1, <3>1 DEF Behind
    <3> QED BY <3>1, <3>2, <3>3
  <2> HIDE DEF S, D, step, rank
  <2> QED BY <1>1, <2>2, <2>3 DEF Terminates
<1> HIDE DEF rank
<1>3. ASSUME NEW f
      PROVE  (f = [p \in S |-> LET next == After(a, p, l)
                               IN  IF next \in passed THEN f[next] ELSE p])
             <=> Loops(f, S, D, out, step)
  <2>1. \A p \in S : (IF After(a, p, l) \in passed THEN f[After(a, p, l)] ELSE p)
                     = (IF p \in D THEN out[p] ELSE f[step[p]])
    OBVIOUS
  <2> HIDE DEF S, D, out, step
  <2> QED BY <2>1 DEF Loops
<1>4. \E f : Loops(f, S, D, out, step)
  <2>1. out \in [S -> S]
    OBVIOUS
  <2> HIDE DEF S, D, out, step
  <2> QED BY <1>2, <2>1, LoopExists
<1>5. Loops(from, S, D, out, step)
  <2> HIDE DEF D, out, step
  <2> QED BY <1>3, <1>4
<1>6. P \subseteq S /\ start \in P
  OBVIOUS
<1>7. \A s \in P : s \notin D => step[s] \in P
  OBVIOUS
<1>8. Advance(a, start, l, passed) = from[start]
  BY DEF Advance
<1>9. \E d \in P : d \in D /\ from[start] = out[d]
  <2> HIDE DEF S, D, out, step, P, from
  <2>1. P \in SUBSET S
    BY <1>6
  <2> QED BY <1>2, <1>5, <1>6, <1>7, <2>1, LoopEnds
<1>10. PICK d \in P : d \in D /\ from[start] = d
  BY <1>9
<1>11. \A m \in T \cap passed : d # NULL /\ r[m] <= r[d]
  <2>1. \A m \in T : Behind(r, d, m) => m \notin passed
    BY <1>10
  <2>2. \A m \in T : r[m] \in Nat /\ (d # NULL => r[d] \in Nat)
    BY <1>1 DEF OnLevel
  <2> QED BY <2>1, <2>2 DEF Behind
<1> QED BY <1>8, <1>10, <1>11 DEF LastPassed

-----------------------------------------------------------------------------
(* The shape of a skiparray: for some ranks of the nodes, every level is a  *)
(* chain of the nodes tall enough for it, the back pointers are level 0     *)
(* backwards, and the height is that of the tallest node.                   *)

Hops(a, T, l) == [p \in {NULL} \cup T |-> After(a, p, l)]

Linked(a, r) ==
  \A l \in LevelSet : Chained(Hops(a, OnLevel(a, l), l), OnLevel(a, l), r)

Backed(a, r) ==
  \A n \in DOMAIN a.heap : InFront(r, DOMAIN a.heap, a.heap[n].back, n)

Tall(a) == \A l \in LevelSet : OnLevel(a, l) # {} <=> l < a.height

Formed(a, r) ==
  /\ a \in SkipArrays /\ Ranks(r, DOMAIN a.heap)
  /\ Linked(a, r) /\ Backed(a, r) /\ Tall(a)

\* The levels as Chain reads them.
Lists(r, c, X) ==
  /\ c \in Seq(X) /\ \A x \in X : \E i \in DOMAIN c : c[i] = x
  /\ \A i, j \in DOMAIN c : i < j => r[c[i]] < r[c[j]]

\* A node before all others,
LEMMA ListsBefore ==
  ASSUME NEW N \in SUBSET Nat, NEW r, \A m \in N : r[m] \in Nat, NEW n \in N, NEW X \in SUBSET N,
         NEW c, Lists(r, c, X), \A x \in X : r[n] < r[x]
  PROVE  Lists(r, <<n>> \o c, {n} \cup X)
<1> DEFINE d == <<n>> \o c
<1>1. c \in Seq({n} \cup X) /\ <<n>> \in Seq({n} \cup X) /\ Len(c) \in Nat
      /\ DOMAIN c = 1 .. Len(c) /\ \A i \in DOMAIN c : c[i] \in X
  BY DEF Lists
<1>2. /\ d \in Seq({n} \cup X) /\ Len(d) = 1 + Len(c) /\ DOMAIN d = 1 .. 1 + Len(c)
      /\ d[1] = n /\ \A i \in 1 .. Len(c) : d[1 + i] = c[i]
  BY <1>1
<1> HIDE DEF d
<1>3. \A i \in DOMAIN d : i = 1 \/ (i - 1 \in DOMAIN c /\ d[i] = c[i - 1])
  <2>1. ASSUME NEW i \in DOMAIN d, i # 1
        PROVE  i - 1 \in 1 .. Len(c) /\ 1 + (i - 1) = i
    BY <1>1, <1>2, <2>1
  <2> QED BY <1>1, <1>2, <2>1
<1>4. ASSUME NEW i \in DOMAIN d, NEW j \in DOMAIN d, i < j
      PROVE  r[d[i]] < r[d[j]]
  <2>1. i \in Nat /\ j \in Nat /\ i >= 1
    BY <1>1, <1>2
  <2>2. j # 1 /\ j - 1 \in DOMAIN c /\ d[j] = c[j - 1]
    BY <1>3, <1>4, <2>1
  <2>3. CASE i = 1
    BY <1>1, <1>2, <2>2, <2>3
  <2>4. CASE i # 1
    <3>1. i - 1 \in DOMAIN c /\ d[i] = c[i - 1] /\ i - 1 < j - 1
      BY <1>3, <1>4, <2>1, <2>4
    <3> QED BY <2>2, <3>1 DEF Lists
  <2> QED BY <2>3, <2>4
<1>5. ASSUME NEW x \in {n} \cup X
      PROVE  \E i \in DOMAIN d : d[i] = x
  <2>1. CASE x = n
    BY <1>1, <1>2, <2>1
  <2>2. CASE x \in X
    <3>1. PICK i \in DOMAIN c : c[i] = x
      BY <2>2 DEF Lists
    <3>2. 1 + i \in DOMAIN d
      BY <1>1, <1>2, <3>1
    <3> QED BY <1>1, <1>2, <3>1, <3>2
  <2> QED BY <2>1, <2>2
<1> QED BY <1>2, <1>4, <1>5 DEF Lists, d

\* and the way Chain reads a level, node by node.
LEMMA ChainUnfolds ==
  ASSUME NEW a \in SkipArrays, NEW l \in LevelSet
  PROVE  \E from :
           /\ Chain(a, l) = from[Cardinality(DOMAIN a.heap) + 1][a.nodes[l]]
           /\ \A k \in Nat, n \in Nat :
                /\ from[0][n] = << >> /\ from[k][NULL] = << >>
                /\ n \in OnLevel(a, l) => from[k + 1][n] = <<n>> \o from[k][After(a, n, l)]
<1> DEFINE Row(h) == [n \in Nat |->
                        IF n = NULL THEN << >>
                        ELSE <<n>> \o (IF n \in OnLevel(a, l) THEN h[After(a, n, l)] ELSE << >>)]
           Rows == [Nat -> Seq(Nat)]
           base == [n \in Nat |-> << >>]
           step == [p \in Nat \X Rows |-> Row(p[2])]
           Body(f) == [left \in Nat |-> [n \in Nat |->
              IF n = NULL \/ left = 0 THEN << >>
              ELSE <<n>> \o (IF n \in DOMAIN a.heap /\ l < a.heap[n].height
                             THEN f[left - 1][a.heap[n].fwd[l]] ELSE << >>)]]
           from == CHOOSE f : f = Body(f)
<1>1. NULL \notin DOMAIN a.heap
  BY ArrayParts
<1>2. base \in Rows /\ step \in [Nat \X Rows -> Rows]
  <2>1. ASSUME NEW h \in Rows
        PROVE  Row(h) \in Rows
    <3>1. ASSUME NEW n \in Nat
          PROVE  (IF n = NULL THEN << >>
                  ELSE <<n>> \o (IF n \in OnLevel(a, l) THEN h[After(a, n, l)] ELSE << >>))
                 \in Seq(Nat)
      <4>1. <<n>> \in Seq(Nat) /\ << >> \in Seq(Nat)
        OBVIOUS
      <4>2. n \in OnLevel(a, l) => h[After(a, n, l)] \in Seq(Nat)
        BY AfterIsNat
      <4> QED BY <4>1, <4>2, ConcatProperties
    <3> QED BY <3>1
  <2>2. base \in Rows
    OBVIOUS
  <2> HIDE DEF Row, Rows
  <2> QED BY <2>1, <2>2
<1>3. PICK g \in [Nat -> Rows] : \A m \in Nat : Recurs(g, m, base, step)
  <2> HIDE DEF Rows, base, step
  <2> QED BY <1>2, RecursionExists
<1> HIDE DEF Row, Rows, base, step
<1>4. g[0] = base /\ \A i \in Nat : g[i + 1] = Row(g[i])
  <2>1. ASSUME NEW i \in Nat PROVE g[i + 1] = step[<<i, g[i]>>]
    <3>1. Recurs(g, i + 1, base, step) /\ i \in 0 .. (i + 1) - 1
      BY <1>3
    <3> QED BY <3>1 DEF Recurs
  <2>2. Recurs(g, 0, base, step)
    BY <1>3
  <2>3. \A i \in Nat : step[<<i, g[i]>>] = Row(g[i])
    BY <1>3 DEF step
  <2> QED BY <2>1, <2>2, <2>3 DEF Recurs
<1>5. g = Body(g)
  <2>1. ASSUME NEW left \in Nat
        PROVE  g[left] = Body(g)[left]
    <3>1. CASE left = 0
      BY <1>4, <3>1 DEF base
    <3>2. CASE left # 0
      <4>1. left - 1 \in Nat /\ (left - 1) + 1 = left
        BY <3>2
      <4>2. g[left] = Row(g[left - 1])
        BY <1>4, <4>1
      <4>3. ASSUME NEW n \in Nat, n # NULL
            PROVE  (IF n \in OnLevel(a, l) THEN g[left - 1][After(a, n, l)] ELSE << >>)
                   = (IF n \in DOMAIN a.heap /\ l < a.heap[n].height
                      THEN g[left - 1][a.heap[n].fwd[l]] ELSE << >>)
        BY <4>3 DEF OnLevel, After
      <4>4. \A n \in Nat : Row(g[left - 1])[n] = Body(g)[left][n]
        BY <3>2, <4>3 DEF Row
      <4>5. Row(g[left - 1]) = [n \in Nat |-> Row(g[left - 1])[n]]
        BY DEF Row
      <4> QED BY <4>2, <4>4, <4>5
    <3> QED BY <3>1, <3>2
  <2>2. g = [left \in Nat |-> g[left]]
    BY <1>3
  <2> QED BY <2>1, <2>2
<1> HIDE DEF Body
<1>6. from = Body(from)
  BY <1>5
<1>7. Chain(a, l) = from[Cardinality(DOMAIN a.heap) + 1][a.nodes[l]]
  BY DEF Chain, Body
<1> HIDE DEF from
<1>8. \A left \in Nat, n \in Nat : from[left][n] =
              IF n = NULL \/ left = 0 THEN << >>
              ELSE <<n>> \o (IF n \in DOMAIN a.heap /\ l < a.heap[n].height
                             THEN from[left - 1][a.heap[n].fwd[l]] ELSE << >>)
  <2>1. ASSUME NEW f, f = Body(f), NEW left \in Nat, NEW n \in Nat
        PROVE  f[left][n] =
                 IF n = NULL \/ left = 0 THEN << >>
                 ELSE <<n>> \o (IF n \in DOMAIN a.heap /\ l < a.heap[n].height
                                THEN f[left - 1][a.heap[n].fwd[l]] ELSE << >>)
    <3>1. Body(f)[left][n] =
                 IF n = NULL \/ left = 0 THEN << >>
                 ELSE <<n>> \o (IF n \in DOMAIN a.heap /\ l < a.heap[n].height
                                THEN f[left - 1][a.heap[n].fwd[l]] ELSE << >>)
      BY DEF Body
    <3> QED BY <2>1, <3>1
  <2> QED BY <1>6, <2>1
<1>9. ASSUME NEW k \in Nat, NEW n \in OnLevel(a, l)
      PROVE  from[k + 1][n] = <<n>> \o from[k][After(a, n, l)]
  <2>1. /\ n \in Nat /\ n # NULL /\ n \in DOMAIN a.heap /\ l < a.heap[n].height
        /\ After(a, n, l) = a.heap[n].fwd[l]
    BY ArrayParts DEF OnLevel, After
  <2>2. k + 1 \in Nat /\ k + 1 # 0 /\ (k + 1) - 1 = k
    OBVIOUS
  <2> QED BY <1>8, <2>1, <2>2
<1>10. \A k \in Nat, n \in Nat : from[0][n] = << >> /\ from[k][NULL] = << >>
  BY <1>8 DEF NULL
<1>11. \A k \in Nat, n \in Nat :
         /\ from[0][n] = << >> /\ from[k][NULL] = << >>
         /\ n \in OnLevel(a, l) => from[k + 1][n] = <<n>> \o from[k][After(a, n, l)]
  BY <1>9, <1>10
<1> QED BY <1>7, <1>11

\* Chain lists the nodes of the level, by their ranks.
LEMMA ChainLists ==
  ASSUME NEW a, NEW r, Formed(a, r), NEW l \in LevelSet
  PROVE  Lists(r, Chain(a, l), OnLevel(a, l))
<1> DEFINE T == OnLevel(a, l)
           N == DOMAIN a.heap
           X(n) == {m \in T : r[n] <= r[m]}
<1>1. PICK from :
           /\ Chain(a, l) = from[Cardinality(N) + 1][a.nodes[l]]
           /\ \A k \in Nat, n \in Nat :
                /\ from[0][n] = << >> /\ from[k][NULL] = << >>
                /\ n \in T => from[k + 1][n] = <<n>> \o from[k][After(a, n, l)]
  BY ChainUnfolds DEF Formed
<1>2. /\ N \subseteq Nat /\ NULL \notin N /\ IsFiniteSet(N) /\ T \subseteq N
      /\ \A n \in N : r[n] \in Nat
      /\ \A m, n \in N : r[m] = r[n] => m = n
  BY ArrayParts DEF Formed, Ranks, OnLevel
<1>3. \A p \in {NULL} \cup T : Follows(r, T, p, After(a, p, l))
  BY DEF Formed, Linked, Chained, Hops
<1>4. \A n \in T : IsFiniteSet(X(n)) /\ Cardinality(X(n)) \in Nat
                   /\ Cardinality(X(n)) <= Cardinality(N)
  BY <1>2, FS_Subset, FS_CardinalityType
<1> DEFINE Good(k) == \A n \in T : Cardinality(X(n)) <= k => Lists(r, from[k][n], X(n))
           K == {k \in Nat : Good(k)}
<1>5. 0 \in K
  <2>1. \A n \in T : Cardinality(X(n)) # 0
    <3>1. \A n \in T : n \in X(n)
      BY <1>2
    <3> HIDE DEF X
    <3> QED BY <1>4, <3>1, FS_EmptySet
  <2> HIDE DEF X
  <2> QED BY <1>4, <2>1
<1>6. ASSUME NEW k \in Nat, k \in K
      PROVE  k + 1 \in K
  <2>1. ASSUME NEW n \in T, Cardinality(X(n)) <= k + 1
        PROVE  Lists(r, from[k + 1][n], X(n))
    <3> DEFINE q == After(a, n, l)
    <3>1. from[k + 1][n] = <<n>> \o from[k][q] /\ n \in N /\ n \in Nat
      BY <1>1, <1>2
    <3>2. Follows(r, T, n, q) /\ n # NULL
      BY <1>2, <1>3
    <3>3. CASE q = NULL
      <4>1. Lists(r, << >>, {})
        BY DEF Lists
      <4>2. X(n) = {n} \cup {}
        BY <1>2, <3>2, <3>3 DEF Follows, Behind
      <4>3. from[k][q] = << >>
        BY <1>1, <3>3
      <4> HIDE DEF X
      <4>4. Lists(r, <<n>> \o << >>, {n} \cup {})
        BY <1>2, <3>1, <4>1, ListsBefore
      <4> QED BY <3>1, <4>2, <4>3, <4>4
    <3>4. CASE q # NULL
      <4>1. q \in T /\ r[n] < r[q] /\ \A m \in T : r[n] < r[m] => r[q] <= r[m]
        BY <3>2, <3>4 DEF Follows, Behind
      <4>2. X(n) = {n} \cup X(q) /\ n \notin X(q) /\ \A x \in X(q) : r[n] < r[x]
            /\ X(q) \subseteq N
        BY <1>2, <4>1
      <4>3. Cardinality(X(q)) <= k
        <5>1. Cardinality(X(q) \cup {n}) = Cardinality(X(q)) + 1
          <6> HIDE DEF X
          <6> QED BY <1>4, <4>1, <4>2, FS_AddElement
        <5>2. X(q) \cup {n} = X(n)
          BY <4>2
        <5>3. Cardinality(X(q)) \in Nat
          BY <1>4, <4>1
        <5> HIDE DEF X
        <5>4. Cardinality(X(n)) = Cardinality(X(q)) + 1
          BY <5>1, <5>2
        <5> QED BY <2>1, <5>3, <5>4
      <4>4. Lists(r, from[k][q], X(q))
        BY <1>6, <4>1, <4>3
      <4> HIDE DEF X, q
      <4>5. Lists(r, <<n>> \o from[k][q], {n} \cup X(q))
        BY <1>2, <3>1, <4>2, <4>4, ListsBefore
      <4> QED BY <3>1, <4>2, <4>5
    <3> QED BY <3>3, <3>4
  <2> HIDE DEF X
  <2> QED BY <2>1
<1>7. Cardinality(N) + 1 \in K
  <2>1. Nat \subseteq K
    <3> HIDE DEF K
    <3> QED BY <1>5, <1>6, NaturalsInSet
  <2>2. Cardinality(N) \in Nat
    BY <1>2, FS_CardinalityType
  <2> QED BY <2>1, <2>2
<1>8. a.nodes[l] \in Nat
  BY ArrayParts DEF Formed
<1>9. Follows(r, T, NULL, a.nodes[l])
  BY <1>3 DEF After
<1>10. Cardinality(N) \in Nat
  BY <1>2, FS_CardinalityType
<1>11. CASE a.nodes[l] = NULL
  <2>1. T = {}
    BY <1>9, <1>11, <1>2 DEF Follows, Behind
  <2>2. Chain(a, l) = << >>
    <3>1. \A k \in Nat : from[k][NULL] = << >>
      BY <1>1
    <3>2. Cardinality(N) + 1 \in Nat
      BY <1>10
    <3> HIDE DEF N
    <3> QED BY <1>1, <1>11, <3>1, <3>2
  <2> QED BY <2>1, <2>2 DEF Lists
<1>12. CASE a.nodes[l] # NULL
  <2>1. a.nodes[l] \in T /\ \A m \in T : r[a.nodes[l]] <= r[m]
    BY <1>2, <1>9, <1>12 DEF Follows, Behind
  <2>2. X(a.nodes[l]) = T
    BY <2>1
  <2>3. Cardinality(X(a.nodes[l])) <= Cardinality(N) + 1
    <3> HIDE DEF X, N
    <3> QED BY <1>4, <1>10, <2>1
  <2>4. Lists(r, from[Cardinality(N) + 1][a.nodes[l]], X(a.nodes[l]))
    BY <1>7, <2>1, <2>3
  <2> HIDE DEF X
  <2> QED BY <1>1, <2>2, <2>4
<1> QED BY <1>11, <1>12

\* So it is what the properties say it is.
LEMMA FormedIsExact ==
  ASSUME NEW r, Formed(sa, r)
  PROVE  LevelsExact /\ BackLinksExact
<1> DEFINE N == DOMAIN sa.heap
           c == Chain(sa, 0)
<1>1. /\ sa \in SkipArrays /\ N \subseteq Nat /\ NULL \notin N /\ IsFiniteSet(N)
      /\ \A n \in N : r[n] \in Nat
      /\ \A m, n \in N : r[m] = r[n] => m = n
  BY ArrayParts DEF Formed, Ranks
<1>2. OnLevel(sa, 0) = N /\ 0 \in LevelSet
  BY <1>1, LevelZeroIsAll
<1>3. \A l \in LevelSet : Lists(r, Chain(sa, l), OnLevel(sa, l)) /\ OnLevel(sa, l) \subseteq N
  BY ChainLists DEF OnLevel
<1>4. Lists(r, c, N)
  BY <1>2, <1>3
<1>5. /\ c \in Seq(N) /\ Len(c) \in Nat /\ DOMAIN c = 1 .. Len(c)
      /\ \A i \in DOMAIN c : c[i] \in N
  BY <1>4 DEF Lists
<1>6. \A i, j \in DOMAIN c : r[c[i]] < r[c[j]] => i < j
  <2>1. SUFFICES ASSUME NEW i \in DOMAIN c, NEW j \in DOMAIN c, r[c[i]] < r[c[j]], ~(i < j)
                 PROVE  FALSE
    OBVIOUS
  <2>2. i \in Nat /\ j \in Nat /\ r[c[i]] \in Nat /\ r[c[j]] \in Nat
    BY <1>1, <1>5
  <2>3. CASE i = j
    BY <2>1, <2>2, <2>3
  <2>4. CASE i # j
    <3>1. r[c[j]] < r[c[i]]
      BY <1>4, <2>1, <2>2, <2>4 DEF Lists
    <3> QED BY <2>1, <2>2, <3>1
  <2> QED BY <2>3, <2>4
<1>7. Len(c) = Cardinality(N) /\ ToSet(c) = N
  <2>1. ToSet(c) = N
    BY <1>4, <1>5 DEF ToSet, Lists
  <2>2. \A i, j \in DOMAIN c : c[i] = c[j] => i = j
    <3>1. SUFFICES ASSUME NEW i \in DOMAIN c, NEW j \in DOMAIN c, c[i] = c[j], i # j
                   PROVE  FALSE
      OBVIOUS
    <3>2. i \in Nat /\ j \in Nat /\ r[c[i]] \in Nat /\ (i < j \/ j < i)
      BY <1>1, <1>5, <3>1
    <3>3. r[c[i]] < r[c[j]] \/ r[c[j]] < r[c[i]]
      BY <1>4, <3>2 DEF Lists
    <3> QED BY <3>1, <3>2, <3>3
  <2>3. c \in Bijection(1 .. Len(c), N)
    <3>1. c \in [1 .. Len(c) -> N]
      BY <1>5
    <3>2. \A x \in N : \E i \in 1 .. Len(c) : c[i] = x
      BY <1>4, <1>5 DEF Lists
    <3> HIDE DEF c, N
    <3>3. c \in Surjection(1 .. Len(c), N)
      BY <3>1, <3>2, Fun_IsSurj
    <3>4. c \in Injection(1 .. Len(c), N)
      BY <1>5, <2>2, <3>1, Fun_IsInj
    <3> QED BY <3>3, <3>4 DEF Bijection
  <2>4. Cardinality(1 .. Len(c)) = Len(c) /\ IsFiniteSet(1 .. Len(c))
    <3>1. ASSUME NEW n \in Nat
          PROVE  Cardinality(1 .. n) = n /\ IsFiniteSet(1 .. n)
      <4>1. Cardinality(1 .. n) = IF 1 > n THEN 0 ELSE n - 1 + 1
        BY FS_Interval
      <4> QED BY <4>1, FS_Interval
    <3> QED BY <1>5, <3>1
  <2>5. Cardinality(1 .. Len(c)) = Cardinality(N)
    <3>1. ExistsBijection(1 .. Len(c), N)
      BY <2>3 DEF ExistsBijection
    <3> HIDE DEF c, N
    <3> QED BY <1>1, <2>4, <3>1, FS_Bijection
  <2> QED BY <2>1, <2>4, <2>5
<1>8. ASSUME NEW l \in LevelSet
      PROVE  /\ ToSet(Chain(sa, l)) = OnLevel(sa, l)
             /\ Within(Chain(sa, l), c)
             /\ (sa.nodes[l] # NULL) <=> (l < sa.height)
  <2> DEFINE d == Chain(sa, l)
             T == OnLevel(sa, l)
  <2>1. /\ d \in Seq(T) /\ DOMAIN d = 1 .. Len(d) /\ \A i \in DOMAIN d : d[i] \in T
        /\ \A x \in T : \E i \in DOMAIN d : d[i] = x
        /\ \A i, j \in DOMAIN d : i < j => r[d[i]] < r[d[j]]
    BY <1>3 DEF Lists
  <2>2. ToSet(d) = T
    BY <2>1 DEF ToSet
  <2>3. Within(d, c)
    <3>1. ASSUME NEW i \in DOMAIN d, NEW j \in DOMAIN d, i < j
          PROVE  \E x, y \in DOMAIN c : x < y /\ c[x] = d[i] /\ c[y] = d[j]
      <4>1. d[i] \in N /\ d[j] \in N /\ r[d[i]] < r[d[j]]
        BY <1>3, <2>1, <3>1
      <4>2. PICK x \in DOMAIN c : c[x] = d[i]
        BY <1>4, <4>1 DEF Lists
      <4>3. PICK y \in DOMAIN c : c[y] = d[j]
        BY <1>4, <4>1 DEF Lists
      <4> QED BY <1>6, <4>1, <4>2, <4>3
    <3> HIDE DEF c, d
    <3> QED BY <3>1 DEF Within
  <2>4. sa.nodes[l] = NULL <=> T = {}
    <3>1. Chained(Hops(sa, T, l), T, r) /\ NULL \notin T
      BY <1>1, <1>3 DEF Formed, Linked
    <3>2. Hops(sa, T, l)[NULL] = sa.nodes[l]
      BY DEF Hops, After
    <3> QED BY <3>1, <3>2, ChainEmpty
  <2>5. T # {} <=> l < sa.height
    BY DEF Formed, Tall
  <2> QED BY <2>2, <2>3, <2>4, <2>5
<1>9. LevelsExact
  BY <1>7, <1>8 DEF LevelsExact, LevelZero, Nodes, LevelSet
<1>10. ASSUME NEW i \in DOMAIN c
       PROVE  sa.heap[c[i]].back = IF i = 1 THEN NULL ELSE c[i - 1]
  <2> DEFINE b == sa.heap[c[i]].back
  <2>1. InFront(r, N, b, c[i]) /\ c[i] \in N /\ i \in Nat /\ i >= 1
    BY <1>5 DEF Formed, Backed
  <2>2. b # NULL => b \in N /\ r[b] < r[c[i]]
    BY <2>1 DEF InFront, Behind
  <2>3. CASE i = 1
    <3>1. \A j \in DOMAIN c : ~(r[c[j]] < r[c[i]])
      BY <1>5, <1>6, <2>3
    <3>2. b = NULL
      <4>1. SUFFICES ASSUME b # NULL PROVE FALSE
        OBVIOUS
      <4>2. PICK j \in DOMAIN c : c[j] = b
        BY <1>4, <2>2, <4>1 DEF Lists
      <4> QED BY <2>2, <3>1, <4>1, <4>2
    <3> QED BY <2>3, <3>2
  <2>4. CASE i # 1
    <3>1. i - 1 \in DOMAIN c /\ i - 1 < i
      BY <1>5, <2>1, <2>4
    <3>2. r[c[i - 1]] < r[c[i]] /\ c[i - 1] \in N
      BY <1>4, <1>5, <3>1 DEF Lists
    <3>3. b # NULL /\ r[c[i - 1]] <= r[b] /\ b \in N /\ r[b] < r[c[i]]
      BY <2>1, <2>2, <3>2 DEF InFront
    <3>4. PICK j \in DOMAIN c : c[j] = b
      BY <1>4, <3>3 DEF Lists
    <3>5. j < i /\ ~(j < i - 1)
      <4>1. j < i
        BY <1>6, <3>3, <3>4
      <4>2. j < i - 1 => r[c[j]] < r[c[i - 1]]
        BY <1>4, <3>1 DEF Lists
      <4>3. r[c[i - 1]] \in Nat /\ r[c[j]] \in Nat
        BY <1>1, <1>5, <3>1
      <4> QED BY <3>3, <3>4, <4>1, <4>2, <4>3
    <3>6. j = i - 1
      BY <1>5, <2>1, <3>5
    <3> QED BY <2>4, <3>4, <3>6
  <2> QED BY <2>3, <2>4
<1>11. BackLinksExact
  BY <1>10 DEF BackLinksExact, LevelZero
<1> QED BY <1>9, <1>11

-----------------------------------------------------------------------------
(* The keys.                                                               *)

Below(s, t) == \A i \in DOMAIN s, j \in DOMAIN t : s[i].key < t[j].key

\* The keys ascend, in every node and from node to node, and no node has too
\* many of them.
Ordered(a, r) ==
  /\ \A n \in DOMAIN a.heap :
       Ascending(a.heap[n].pairs) /\ Count(a, n) <= NodeSize
  /\ \A m, n \in DOMAIN a.heap : r[m] < r[n] => Below(a.heap[m].pairs, a.heap[n].pairs)

\* The keys ascend in every node and from node to node.
Sorted(a, r) ==
  /\ \A n \in DOMAIN a.heap : Ascending(a.heap[n].pairs)
  /\ \A m, n \in DOMAIN a.heap : r[m] < r[n] => Below(a.heap[m].pairs, a.heap[n].pairs)

\* Only a node that is alone may be empty.
Filled(a) == \A n \in DOMAIN a.heap : Count(a, n) = 0 => DOMAIN a.heap = {n}

\* The pairs of a node, and their keys.
LEMMA PairsType ==
  ASSUME NEW a \in SkipArrays, NEW n \in DOMAIN a.heap
  PROVE  /\ a.heap[n].pairs \in Seq(AllPairs) /\ Count(a, n) \in Nat
         /\ DOMAIN a.heap[n].pairs = 1 .. Count(a, n)
         /\ \A i \in 1 .. Count(a, n) : /\ a.heap[n].pairs[i] \in AllPairs
                                        /\ a.heap[n].pairs[i].key \in Nat
<1>1. a.heap[n].pairs \in Seq(AllPairs)
  BY ArrayParts, NodeParts
<1>2. /\ Count(a, n) \in Nat /\ DOMAIN a.heap[n].pairs = 1 .. Count(a, n)
      /\ \A i \in 1 .. Count(a, n) : a.heap[n].pairs[i] \in AllPairs
  BY <1>1 DEF Count
<1> QED BY <1>1, <1>2, KeysAreNumbers

\* index is where key belongs in s.
Splits(s, key, index) ==
  /\ index \in 0 .. Len(s)
  /\ \A i \in DOMAIN s : /\ i <= index => s[i].key < key
                         /\ i > index => s[i].key > key

\* skiparray_bsearch finds a key of sorted pairs, or where it would go.
LEMMA skiparray_bsearchFinds ==
  ASSUME NEW s \in Seq(AllPairs), Ascending(s), NEW key \in Nat,
         NEW at, at = skiparray_bsearch(s, key)
  PROVE  /\ at.found \in BOOLEAN /\ at.index \in 0 .. Len(s)
         /\ at.found => at.index + 1 \in DOMAIN s /\ s[at.index + 1].key = key
         /\ ~at.found => Splits(s, key, at.index)
<1> DEFINE A == 0 .. Len(s)
           S == A \X A
           Cur(p) == (p[1] + p[2]) \div 2
           D == {p \in S : p[1] >= p[2] \/ s[Cur(p) + 1].key = key}
           out == [p \in S |-> IF p[1] >= p[2] THEN [found |-> FALSE, index |-> p[1]]
                                               ELSE [found |-> TRUE, index |-> Cur(p)]]
           step == [p \in S |-> IF key < s[Cur(p) + 1].key THEN <<p[1], Cur(p)>>
                                                          ELSE <<Cur(p) + 1, p[2]>>]
           rank == [p \in S |-> IF p[1] >= p[2] THEN 0 ELSE p[2] - p[1]]
           P == {p \in S : /\ p[1] <= p[2]
                           /\ \A i \in DOMAIN s : /\ i <= p[1] => s[i].key < key
                                                  /\ i > p[2] => s[i].key > key}
           Body(f) == [part \in S |->
                        LET low == part[1]
                            high == part[2]
                            cur == (low + high) \div 2
                        IN  IF low >= high THEN [found |-> FALSE, index |-> low]
                            ELSE IF key < s[cur + 1].key THEN f[<<low, cur>>]
                            ELSE IF key > s[cur + 1].key THEN f[<<cur + 1, high>>]
                            ELSE [found |-> TRUE, index |-> cur]]
           between == CHOOSE f : f = Body(f)
<1>1. /\ Len(s) \in Nat /\ DOMAIN s = 1 .. Len(s)
      /\ \A i \in 1 .. Len(s) : s[i].key \in Nat
  BY KeysAreNumbers
<1>2. \A i, j \in DOMAIN s : i < j => s[i].key < s[j].key
  BY DEF Ascending
<1>3. ASSUME NEW p \in S, p[1] < p[2]
      PROVE  /\ Cur(p) \in Nat /\ p[1] <= Cur(p) /\ Cur(p) < p[2]
             /\ Cur(p) + 1 \in 1 .. Len(s) /\ s[Cur(p) + 1].key \in Nat
  <2>1. p[1] \in Nat /\ p[2] \in Nat /\ p[2] <= Len(s)
    BY <1>1
  <2>2. Cur(p) \in Nat /\ p[1] <= Cur(p) /\ Cur(p) < p[2]
    BY <1>3, <2>1
  <2> HIDE DEF Cur
  <2>3. Cur(p) + 1 \in 1 .. Len(s)
    BY <1>1, <2>1, <2>2
  <2> QED BY <1>1, <2>2, <2>3
<1> HIDE DEF Cur
<1>4. Terminates(S, D, step, rank, Len(s))
  <2>1. rank \in [S -> 0 .. Len(s)]
    BY <1>1
  <2>2. ASSUME NEW p \in S, p \notin D
        PROVE  step[p] \in S /\ rank[step[p]] < rank[p]
    <3>1. /\ p[1] < p[2] /\ Cur(p) \in Nat /\ p[1] <= Cur(p) /\ Cur(p) < p[2]
          /\ p[1] \in Nat /\ p[2] \in Nat /\ p[2] <= Len(s)
      BY <1>1, <1>3, <2>2
    <3>2. CASE key < s[Cur(p) + 1].key
      BY <3>1, <3>2
    <3>3. CASE ~(key < s[Cur(p) + 1].key)
      BY <3>1, <3>3
    <3> QED BY <3>2, <3>3
  <2> HIDE DEF S, D, step, rank
  <2> QED BY <1>1, <2>1, <2>2 DEF Terminates
<1>5. ASSUME NEW f
      PROVE  f = Body(f) <=> Loops(f, S, D, out, step)
  <2>1. Body(f) = [p \in S |-> IF p \in D THEN out[p] ELSE f[step[p]]]
    <3>1. ASSUME NEW p \in S
          PROVE  Body(f)[p] = IF p \in D THEN out[p] ELSE f[step[p]]
      <4>1. (p[1] + p[2]) \div 2 = Cur(p) /\ p[1] \in Nat /\ p[2] \in Nat
        BY <1>1 DEF Cur
      <4>2. CASE p[1] >= p[2]
        BY <4>1, <4>2
      <4>3. CASE p[1] < p[2]
        <5>1. s[Cur(p) + 1].key \in Nat
          BY <1>3, <4>3
        <5>2. p \in D <=> s[Cur(p) + 1].key = key
          BY <4>1, <4>3
        <5>3. p \in D => out[p] = [found |-> TRUE, index |-> Cur(p)]
          BY <4>1, <4>3
        <5>4. step[p] = IF key < s[Cur(p) + 1].key THEN <<p[1], Cur(p)>>
                                                   ELSE <<Cur(p) + 1, p[2]>>
          OBVIOUS
        <5>5. Body(f)[p] = IF key < s[Cur(p) + 1].key THEN f[<<p[1], Cur(p)>>]
                           ELSE IF key > s[Cur(p) + 1].key THEN f[<<Cur(p) + 1, p[2]>>]
                           ELSE [found |-> TRUE, index |-> Cur(p)]
          <6> DEFINE low == p[1]
                     high == p[2]
                     cur == (low + high) \div 2
          <6>1. Body(f)[p] = IF low >= high THEN [found |-> FALSE, index |-> low]
                             ELSE IF key < s[cur + 1].key THEN f[<<low, cur>>]
                             ELSE IF key > s[cur + 1].key THEN f[<<cur + 1, high>>]
                             ELSE [found |-> TRUE, index |-> cur]
            BY Zenon
          <6>2. cur = Cur(p) /\ ~(low >= high)
            BY <4>1, <4>3
          <6> HIDE DEF cur, Body
          <6> QED BY <6>1, <6>2
        <5> HIDE DEF Body, D, out, step
        <5> QED BY <5>1, <5>2, <5>3, <5>4, <5>5
      <4> QED BY <4>1, <4>2, <4>3
    <3> QED BY <3>1
  <2> HIDE DEF Body, S, D, out, step
  <2> QED BY <2>1 DEF Loops
<1>6. \E f : Loops(f, S, D, out, step)
  <2>1. out \in [S -> [found : BOOLEAN, index : Int]]
    BY <1>1 DEF Cur
  <2> HIDE DEF S, D, out, step, rank
  <2> QED BY <1>4, <2>1, LoopExists
<1>7. Loops(between, S, D, out, step)
  <2> HIDE DEF Body, S, D, out, step
  <2> QED BY <1>5, <1>6
<1>8. P \in SUBSET S /\ \A p \in P : p \notin D => step[p] \in P
  <2>1. ASSUME NEW p \in P, p \notin D
        PROVE  step[p] \in P
    <3>1. /\ p[1] < p[2] /\ Cur(p) \in Nat /\ p[1] <= Cur(p) /\ Cur(p) < p[2]
          /\ p[1] \in Nat /\ p[2] \in Nat /\ p[2] <= Len(s)
          /\ Cur(p) + 1 \in DOMAIN s /\ s[Cur(p) + 1].key \in Nat
          /\ s[Cur(p) + 1].key # key
      BY <1>1, <1>3, <2>1
    <3>2. CASE key < s[Cur(p) + 1].key
      <4>1. step[p] = <<p[1], Cur(p)>> /\ step[p] \in S
        BY <3>1, <3>2
      <4>2. \A i \in DOMAIN s : i > Cur(p) => s[i].key > key
        <5>1. ASSUME NEW i \in DOMAIN s, i > Cur(p)
              PROVE  s[i].key > key
          <6>1. i = Cur(p) + 1 \/ s[Cur(p) + 1].key < s[i].key
            BY <1>1, <1>2, <3>1, <5>1
          <6> QED BY <1>1, <3>1, <3>2, <6>1
        <5> QED BY <5>1
      <4> QED BY <3>1, <4>1, <4>2
    <3>3. CASE s[Cur(p) + 1].key < key
      <4>1. step[p] = <<Cur(p) + 1, p[2]>> /\ step[p] \in S
        BY <3>1, <3>3
      <4>2. \A i \in DOMAIN s : i <= Cur(p) + 1 => s[i].key < key
        <5>1. ASSUME NEW i \in DOMAIN s, i <= Cur(p) + 1
              PROVE  s[i].key < key
          <6>1. i = Cur(p) + 1 \/ s[i].key < s[Cur(p) + 1].key
            BY <1>1, <1>2, <3>1, <5>1
          <6> QED BY <1>1, <3>1, <3>3, <6>1
        <5> QED BY <5>1
      <4> QED BY <3>1, <4>1, <4>2
    <3> QED BY <3>1, <3>2, <3>3
  <2> QED BY <2>1
<1>9. <<0, Len(s)>> \in P
  BY <1>1
<1>10. skiparray_bsearch(s, key) = between[<<0, Len(s)>>]
  BY DEF skiparray_bsearch
<1>11. PICK d \in P : d \in D /\ between[<<0, Len(s)>>] = out[d]
  <2> HIDE DEF S, D, out, step, rank, P, between
  <2> QED BY <1>4, <1>7, <1>8, <1>9, LoopEnds
<1> HIDE DEF between
<1>12. at = out[d] /\ d[1] \in Nat /\ d[2] \in Nat /\ d[1] <= d[2] /\ d[2] <= Len(s)
  BY <1>1, <1>10, <1>11
<1>13. CASE d[1] >= d[2]
  <2>1. at = [found |-> FALSE, index |-> d[1]] /\ d[1] = d[2]
    BY <1>12, <1>13
  <2> QED BY <1>1, <1>11, <1>12, <2>1 DEF Splits
<1>14. CASE d[1] < d[2]
  <2>1. at = [found |-> TRUE, index |-> Cur(d)] /\ s[Cur(d) + 1].key = key
    BY <1>11, <1>12, <1>14
  <2>2. Cur(d) \in Nat /\ Cur(d) < d[2] /\ Cur(d) + 1 \in 1 .. Len(s)
    BY <1>3, <1>12, <1>14
  <2> QED BY <1>1, <1>12, <2>1, <2>2
<1> QED BY <1>12, <1>13, <1>14

Sound(a, r) == Formed(a, r) /\ Ordered(a, r) /\ Filled(a)

\* What the shape says of the ranks, the levels and the links.
LEMMA FormedFacts ==
  ASSUME NEW a, NEW r, Formed(a, r)
  PROVE  /\ a \in SkipArrays /\ DOMAIN a.heap \subseteq Nat /\ NULL \notin DOMAIN a.heap
         /\ \A n \in DOMAIN a.heap : n # NULL /\ r[n] \in Nat
         /\ \A m, n \in DOMAIN a.heap : r[m] = r[n] => m = n
         /\ OnLevel(a, 0) = DOMAIN a.heap /\ 0 \in LevelSet
         /\ a.height \in 1 .. MaxLevel
         /\ \A l \in LevelSet : OnLevel(a, l) \subseteq DOMAIN a.heap
         /\ \A l \in LevelSet : \A p \in {NULL} \cup OnLevel(a, l) :
              Follows(r, OnLevel(a, l), p, After(a, p, l))
<1>1. a \in SkipArrays
  BY DEF Formed
<1>2. \A l \in LevelSet : \A p \in {NULL} \cup OnLevel(a, l) :
        Follows(r, OnLevel(a, l), p, After(a, p, l))
  BY DEF Formed, Linked, Chained, Hops
<1>3. OnLevel(a, 0) = DOMAIN a.heap /\ 0 \in LevelSet
  BY <1>1, LevelZeroIsAll
<1> QED BY <1>1, <1>2, <1>3, ArrayParts DEF Formed, Ranks, OnLevel

\* What the order says of the last keys.
LEMMA LastKeys ==
  ASSUME NEW a, NEW r, a \in SkipArrays, Ordered(a, r),
         NEW n \in DOMAIN a.heap, Count(a, n) > 0
  PROVE  /\ LastKey(a, n) \in Nat /\ Count(a, n) \in DOMAIN a.heap[n].pairs
         /\ a.heap[n].pairs[Count(a, n)].key = LastKey(a, n)
         /\ \A i \in DOMAIN a.heap[n].pairs : a.heap[n].pairs[i].key <= LastKey(a, n)
         /\ \A m \in DOMAIN a.heap : r[m] < r[n] =>
              \A i \in DOMAIN a.heap[m].pairs : a.heap[m].pairs[i].key < LastKey(a, n)
         /\ \A m \in DOMAIN a.heap : r[n] < r[m] =>
              \A i \in DOMAIN a.heap[m].pairs : a.heap[m].pairs[i].key > LastKey(a, n)
<1> DEFINE s == a.heap[n].pairs
           c == Count(a, n)
<1>1. /\ c \in Nat /\ DOMAIN s = 1 .. c /\ \A i \in 1 .. c : s[i].key \in Nat
      /\ c \in DOMAIN s /\ LastKey(a, n) = s[c].key
  BY PairsType DEF LastKey
<1>2. ASSUME NEW i \in DOMAIN s
      PROVE  s[i].key <= LastKey(a, n)
  <2>1. i = c \/ i < c
    BY <1>1
  <2>2. i < c => s[i].key < s[c].key
    BY <1>1 DEF Ordered, Ascending
  <2> QED BY <1>1, <2>1, <2>2
<1>3. ASSUME NEW m \in DOMAIN a.heap, r[m] < r[n], NEW i \in DOMAIN a.heap[m].pairs
      PROVE  a.heap[m].pairs[i].key < LastKey(a, n)
  BY <1>1, <1>3 DEF Ordered, Below
<1>4. ASSUME NEW m \in DOMAIN a.heap, r[n] < r[m], NEW i \in DOMAIN a.heap[m].pairs
      PROVE  a.heap[m].pairs[i].key > LastKey(a, n)
  <2>1. LastKey(a, n) < a.heap[m].pairs[i].key
    BY <1>1, <1>4 DEF Ordered, Below
  <2>2. a.heap[m].pairs[i].key \in Nat
    BY PairsType
  <2> QED BY <1>1, <2>1, <2>2
<1> QED BY <1>1, <1>2, <1>3, <1>4

-----------------------------------------------------------------------------
(* The bindings. *)

Binds(a, p) == \E n \in DOMAIN a.heap : Contains(a.heap[n].pairs, p)

\* b has the bindings of a, the same with p, without p, or with q for p.
SameBindings(a, b) == \A x : Binds(b, x) <=> Binds(a, x)

Gains(a, b, p) == \A x : Binds(b, x) <=> Binds(a, x) \/ x = p

Loses(a, b, p) == \A x : Binds(b, x) <=> Binds(a, x) /\ x # p

Swaps(a, b, p, q) == \A x : Binds(b, x) <=> (Binds(a, x) /\ x # p) \/ x = q

\* No key is there twice.
LEMMA KeysOnce ==
  ASSUME NEW a, NEW r, Formed(a, r), Ordered(a, r),
         NEW m \in DOMAIN a.heap, NEW n \in DOMAIN a.heap,
         NEW i \in DOMAIN a.heap[m].pairs, NEW j \in DOMAIN a.heap[n].pairs,
         a.heap[m].pairs[i].key = a.heap[n].pairs[j].key
  PROVE  m = n /\ i = j
<1>1. /\ r[m] \in Nat /\ r[n] \in Nat /\ (r[m] = r[n] => m = n) /\ a \in SkipArrays
  BY FormedFacts
<1>2. /\ i \in Nat /\ j \in Nat /\ a.heap[m].pairs[i].key \in Nat
  BY <1>1, PairsType
<1>3. ~(r[m] < r[n]) /\ ~(r[n] < r[m])
  BY <1>2 DEF Ordered, Below
<1>4. m = n
  BY <1>1, <1>3
<1>5. ~(i < j) /\ ~(j < i)
  BY <1>2, <1>4 DEF Ordered, Ascending
<1> QED BY <1>2, <1>4, <1>5

-----------------------------------------------------------------------------
(* The search.                                                             *)

\* All keys before index of n are below key, all others above it.
GapAt(a, r, key, n, index) ==
  /\ Splits(a.heap[n].pairs, key, index)
  /\ \A m \in DOMAIN a.heap : \A i \in DOMAIN a.heap[m].pairs :
       /\ r[m] < r[n] => a.heap[m].pairs[i].key < key
       /\ r[m] > r[n] => a.heap[m].pairs[i].key > key

KeyAt(a, key, n, index) ==
  index + 1 \in DOMAIN a.heap[n].pairs /\ a.heap[n].pairs[index + 1].key = key

\* Of the end of a node and the start of the next, n and index are the one in
\* the less full node.
Preferred(a, n, index) ==
  /\ index = 0 => ~prefer_back(a, n)
  /\ index = Count(a, n) => \A x \in DOMAIN a.heap : a.heap[x].back = n => prefer_back(a, x)

\* What a look at all the keys would answer.
Answer(a, r, key, n, index, found) ==
  /\ n \in DOMAIN a.heap /\ index \in Nat /\ found \in BOOLEAN
  /\ IF found THEN KeyAt(a, key, n, index)
     ELSE GapAt(a, r, key, n, index) /\ Preferred(a, n, index)

\* While the search goes on it is behind all keys it has passed.
Searching(a, r, key, s) ==
  IF s.done THEN Answer(a, r, key, s.cur, s.index, s.found)
  ELSE /\ s.prev # NULL => LastKey(a, s.prev) < key
       /\ s.found => \E n \in DOMAIN a.heap : LastKey(a, n) = key

\* A turn of its loop ends it, or goes down, or goes on.
Onward(r, s, t) ==
  \/ t.done
  \/ t.level < s.level /\ t.prev = s.prev
  \/ t.level = s.level /\ t.prev # NULL /\ Behind(r, s.prev, t.prev)

TurnOK(a, r, key, s, t) ==
  /\ t \in SearchState(a) /\ Onward(r, s, t)
  /\ Searching(a, r, key, s) => Searching(a, r, key, t)

IsState(s) ==
  s = [level |-> s.level, prev |-> s.prev, cur |-> s.cur, index |-> s.index,
       found |-> s.found, done |-> s.done]

\* An assignment to one variable of the loop leaves a state of it.
LEMMA StateEdits ==
  ASSUME NEW s, IsState(s)
  PROVE  /\ \A v : IsState([s EXCEPT !.level = v]) /\ IsState([s EXCEPT !.prev = v])
         /\ \A v : IsState([s EXCEPT !.cur = v]) /\ IsState([s EXCEPT !.index = v])
         /\ \A v : IsState([s EXCEPT !.found = v]) /\ IsState([s EXCEPT !.done = v])
BY DEF IsState

\* Where the loop is before a turn.
LEMMA SearchPlace ==
  ASSUME NEW a, NEW r, Sound(a, r), NEW s \in SearchState(a), ~s.done
  PROVE  /\ s = [level |-> s.level, prev |-> s.prev, cur |-> s.cur, index |-> s.index,
                 found |-> s.found, done |-> FALSE]
         /\ s.level \in 0 .. a.height - 1 /\ s.level \in LevelSet
         /\ s.prev \in {NULL} \cup OnLevel(a, s.level)
         /\ s.cur \in OnLevel(a, s.level) /\ s.cur \in DOMAIN a.heap
         /\ s.cur = After(a, s.prev, s.level)
         /\ s.index \in Nat /\ s.found \in BOOLEAN
         /\ Behind(r, s.prev, s.cur)
         /\ \A n \in DOMAIN a.heap : Count(a, n) \in Nat /\ Count(a, n) > 0
<1>1. /\ a \in SkipArrays /\ a.height \in 1 .. MaxLevel /\ MaxLevel \in Nat
      /\ \A n \in DOMAIN a.heap : n # NULL /\ Count(a, n) \in Nat
  BY FormedFacts, PairsType, MaxLevelIs DEF Sound
<1>2. /\ s \in [level : 0 .. a.height - 1, prev : {NULL} \cup DOMAIN a.heap,
                cur : DOMAIN a.heap, index : Nat, found : BOOLEAN, done : BOOLEAN]
      /\ Count(a, s.cur) > 0 /\ s.prev \in {NULL} \cup OnLevel(a, s.level)
      /\ s.cur = After(a, s.prev, s.level)
  BY DEF SearchState
<1>3. s.level \in LevelSet
  BY <1>1, <1>2 DEF LevelSet
<1>4. Follows(r, OnLevel(a, s.level), s.prev, s.cur) /\ s.cur # NULL
  BY <1>1, <1>2, <1>3, FormedFacts DEF Sound
<1>5. s.cur \in OnLevel(a, s.level) /\ Behind(r, s.prev, s.cur)
  BY <1>4 DEF Follows
<1>6. \A n \in DOMAIN a.heap : Count(a, n) > 0
  <2>1. ASSUME NEW n \in DOMAIN a.heap, Count(a, n) = 0
        PROVE  FALSE
    <3>1. s.cur \in DOMAIN a.heap /\ DOMAIN a.heap = {n}
      BY <1>2, <2>1 DEF Sound, Filled
    <3> QED BY <1>2, <2>1, <3>1
  <2> QED BY <1>1, <2>1
<1>7. s = [level |-> s.level, prev |-> s.prev, cur |-> s.cur, index |-> s.index,
           found |-> s.found, done |-> FALSE]
  BY <1>2
<1> QED BY <1>1, <1>2, <1>3, <1>5, <1>6, <1>7

\* What is in front of cur is in front of prev, or it.
LEMMA SearchFront ==
  ASSUME NEW a, NEW r, Sound(a, r), NEW s \in SearchState(a), ~s.done, s.level = 0,
         NEW m \in DOMAIN a.heap, r[m] < r[s.cur]
  PROVE  s.prev # NULL /\ s.prev \in DOMAIN a.heap /\ r[m] <= r[s.prev]
<1>1. /\ s.prev \in {NULL} \cup DOMAIN a.heap /\ s.cur \in DOMAIN a.heap
      /\ s.cur = After(a, s.prev, 0) /\ s.cur # NULL /\ r[m] \in Nat
      /\ r[s.cur] \in Nat /\ (s.prev # NULL => r[s.prev] \in Nat)
  BY SearchPlace, FormedFacts DEF Sound
<1>2. Follows(r, DOMAIN a.heap, s.prev, s.cur)
  BY <1>1, FormedFacts DEF Sound
<1>3. Behind(r, s.prev, m) => r[s.cur] <= r[m]
  BY <1>1, <1>2 DEF Follows
<1> QED BY <1>1, <1>3 DEF Behind

\* Down by some levels: prev stays where it is.
LEMMA DescendGoes ==
  ASSUME NEW a, NEW r, Sound(a, r), NEW key \in Nat, NEW s \in SearchState(a), ~s.done,
         NEW l \in 0 .. s.level - 1, NEW i \in Nat, NEW f \in BOOLEAN,
         NEW t, t = [s EXCEPT !.level = l, !.cur = After(a, s.prev, l),
                              !.index = i, !.found = f],
         f => s.found \/ \E n \in DOMAIN a.heap : LastKey(a, n) = key
  PROVE  TurnOK(a, r, key, s, t)
<1>1. /\ s = [level |-> s.level, prev |-> s.prev, cur |-> s.cur, index |-> s.index,
              found |-> s.found, done |-> FALSE]
      /\ s.level \in 0 .. a.height - 1 /\ s.level \in LevelSet
      /\ s.prev \in {NULL} \cup OnLevel(a, s.level)
      /\ s.cur \in OnLevel(a, s.level)
      /\ Behind(r, s.prev, s.cur)
      /\ \A n \in DOMAIN a.heap : Count(a, n) \in Nat /\ Count(a, n) > 0
  BY SearchPlace
<1>2. a \in SkipArrays /\ a.height \in 1 .. MaxLevel /\ MaxLevel \in Nat
  BY FormedFacts, MaxLevelIs DEF Sound
<1>3. l \in LevelSet /\ l < s.level /\ l \in 0 .. a.height - 1
  BY <1>1, <1>2 DEF LevelSet
<1>4. OnLevel(a, s.level) \subseteq OnLevel(a, l) /\ OnLevel(a, l) \subseteq DOMAIN a.heap
  BY <1>1, <1>2, <1>3, LevelsNest, FormedFacts DEF Sound
<1> DEFINE q == After(a, s.prev, l)
<1>5. q \in DOMAIN a.heap
  <2>1. Follows(r, OnLevel(a, l), s.prev, q)
    BY <1>1, <1>3, <1>4, FormedFacts DEF Sound
  <2> QED BY <1>1, <1>4, <2>1 DEF Follows
<1> HIDE DEF q
<1>6. t = [level |-> l, prev |-> s.prev, cur |-> q, index |-> i, found |-> f, done |-> FALSE]
  <2>1. /\ t.level = l /\ t.prev = s.prev /\ t.cur = q /\ t.index = i /\ t.found = f
        /\ t.done = FALSE
    BY <1>1 DEF q
  <2>2. t = [level |-> t.level, prev |-> t.prev, cur |-> t.cur, index |-> t.index,
             found |-> t.found, done |-> t.done]
    BY <1>1
  <2> QED BY <2>1, <2>2
<1>7. s.prev \in {NULL} \cup OnLevel(a, l) /\ s.prev \in {NULL} \cup DOMAIN a.heap
  BY <1>1, <1>4
<1>8. t \in SearchState(a)
  BY <1>1, <1>3, <1>5, <1>6, <1>7 DEF SearchState, q
<1>9. Onward(r, s, t)
  BY <1>3, <1>6 DEF Onward
<1>10. Searching(a, r, key, s) => Searching(a, r, key, t)
  BY <1>6 DEF Searching
<1> QED BY <1>8, <1>9, <1>10 DEF TurnOK

\* The turn that answers.
LEMMA DoneGoes ==
  ASSUME NEW a, NEW r, Sound(a, r), NEW key \in Nat, NEW s \in SearchState(a), ~s.done,
         NEW n \in DOMAIN a.heap, NEW i \in Nat, NEW f \in BOOLEAN,
         NEW t, t = [s EXCEPT !.cur = n, !.index = i, !.found = f, !.done = TRUE],
         Searching(a, r, key, s) => Answer(a, r, key, n, i, f)
  PROVE  TurnOK(a, r, key, s, t)
<1>1. /\ s = [level |-> s.level, prev |-> s.prev, cur |-> s.cur, index |-> s.index,
              found |-> s.found, done |-> FALSE]
      /\ s.level \in 0 .. a.height - 1
      /\ s.prev \in {NULL} \cup OnLevel(a, s.level)
  BY SearchPlace
<1>2. s.prev \in {NULL} \cup DOMAIN a.heap
  BY <1>1 DEF OnLevel
<1>3. t = [level |-> s.level, prev |-> s.prev, cur |-> n, index |-> i, found |-> f,
           done |-> TRUE]
  BY <1>1
<1>4. t \in SearchState(a)
  BY <1>1, <1>2, <1>3 DEF SearchState
<1> QED BY <1>3, <1>4 DEF TurnOK, Onward, Searching

\* The key is before the last key of cur.
LEMMA search_belowGoes ==
  ASSUME NEW a, NEW r, Sound(a, r), NEW key \in Nat, NEW s \in SearchState(a), ~s.done,
         key < LastKey(a, s.cur)
  PROVE  TurnOK(a, r, key, s, search_below(a, key, s))
<1>1. /\ s.level \in 0 .. a.height - 1
      /\ s.prev \in {NULL} \cup OnLevel(a, s.level)
      /\ s.cur \in DOMAIN a.heap /\ s.cur = After(a, s.prev, s.level)
      /\ s.index \in Nat /\ s.found \in BOOLEAN
      /\ s = [level |-> s.level, prev |-> s.prev, cur |-> s.cur, index |-> s.index,
              found |-> s.found, done |-> FALSE]
      /\ \A n \in DOMAIN a.heap : Count(a, n) \in Nat /\ Count(a, n) > 0
  BY SearchPlace
<1>2. IsState(s)
  BY <1>1 DEF IsState
<1>3. /\ a \in SkipArrays /\ Ordered(a, r) /\ NULL \notin DOMAIN a.heap
      /\ \A n \in DOMAIN a.heap : r[n] \in Nat
      /\ \A m, n \in DOMAIN a.heap : r[m] = r[n] => m = n
  BY FormedFacts DEF Sound
<1>4. CASE s.level > 0
  <2>1. search_below(a, key, s) = [s EXCEPT !.level = s.level - 1,
                                            !.cur = After(a, s.prev, s.level - 1)]
    BY <1>4 DEF search_below, search_descend
  <2> DEFINE t == [s EXCEPT !.level = s.level - 1, !.cur = After(a, s.prev, s.level - 1)]
             u == [s EXCEPT !.level = s.level - 1, !.cur = After(a, s.prev, s.level - 1),
                            !.index = s.index, !.found = s.found]
  <2>2. t = u
    <3>1. /\ t.level = u.level /\ t.prev = u.prev /\ t.cur = u.cur
          /\ t.index = u.index /\ t.found = u.found /\ t.done = u.done
      BY <1>1
    <3>2. IsState(t) /\ IsState(u)
      BY <1>2, StateEdits
    <3> HIDE DEF t, u
    <3> QED BY <3>1, <3>2 DEF IsState
  <2>3. s.level - 1 \in 0 .. s.level - 1
    BY <1>1, <1>4
  <2> HIDE DEF t
  <2>4. TurnOK(a, r, key, s, u)
    BY <1>1, <2>3, DescendGoes
  <2> QED BY <2>1, <2>2, <2>4 DEF t
<1>5. CASE s.level = 0
  <2> DEFINE at == skiparray_bsearch(a.heap[s.cur].pairs, key)
             back == a.heap[s.cur].back
             p == a.heap[s.cur].pairs
  <2>1. /\ p \in Seq(AllPairs) /\ Ascending(p) /\ Count(a, s.cur) > 0
        /\ DOMAIN p = 1 .. Len(p) /\ Len(p) \in Nat /\ Len(p) = Count(a, s.cur)
    BY <1>1, <1>3, PairsType DEF Ordered, Count
  <2>2. /\ at.found \in BOOLEAN /\ at.index \in 0 .. Len(p)
        /\ at.found => at.index + 1 \in DOMAIN p /\ p[at.index + 1].key = key
        /\ ~at.found => Splits(p, key, at.index)
    <3> HIDE DEF p
    <3> QED BY <2>1, skiparray_bsearchFinds DEF p
  <2> HIDE DEF at
  \* The keys of the other nodes.
  <2>3. ASSUME NEW m \in DOMAIN a.heap, r[s.cur] < r[m], NEW i \in DOMAIN a.heap[m].pairs
        PROVE  a.heap[m].pairs[i].key > key
    <3>1. a.heap[m].pairs[i].key > LastKey(a, s.cur) /\ LastKey(a, s.cur) \in Nat
          /\ a.heap[m].pairs[i].key \in Nat
      BY <1>1, <1>3, <2>1, <2>3, LastKeys, PairsType
    <3> QED BY <3>1
  <2>4. ASSUME Searching(a, r, key, s), NEW m \in DOMAIN a.heap, r[m] < r[s.cur],
               NEW i \in DOMAIN a.heap[m].pairs
        PROVE  a.heap[m].pairs[i].key < key
    <3>1. s.prev # NULL /\ s.prev \in DOMAIN a.heap /\ r[m] <= r[s.prev]
      BY <1>5, <2>4, SearchFront
    <3>2. LastKey(a, s.prev) < key
      BY <2>4, <3>1 DEF Searching
    <3>3. Count(a, s.prev) > 0 /\ LastKey(a, s.prev) \in Nat
          /\ a.heap[m].pairs[i].key \in Nat
      BY <1>1, <1>3, <3>1, LastKeys, PairsType
    <3>4. a.heap[m].pairs[i].key <= LastKey(a, s.prev)
      <4>1. CASE m = s.prev
        BY <1>3, <3>1, <3>3, <4>1, LastKeys
      <4>2. CASE m # s.prev
        <5>1. r[m] < r[s.prev]
          BY <1>3, <3>1, <4>2
        <5>2. a.heap[m].pairs[i].key < LastKey(a, s.prev)
          BY <1>3, <3>1, <3>3, <5>1, LastKeys
        <5> QED BY <3>3, <5>2
      <4> QED BY <4>1, <4>2
    <3> QED BY <3>2, <3>3, <3>4
  <2>5. CASE ~at.found /\ at.index = 0 /\ prefer_back(a, s.cur)
    <3>1. search_below(a, key, s) = [s EXCEPT !.cur = back, !.index = Count(a, back), !.done = TRUE]
      BY <1>1, <1>5, <2>5 DEF search_below, at
    <3> DEFINE t == [s EXCEPT !.cur = back, !.index = Count(a, back), !.done = TRUE]
               u == [s EXCEPT !.cur = back, !.index = Count(a, back),
                              !.found = s.found, !.done = TRUE]
    <3>2. t = u
      <4>1. /\ t.level = u.level /\ t.prev = u.prev /\ t.cur = u.cur
            /\ t.index = u.index /\ t.found = u.found /\ t.done = u.done
        BY <1>1
      <4>2. IsState(t) /\ IsState(u)
        BY <1>2, StateEdits
      <4> HIDE DEF t, u
      <4> QED BY <4>1, <4>2 DEF IsState
    <3>3. InFront(r, DOMAIN a.heap, back, s.cur) /\ back # NULL
      BY <1>1, <2>5 DEF Sound, Formed, Backed, prefer_back
    <3>4. back \in DOMAIN a.heap /\ r[back] < r[s.cur]
          /\ \A m \in DOMAIN a.heap : r[m] < r[s.cur] => r[m] <= r[back]
      BY <3>3 DEF InFront, Behind
    <3> DEFINE q == a.heap[back].pairs
    <3>5. /\ Len(q) = Count(a, back) /\ Count(a, back) \in Nat
          /\ DOMAIN q = 1 .. Len(q)
      BY <1>3, <3>4, PairsType DEF Count
    <3>6. ASSUME Searching(a, r, key, s)
          PROVE  ~s.found /\ GapAt(a, r, key, back, Count(a, back))
      <4>1. Splits(q, key, Count(a, back))
        <5>1. \A i \in DOMAIN q : i \in 1 .. Len(q) /\ q[i].key < key
          BY <2>4, <3>4, <3>5, <3>6
        <5>2. \A i \in 1 .. Len(q) : i <= Count(a, back) /\ ~(i > Count(a, back))
          BY <3>5
        <5>3. Count(a, back) \in 0 .. Len(q)
          BY <3>5
        <5> HIDE DEF q
        <5> QED BY <5>1, <5>2, <5>3 DEF Splits
      <4>2. ASSUME NEW i \in DOMAIN p
            PROVE  p[i].key > key
        BY <2>1, <2>2, <2>5, <4>2 DEF Splits
      <4>3. ASSUME NEW m \in DOMAIN a.heap, NEW i \in DOMAIN a.heap[m].pairs
            PROVE  /\ r[m] < r[back] => a.heap[m].pairs[i].key < key
                   /\ r[m] > r[back] => a.heap[m].pairs[i].key > key
        <5>1. r[m] \in Nat /\ r[back] \in Nat /\ r[s.cur] \in Nat
          BY <1>1, <1>3, <3>4
        <5>2. CASE r[m] < r[back]
          <6>1. r[m] < r[s.cur]
            BY <3>4, <5>1, <5>2
          <6> QED BY <2>4, <3>6, <5>1, <5>2, <6>1
        <5>3. CASE r[m] > r[back]
          <6>1. m = s.cur \/ r[s.cur] < r[m]
            BY <1>1, <1>3, <3>4, <5>1, <5>3
          <6> QED BY <2>3, <4>2, <5>1, <5>3, <6>1
        <5> QED BY <5>2, <5>3
      <4>4. GapAt(a, r, key, back, Count(a, back))
        BY <4>1, <4>3 DEF GapAt
      <4>5. ~s.found
        <5>1. SUFFICES ASSUME s.found PROVE FALSE
          BY <1>1
        <5>2. PICK n \in DOMAIN a.heap : LastKey(a, n) = key
          BY <1>1, <3>6, <5>1 DEF Searching
        <5>3. /\ Count(a, n) \in DOMAIN a.heap[n].pairs
              /\ a.heap[n].pairs[Count(a, n)].key = key
          BY <1>1, <1>3, <5>2, LastKeys
        <5>4. r[n] \in Nat /\ r[s.cur] \in Nat
          BY <1>1, <1>3
        <5>5. CASE r[n] < r[s.cur]
          BY <2>4, <3>6, <5>3, <5>5
        <5>6. CASE r[s.cur] < r[n]
          BY <2>3, <5>3, <5>6
        <5>7. CASE n = s.cur
          BY <4>2, <5>3, <5>7
        <5> QED BY <1>1, <1>3, <5>4, <5>5, <5>6, <5>7
      <4> QED BY <4>4, <4>5
    <3>9. Preferred(a, back, Count(a, back))
      <4>1. Count(a, back) # 0
        BY <1>1, <3>4
      <4>2. ASSUME NEW x \in DOMAIN a.heap, a.heap[x].back = back
            PROVE  x = s.cur
        <5>1. InFront(r, DOMAIN a.heap, back, x)
          BY <4>2 DEF Sound, Formed, Backed
        <5>2. r[back] < r[x] /\ \A m \in DOMAIN a.heap : r[m] < r[x] => r[m] <= r[back]
          BY <3>3, <5>1 DEF InFront, Behind
        <5>3. r[x] \in Nat /\ r[back] \in Nat /\ r[s.cur] \in Nat
          BY <1>1, <1>3, <3>4
        <5>4. ~(r[x] < r[s.cur]) /\ ~(r[s.cur] < r[x])
          BY <1>1, <3>4, <5>2, <5>3
        <5> QED BY <1>1, <1>3, <5>3, <5>4
      <4> QED BY <2>5, <4>1, <4>2 DEF Preferred
    <3> HIDE DEF back, t
    <3>7. Searching(a, r, key, s) => Answer(a, r, key, back, Count(a, back), s.found)
      BY <1>1, <3>4, <3>5, <3>6, <3>9 DEF Answer
    <3>8. TurnOK(a, r, key, s, u)
      BY <1>1, <3>4, <3>5, <3>7, DoneGoes
    <3> QED BY <3>1, <3>2, <3>8 DEF t
  <2>6. CASE ~(~at.found /\ at.index = 0 /\ prefer_back(a, s.cur))
    <3>1. search_below(a, key, s)
            = [s EXCEPT !.index = at.index, !.found = at.found, !.done = TRUE]
      BY <1>1, <1>5, <2>6 DEF search_below, at
    <3> DEFINE t == [s EXCEPT !.index = at.index, !.found = at.found, !.done = TRUE]
               u == [s EXCEPT !.cur = s.cur, !.index = at.index,
                              !.found = at.found, !.done = TRUE]
    <3>2. t = u
      <4>1. /\ t.level = u.level /\ t.prev = u.prev /\ t.cur = u.cur
            /\ t.index = u.index /\ t.found = u.found /\ t.done = u.done
        BY <1>1
      <4>2. IsState(t) /\ IsState(u)
        BY <1>2, StateEdits
      <4> HIDE DEF t, u
      <4> QED BY <4>1, <4>2 DEF IsState
    <3>3. ASSUME Searching(a, r, key, s), ~at.found
          PROVE  GapAt(a, r, key, s.cur, at.index)
      <4>1. ASSUME NEW m \in DOMAIN a.heap, NEW i \in DOMAIN a.heap[m].pairs
            PROVE  /\ r[m] < r[s.cur] => a.heap[m].pairs[i].key < key
                   /\ r[m] > r[s.cur] => a.heap[m].pairs[i].key > key
        <5>1. r[m] \in Nat /\ r[s.cur] \in Nat
          BY <1>1, <1>3
        <5> QED BY <2>3, <2>4, <3>3, <5>1
      <4> QED BY <2>2, <3>3, <4>1 DEF GapAt
    <3>7. ASSUME ~at.found PROVE Preferred(a, s.cur, at.index)
      <4>1. Len(p) \in DOMAIN p /\ p[Len(p)].key = LastKey(a, s.cur) /\ LastKey(a, s.cur) \in Nat
        BY <1>1, <1>3, <2>1, LastKeys
      <4>2. at.index # Count(a, s.cur)
        BY <2>1, <2>2, <3>7, <4>1 DEF Splits
      <4> QED BY <2>6, <3>7, <4>2 DEF Preferred
    <3>4. Searching(a, r, key, s) => Answer(a, r, key, s.cur, at.index, at.found)
      BY <1>1, <2>1, <2>2, <3>3, <3>7 DEF Answer, KeyAt
    <3> HIDE DEF t
    <3>5. at.index \in Nat
      BY <2>1, <2>2
    <3>6. TurnOK(a, r, key, s, u)
      BY <1>1, <2>2, <3>4, <3>5, DoneGoes
    <3> QED BY <3>1, <3>2, <3>6 DEF t
  <2> QED BY <2>5, <2>6
<1> QED BY <1>1, <1>4, <1>5

\* Down by one level, and nothing else.
LEMMA search_descendGoes ==
  ASSUME NEW a, NEW r, Sound(a, r), NEW key \in Nat, NEW s \in SearchState(a), ~s.done,
         s.level # 0
  PROVE  TurnOK(a, r, key, s, search_descend(a, s))
<1>1. /\ s.level \in 0 .. a.height - 1 /\ s.index \in Nat /\ s.found \in BOOLEAN
      /\ s = [level |-> s.level, prev |-> s.prev, cur |-> s.cur, index |-> s.index,
              found |-> s.found, done |-> FALSE]
  BY SearchPlace
<1>2. IsState(s)
  BY <1>1 DEF IsState
<1> DEFINE t == [s EXCEPT !.level = s.level - 1, !.cur = After(a, s.prev, s.level - 1)]
           u == [s EXCEPT !.level = s.level - 1, !.cur = After(a, s.prev, s.level - 1),
                          !.index = s.index, !.found = s.found]
<1>3. t = u
  <2>1. /\ t.level = u.level /\ t.prev = u.prev /\ t.cur = u.cur
        /\ t.index = u.index /\ t.found = u.found /\ t.done = u.done
    BY <1>1
  <2>2. IsState(t) /\ IsState(u)
    BY <1>2, StateEdits
  <2> HIDE DEF t, u
  <2> QED BY <2>1, <2>2 DEF IsState
<1>4. s.level - 1 \in 0 .. s.level - 1
  BY <1>1
<1> HIDE DEF t
<1>5. TurnOK(a, r, key, s, u)
  BY <1>1, <1>4, DescendGoes
<1>6. search_descend(a, s) = t
  BY DEF search_descend, t
<1> QED BY <1>3, <1>5, <1>6

\* The key is after the last key of cur.
LEMMA search_aboveGoes ==
  ASSUME NEW a, NEW r, Sound(a, r), NEW key \in Nat, NEW s \in SearchState(a), ~s.done,
         key > LastKey(a, s.cur)
  PROVE  TurnOK(a, r, key, s, search_above(a, key, s))
<1>1. /\ s.level \in 0 .. a.height - 1 /\ s.level \in LevelSet
      /\ s.prev \in {NULL} \cup OnLevel(a, s.level)
      /\ s.cur \in OnLevel(a, s.level)
      /\ s.cur \in DOMAIN a.heap /\ s.cur = After(a, s.prev, s.level)
      /\ s.index \in Nat /\ s.found \in BOOLEAN /\ Behind(r, s.prev, s.cur)
      /\ s = [level |-> s.level, prev |-> s.prev, cur |-> s.cur, index |-> s.index,
              found |-> s.found, done |-> FALSE]
      /\ \A n \in DOMAIN a.heap : Count(a, n) \in Nat /\ Count(a, n) > 0
  BY SearchPlace
<1>2. IsState(s)
  BY <1>1 DEF IsState
<1>3. /\ a \in SkipArrays /\ Ordered(a, r) /\ NULL \notin DOMAIN a.heap
      /\ \A n \in DOMAIN a.heap : r[n] \in Nat
      /\ \A m, n \in DOMAIN a.heap : r[m] = r[n] => m = n
      /\ a.height \in 1 .. MaxLevel
  BY FormedFacts DEF Sound
<1>4. LastKey(a, s.cur) \in Nat /\ LastKey(a, s.cur) < key
  BY <1>1, <1>3, LastKeys
<1> DEFINE next == After(a, s.cur, s.level)
           lower == {l \in 0 .. s.level - 1 :
                       l = 0 \/ a.heap[s.prev].fwd[l] \notin {NULL, s.cur}}
<1>5. Follows(r, OnLevel(a, s.level), s.cur, next)
      /\ OnLevel(a, s.level) \subseteq DOMAIN a.heap
  BY <1>1, FormedFacts DEF Sound
<1>6. a.heap[s.cur].fwd[s.level] = next
  BY <1>1, <1>3 DEF After
<1>7. CASE next # NULL
  <2> DEFINE t == [s EXCEPT !.prev = s.cur, !.cur = next]
  <2>1. search_above(a, key, s) = t
    BY <1>6, <1>7 DEF search_above
  <2>2. next \in OnLevel(a, s.level) /\ next \in DOMAIN a.heap
    BY <1>5, <1>7 DEF Follows
  <2> HIDE DEF next
  <2>3. /\ t.level = s.level /\ t.prev = s.cur /\ t.cur = next /\ t.index = s.index
        /\ t.found = s.found /\ t.done = FALSE
    BY <1>1
  <2>4. IsState(t)
    BY <1>2, StateEdits
  <2> HIDE DEF t
  <2>5. t = [level |-> s.level, prev |-> s.cur, cur |-> next, index |-> s.index,
             found |-> s.found, done |-> FALSE]
    BY <2>3, <2>4 DEF IsState
  <2>6. t \in SearchState(a)
    BY <1>1, <2>2, <2>3, <2>5 DEF SearchState, next
  <2>7. Onward(r, s, t)
    BY <1>1, <1>3, <2>3 DEF Onward
  <2>8. Searching(a, r, key, s) => Searching(a, r, key, t)
    BY <1>1, <1>4, <2>3 DEF Searching
  <2> QED BY <2>1, <2>6, <2>7, <2>8 DEF TurnOK
<1>8. CASE next = NULL /\ s.level = 0
  <2> DEFINE t == [s EXCEPT !.index = Count(a, s.cur), !.done = TRUE]
             u == [s EXCEPT !.cur = s.cur, !.index = Count(a, s.cur),
                            !.found = s.found, !.done = TRUE]
  <2>1. search_above(a, key, s) = t
    BY <1>6, <1>8 DEF search_above
  <2>2. t = u
    <3>1. /\ t.level = u.level /\ t.prev = u.prev /\ t.cur = u.cur
          /\ t.index = u.index /\ t.found = u.found /\ t.done = u.done
      BY <1>1
    <3>2. IsState(t) /\ IsState(u)
      BY <1>2, StateEdits
    <3> HIDE DEF t, u
    <3> QED BY <3>1, <3>2 DEF IsState
  <2>3. \A m \in DOMAIN a.heap : r[m] <= r[s.cur]
    <3>1. OnLevel(a, 0) = DOMAIN a.heap
      BY <1>3, LevelZeroIsAll
    <3>2. \A m \in DOMAIN a.heap : ~Behind(r, s.cur, m)
      BY <1>3, <1>5, <1>8, <3>1 DEF Follows
    <3> QED BY <1>1, <1>3, <3>2 DEF Behind
  <2>4. ASSUME NEW m \in DOMAIN a.heap, NEW i \in DOMAIN a.heap[m].pairs
        PROVE  a.heap[m].pairs[i].key < key
    <3>1. a.heap[m].pairs[i].key \in Nat
      BY <1>3, PairsType
    <3>2. m = s.cur \/ r[m] < r[s.cur]
      BY <1>1, <1>3, <2>3
    <3>3. a.heap[m].pairs[i].key <= LastKey(a, s.cur)
      <4>1. CASE m = s.cur
        BY <1>1, <1>3, <4>1, LastKeys
      <4>2. CASE r[m] < r[s.cur]
        <5>1. a.heap[m].pairs[i].key < LastKey(a, s.cur)
          BY <1>1, <1>3, <4>2, LastKeys
        <5> QED BY <1>4, <3>1, <5>1
      <4> QED BY <3>2, <4>1, <4>2
    <3> QED BY <1>4, <3>1, <3>3
  <2>5. GapAt(a, r, key, s.cur, Count(a, s.cur))
    <3>1. Splits(a.heap[s.cur].pairs, key, Count(a, s.cur))
      <4>1. /\ Len(a.heap[s.cur].pairs) = Count(a, s.cur)
            /\ DOMAIN a.heap[s.cur].pairs = 1 .. Count(a, s.cur)
        BY <1>1, <1>3, PairsType DEF Count
      <4>2. \A i \in 1 .. Count(a, s.cur) : ~(i > Count(a, s.cur))
        BY <1>1
      <4>3. Count(a, s.cur) \in 0 .. Count(a, s.cur)
        BY <1>1
      <4> QED BY <1>1, <2>4, <4>1, <4>2, <4>3 DEF Splits
    <3>2. \A m \in DOMAIN a.heap : ~(r[m] > r[s.cur])
      BY <1>1, <1>3, <2>3
    <3> QED BY <2>4, <3>1, <3>2 DEF GapAt
  <2>6. Searching(a, r, key, s) => ~s.found
    <3>1. SUFFICES ASSUME Searching(a, r, key, s), s.found PROVE FALSE
      OBVIOUS
    <3>2. PICK n \in DOMAIN a.heap : LastKey(a, n) = key
      BY <1>1, <3>1 DEF Searching
    <3>3. /\ Count(a, n) \in DOMAIN a.heap[n].pairs
          /\ a.heap[n].pairs[Count(a, n)].key = key
      BY <1>1, <1>3, <3>2, LastKeys
    <3>4. key < key
      BY <2>4, <3>3
    <3> QED BY <3>4
  <2>9. Preferred(a, s.cur, Count(a, s.cur))
    <3>1. Count(a, s.cur) # 0
      BY <1>1
    <3>2. ASSUME NEW x \in DOMAIN a.heap PROVE a.heap[x].back # s.cur
      <4>1. InFront(r, DOMAIN a.heap, a.heap[x].back, x)
        BY DEF Sound, Formed, Backed
      <4>2. a.heap[x].back = s.cur => r[s.cur] < r[x]
        BY <1>1, <1>3, <4>1 DEF InFront, Behind
      <4> QED BY <1>1, <1>3, <2>3, <4>2
    <3> QED BY <3>1, <3>2 DEF Preferred
  <2>7. Searching(a, r, key, s) => Answer(a, r, key, s.cur, Count(a, s.cur), s.found)
    BY <1>1, <2>5, <2>6, <2>9 DEF Answer
  <2> HIDE DEF t
  <2>8. TurnOK(a, r, key, s, u)
    BY <1>1, <2>7, DoneGoes
  <2> QED BY <2>1, <2>2, <2>8
<1>9. CASE next = NULL /\ s.level # 0 /\ s.prev = NULL
  <2>1. search_above(a, key, s) = search_descend(a, s)
    BY <1>6, <1>9 DEF search_above
  <2> QED BY <1>9, <2>1, search_descendGoes
<1>10. CASE next = NULL /\ s.level # 0 /\ s.prev # NULL
  <2> DEFINE M == Max(lower)
  <2>1. M \in lower
    <3>1. lower \in SUBSET (0 .. s.level - 1) /\ 0 \in lower /\ s.level - 1 \in Int
      BY <1>1, <1>10
    <3> HIDE DEF lower
    <3>2. lower # {} /\ 0 \in Int
      BY <3>1
    <3> QED BY <3>1, <3>2, GreatestIn
  <2> HIDE DEF M
  <2>2. M \in 0 .. s.level - 1
    BY <2>1
  <2>3. a.heap[s.prev].fwd[M] = After(a, s.prev, M)
    BY <1>10 DEF After
  <2> DEFINE t == [s EXCEPT !.level = M, !.cur = After(a, s.prev, M)]
             u == [s EXCEPT !.level = M, !.cur = After(a, s.prev, M),
                            !.index = s.index, !.found = s.found]
  <2>4. search_above(a, key, s) = t
    BY <1>6, <1>10, <2>3 DEF search_above, M
  <2>5. t = u
    <3>1. /\ t.level = u.level /\ t.prev = u.prev /\ t.cur = u.cur
          /\ t.index = u.index /\ t.found = u.found /\ t.done = u.done
      BY <1>1
    <3>2. IsState(t) /\ IsState(u)
      BY <1>2, StateEdits
    <3> HIDE DEF t, u
    <3> QED BY <3>1, <3>2 DEF IsState
  <2> HIDE DEF t
  <2>6. TurnOK(a, r, key, s, u)
    BY <1>1, <2>2, DescendGoes
  <2> QED BY <2>4, <2>5, <2>6
<1> QED BY <1>7, <1>8, <1>9, <1>10

\* The key is the last key of cur.
LEMMA search_equalGoes ==
  ASSUME NEW a, NEW r, Sound(a, r), NEW key \in Nat, NEW s \in SearchState(a), ~s.done,
         key = LastKey(a, s.cur)
  PROVE  TurnOK(a, r, key, s, search_equal(a, key, s))
<1>1. /\ s.level \in 0 .. a.height - 1 /\ s.cur \in DOMAIN a.heap
      /\ s.index \in Nat /\ s.found \in BOOLEAN
      /\ s = [level |-> s.level, prev |-> s.prev, cur |-> s.cur, index |-> s.index,
              found |-> s.found, done |-> FALSE]
      /\ Count(a, s.cur) \in Nat /\ Count(a, s.cur) > 0
  BY SearchPlace
<1>2. IsState(s)
  BY <1>1 DEF IsState
<1> DEFINE i == Count(a, s.cur) - 1
           hit == [s EXCEPT !.found = TRUE, !.index = i]
<1>3. i \in Nat /\ i + 1 = Count(a, s.cur)
  BY <1>1
<1>4. Count(a, s.cur) \in DOMAIN a.heap[s.cur].pairs
      /\ a.heap[s.cur].pairs[Count(a, s.cur)].key = key
  BY <1>1, LastKeys, FormedFacts DEF Sound
<1>5. search_equal(a, key, s) = IF s.level = 0 THEN [hit EXCEPT !.done = TRUE]
                                              ELSE search_descend(a, hit)
  BY DEF search_equal
<1>6. /\ hit.level = s.level /\ hit.prev = s.prev /\ hit.cur = s.cur
      /\ hit.index = i /\ hit.found = TRUE /\ hit.done = FALSE /\ IsState(hit)
  <2>1. IsState(hit)
    BY <1>2, StateEdits
  <2> HIDE DEF i
  <2> QED BY <1>1, <2>1
<1> HIDE DEF hit, i
<1>7. CASE s.level = 0
  <2> DEFINE t == [hit EXCEPT !.done = TRUE]
             u == [s EXCEPT !.cur = s.cur, !.index = i, !.found = TRUE, !.done = TRUE]
  <2>1. t = u
    <3>1. /\ t.level = u.level /\ t.prev = u.prev /\ t.cur = u.cur
          /\ t.index = u.index /\ t.found = u.found /\ t.done = u.done
      BY <1>1, <1>6 DEF IsState
    <3>2. IsState(t) /\ IsState(u)
      BY <1>2, <1>6, StateEdits
    <3> HIDE DEF t, u
    <3> QED BY <3>1, <3>2 DEF IsState
  <2>2. Answer(a, r, key, s.cur, i, TRUE)
    BY <1>1, <1>3, <1>4 DEF Answer, KeyAt
  <2> HIDE DEF t
  <2>3. TurnOK(a, r, key, s, u)
    BY <1>1, <1>3, <2>2, DoneGoes
  <2> QED BY <1>5, <1>7, <2>1, <2>3 DEF t
<1>8. CASE s.level # 0
  <2> DEFINE l == s.level - 1
             t == [hit EXCEPT !.level = l, !.cur = After(a, s.prev, l)]
             u == [s EXCEPT !.level = l, !.cur = After(a, s.prev, l),
                            !.index = i, !.found = TRUE]
  <2>1. search_descend(a, hit) = t
    BY <1>6 DEF search_descend
  <2>2. t = u
    <3> HIDE DEF l
    <3>1. "level" \in DOMAIN hit /\ "cur" \in DOMAIN hit
      BY <1>6 DEF IsState
    <3>2. /\ t.level = u.level /\ t.prev = u.prev /\ t.cur = u.cur
          /\ t.index = u.index /\ t.found = u.found /\ t.done = u.done
      <4>1. t.level = l /\ t.cur = After(a, s.prev, l) /\ t.prev = s.prev
        BY <1>6, <3>1
      <4>2. t.index = i /\ t.found = TRUE /\ t.done = FALSE
        BY <1>6
      <4>3. u.level = l /\ u.cur = After(a, s.prev, l) /\ u.prev = s.prev
        BY <1>1
      <4>4. u.index = i /\ u.found = TRUE /\ u.done = FALSE
        BY <1>1
      <4> HIDE DEF t, u
      <4> QED BY <4>1, <4>2, <4>3, <4>4
    <3>3. IsState(t) /\ IsState(u)
      BY <1>2, <1>6, StateEdits
    <3> HIDE DEF t, u
    <3> QED BY <3>2, <3>3 DEF IsState
  <2>3. l \in 0 .. s.level - 1
    BY <1>1, <1>8
  <2> HIDE DEF t, l
  <2>4. TurnOK(a, r, key, s, u)
    BY <1>1, <1>3, <2>3, DescendGoes
  <2> QED BY <1>5, <1>8, <2>1, <2>2, <2>4
<1> QED BY <1>7, <1>8

\* Every turn of the loop of search.
LEMMA search_stepGoes ==
  ASSUME NEW a, NEW r, Sound(a, r), NEW key \in Nat, NEW s \in SearchState(a), ~s.done
  PROVE  TurnOK(a, r, key, s, search_step(a, key, s))
<1>1. LastKey(a, s.cur) \in Nat
  BY SearchPlace, LastKeys, FormedFacts DEF Sound
<1>2. CASE key < LastKey(a, s.cur)
  BY <1>2, search_belowGoes DEF search_step
<1>3. CASE key > LastKey(a, s.cur)
  <2>1. ~(key < LastKey(a, s.cur))
    BY <1>1, <1>3
  <2> QED BY <1>3, <2>1, search_aboveGoes DEF search_step
<1>4. CASE key = LastKey(a, s.cur)
  <2>1. ~(key < LastKey(a, s.cur)) /\ ~(key > LastKey(a, s.cur))
    BY <1>1, <1>4
  <2> QED BY <1>4, <2>1, search_equalGoes DEF search_step
<1> QED BY <1>1, <1>2, <1>3, <1>4

\* The search gives the answer a look at all the keys would.
LEMMA SearchFinds ==
  ASSUME NEW a, NEW r, Sound(a, r), NEW key \in Nat, NEW at, at = search(a, key)
  PROVE  Answer(a, r, key, at.n, at.index, at.found)
<1> DEFINE S == SearchState(a)
           D == {s \in S : s.done}
           out == [s \in S |-> s]
           step == [s \in S |-> search_step(a, key, s)]
           P == {s \in S : Searching(a, r, key, s)}
           Body(f) == [s \in S |-> IF s.done THEN s ELSE f[search_step(a, key, s)]]
           loop == CHOOSE f : f = Body(f)
           top == a.nodes[a.height - 1]
           start == [level |-> a.height - 1, prev |-> NULL, cur |-> top,
                     index |-> 0, found |-> FALSE, done |-> Count(a, top) = 0]
           end == loop[start]
<1>1. PICK K \in Nat : \A n \in DOMAIN a.heap : r[n] <= K
  BY DEF Sound, Formed, Ranks
<1>2. /\ a.height \in 1 .. MaxLevel /\ MaxLevel \in Nat /\ a \in SkipArrays
      /\ \A n \in DOMAIN a.heap : n # NULL /\ r[n] \in Nat
  BY FormedFacts, MaxLevelIs DEF Sound
<1>3. \A s \in S : s \notin D => TurnOK(a, r, key, s, step[s])
  BY search_stepGoes
<1>4. \A s \in S : /\ s.level \in 0 .. a.height - 1 /\ s.prev \in {NULL} \cup DOMAIN a.heap
                   /\ s.done \in BOOLEAN
  BY DEF SearchState
<1> DEFINE rank == [s \in S |->
                      IF s.done THEN 0
                      ELSE s.level + (IF s.prev = NULL THEN K + 2 ELSE K + 1 - r[s.prev])]
<1>5. Terminates(S, D, step, rank, MaxLevel + K + 2)
  <2> HIDE DEF step
  <2>1. \A s \in S : /\ ~s.done => rank[s] > 0
                     /\ rank[s] \in 0 .. MaxLevel + K + 2
    BY <1>1, <1>2, <1>4
  <2>2. rank \in [S -> 0 .. MaxLevel + K + 2]
    BY <2>1
  <2>3. ASSUME NEW s \in S, s \notin D
        PROVE  step[s] \in S /\ rank[step[s]] < rank[s]
    <3> DEFINE t == step[s]
    <3>1. t \in S /\ Onward(r, s, t) /\ ~s.done
      BY <1>3, <2>3 DEF TurnOK
    <3>2. rank[s] = s.level + (IF s.prev = NULL THEN K + 2 ELSE K + 1 - r[s.prev])
          /\ rank[s] > 0
      BY <2>1, <3>1
    <3> HIDE DEF t
    <3>3. CASE t.done
      BY <3>1, <3>2, <3>3 DEF t
    <3>4. CASE ~t.done
      <4>1. rank[t] = t.level + (IF t.prev = NULL THEN K + 2 ELSE K + 1 - r[t.prev])
        BY <3>1, <3>4
      <4>2. /\ s.level \in Int /\ t.level \in Int
            /\ s.prev # NULL => r[s.prev] \in Nat /\ r[s.prev] <= K
            /\ t.prev # NULL => r[t.prev] \in Nat /\ r[t.prev] <= K
        BY <1>1, <1>2, <1>4, <3>1
      <4> HIDE DEF rank, S, D
      <4>3. CASE t.level < s.level /\ t.prev = s.prev
        BY <3>1, <3>2, <4>1, <4>2, <4>3 DEF t
      <4>4. CASE t.level = s.level /\ t.prev # NULL /\ Behind(r, s.prev, t.prev)
        BY <3>1, <3>2, <4>1, <4>2, <4>4 DEF Behind, t
      <4> QED BY <3>1, <3>4, <4>3, <4>4 DEF Onward
    <3> QED BY <3>1, <3>3, <3>4 DEF t
  <2> HIDE DEF S, D, rank
  <2> QED BY <1>1, <1>2, <2>2, <2>3 DEF Terminates
<1> HIDE DEF rank
<1>6. ASSUME NEW f
      PROVE  f = Body(f) <=> Loops(f, S, D, out, step)
  <2>1. \A s \in S : (IF s.done THEN s ELSE f[search_step(a, key, s)])
                     = (IF s \in D THEN out[s] ELSE f[step[s]])
    OBVIOUS
  <2>2. Body(f) = [s \in S |-> IF s \in D THEN out[s] ELSE f[step[s]]]
    <3> HIDE DEF S, D, out, step
    <3> QED BY <2>1
  <2> HIDE DEF Body, S, D, out, step
  <2> QED BY <2>2 DEF Loops
<1>7. \E f : Loops(f, S, D, out, step)
  <2>1. out \in [S -> S]
    OBVIOUS
  <2> HIDE DEF S, D, out, step
  <2> QED BY <1>5, <2>1, LoopExists
<1>8. Loops(loop, S, D, out, step)
  <2> HIDE DEF Body, S, D, out, step
  <2> QED BY <1>6, <1>7
<1>9. search(a, key) = [n |-> end.cur, index |-> end.index, found |-> end.found]
  BY DEF search
<1> HIDE DEF loop
<1>10. P \in SUBSET S /\ \A s \in P : s \notin D => step[s] \in P
  BY <1>3 DEF TurnOK
<1>11. start \in P
  <2>1. a.height - 1 \in LevelSet /\ a.height - 1 \in 0 .. a.height - 1
        /\ a.height - 1 < a.height
    BY <1>2 DEF LevelSet
  <2>2. OnLevel(a, a.height - 1) # {}
    BY <2>1 DEF Sound, Formed, Tall
  <2>3. Follows(r, OnLevel(a, a.height - 1), NULL, top)
    <3>1. After(a, NULL, a.height - 1) = top
      BY DEF After
    <3> QED BY <2>1, <3>1, FormedFacts DEF Sound
  <2>4. top \in DOMAIN a.heap
    BY <2>2, <2>3, FormedFacts DEF Follows, Behind, Sound, OnLevel
  <2>5. /\ Count(a, top) \in Nat /\ Len(a.heap[top].pairs) = Count(a, top)
        /\ DOMAIN a.heap[top].pairs = 1 .. Count(a, top)
    BY <1>2, <2>4, PairsType DEF Count
  <2> HIDE DEF top
  <2>6. start \in S
    <3>1. Count(a, start.cur) > 0 \/ start.done
      <4>1. start.cur = top
        OBVIOUS
      <4>2. CASE Count(a, top) = 0
        BY <4>2
      <4>3. CASE Count(a, top) > 0
        BY <4>1, <4>3
      <4> QED BY <2>5, <4>2, <4>3
    <3>2. start.cur = After(a, start.prev, start.level)
      BY DEF After, top
    <3>3. start \in [level : 0 .. a.height - 1, prev : {NULL} \cup DOMAIN a.heap,
                     cur : DOMAIN a.heap, index : Nat, found : BOOLEAN, done : BOOLEAN]
      BY <2>1, <2>4
    <3>4. start.prev \in {NULL} \cup OnLevel(a, start.level)
      OBVIOUS
    <3> HIDE DEF start
    <3> QED BY <3>1, <3>2, <3>3, <3>4 DEF SearchState
  <2>7. Searching(a, r, key, start)
    <3>1. CASE Count(a, top) = 0
      <4>1. DOMAIN a.heap = {top}
        BY <2>4, <3>1 DEF Sound, Filled
      <4>2. a.heap[top].pairs = << >> /\ DOMAIN a.heap[top].pairs = {}
        BY <1>2, <2>4, <2>5, <3>1, PairsType DEF Count
      <4>3. GapAt(a, r, key, top, 0)
        BY <2>5, <3>1, <4>1, <4>2 DEF GapAt, Splits
      <4>5. Preferred(a, top, 0)
        <5>1. InFront(r, DOMAIN a.heap, a.heap[top].back, top)
          BY <2>4 DEF Sound, Formed, Backed
        <5>2. a.heap[top].back # top
          BY <1>2, <2>4, <5>1 DEF InFront, Behind
        <5>3. a.heap[top].back = NULL
          BY <4>1, <5>1, <5>2 DEF InFront
        <5> QED BY <4>1, <5>2, <5>3 DEF Preferred, prefer_back
      <4>4. Answer(a, r, key, top, 0, FALSE)
        BY <2>4, <4>3, <4>5 DEF Answer
      <4> QED BY <3>1, <4>4 DEF Searching
    <3>2. CASE Count(a, top) # 0
      BY <3>2 DEF Searching
    <3> QED BY <3>1, <3>2
  <2> QED BY <2>6, <2>7
<1>12. \E d \in P : d \in D /\ loop[start] = out[d]
  <2> HIDE DEF S, D, out, step, P, start
  <2> QED BY <1>5, <1>8, <1>10, <1>11, LoopEnds
<1>13. PICK d \in P : d.done /\ end = d
  BY <1>12
<1>14. Answer(a, r, key, d.cur, d.index, d.found)
  BY <1>13 DEF Searching
<1> HIDE DEF end
<1>15. at.n = d.cur /\ at.index = d.index /\ at.found = d.found
  BY <1>9, <1>13
<1> QED BY <1>14, <1>15

-----------------------------------------------------------------------------
(* Changes to the pairs of a node. *)

\* The shape is in the links, the heights and the back pointers.
LEMMA SameShape ==
  ASSUME NEW a, NEW r, Formed(a, r), NEW b \in SkipArrays, b.height = a.height,
         SameNodes(a, b), SameLinks(a, b), SameBacks(a, b)
  PROVE  Formed(b, r)
<1>1. DOMAIN b.heap = DOMAIN a.heap /\ \A l \in LevelSet : OnLevel(b, l) = OnLevel(a, l)
  BY OnLevelSame DEF SameNodes
<1>2. Ranks(r, DOMAIN b.heap)
  BY <1>1 DEF Formed
<1>3. ASSUME NEW l \in LevelSet
      PROVE  Chained(Hops(b, OnLevel(b, l), l), OnLevel(b, l), r)
  <2>1. Chained(Hops(a, OnLevel(a, l), l), OnLevel(a, l), r)
    BY DEF Formed, Linked
  <2>2. Hops(b, OnLevel(b, l), l) = Hops(a, OnLevel(a, l), l)
    BY <1>1 DEF Hops, SameLinks
  <2> QED BY <1>1, <2>1, <2>2
<1>4. Backed(b, r)
  BY <1>1 DEF Formed, Backed, SameBacks
<1>5. Tall(b)
  BY <1>1 DEF Formed, Tall
<1> QED BY <1>2, <1>3, <1>4, <1>5 DEF Formed, Linked

\* New pairs for one node.
LEMMA PairsReplaced ==
  ASSUME NEW a, NEW r, Formed(a, r), Ordered(a, r), NEW n \in DOMAIN a.heap, NEW s \in Seq(AllPairs),
         Ascending(s), Len(s) <= NodeSize,
         \A m \in DOMAIN a.heap : /\ r[m] < r[n] => Below(a.heap[m].pairs, s)
                                  /\ r[n] < r[m] => Below(s, a.heap[m].pairs),
         NEW b, b = SetPairs(a, n, s)
  PROVE  /\ Formed(b, r) /\ Ordered(b, r) /\ DOMAIN b.heap = DOMAIN a.heap
         /\ b.nodes = a.nodes
         /\ \A m \in DOMAIN a.heap :
              /\ b.heap[m].pairs = IF m = n THEN s ELSE a.heap[m].pairs
              /\ b.heap[m].fwd = a.heap[m].fwd /\ b.heap[m].back = a.heap[m].back
<1>1. a \in SkipArrays /\ \A m \in DOMAIN a.heap : r[m] \in Nat
  BY FormedFacts
<1>2. /\ b \in SkipArrays /\ b.height = a.height /\ b.nodes = a.nodes
      /\ SameNodes(a, b) /\ SameLinks(a, b) /\ SameBacks(a, b)
      /\ \A m \in DOMAIN a.heap :
           /\ b.heap[m].pairs = IF m = n THEN s ELSE a.heap[m].pairs
           /\ b.heap[m].fwd = a.heap[m].fwd
  BY <1>1, SetPairsEffect
<1>3. DOMAIN b.heap = DOMAIN a.heap /\ \A m \in DOMAIN a.heap : b.heap[m].back = a.heap[m].back
  BY <1>2 DEF SameNodes, SameBacks
<1>4. Formed(b, r)
  BY <1>2, SameShape
<1>5. \A m \in DOMAIN b.heap : Ascending(b.heap[m].pairs) /\ Count(b, m) <= NodeSize
  BY <1>2, <1>3 DEF Ordered, Count
<1>6. ASSUME NEW m \in DOMAIN b.heap, NEW q \in DOMAIN b.heap, r[m] < r[q]
      PROVE  Below(b.heap[m].pairs, b.heap[q].pairs)
  <2>1. ~(m = n /\ q = n)
    BY <1>1, <1>6
  <2>2. Below(a.heap[m].pairs, a.heap[q].pairs)
    BY <1>3, <1>6 DEF Ordered
  <2> QED BY <1>2, <1>3, <1>6, <2>1, <2>2
<1> QED BY <1>2, <1>3, <1>4, <1>5, <1>6 DEF Ordered

\* Only m may be empty.
RestFilled(a, m) == \A n \in DOMAIN a.heap : n # m => Count(a, n) # 0

\* A row of pairs with one put in.
LEMMA PairPutIn ==
  ASSUME NEW p \in Seq(AllPairs), NEW at \in 1 .. Len(p) + 1, NEW pair \in AllPairs,
         NEW s, s = InsertAt(p, at, pair)
  PROVE  s \in Seq(AllPairs) /\ PutIn(s, p, at, pair)
<1>1. InsertAt(p, at, pair) \in Seq(AllPairs) /\ PutIn(InsertAt(p, at, pair), p, at, pair)
  BY InsertAtPutsIn, Zenon
<1> QED BY <1>1

\* A pair put into a gap is in order there, whether or not the node has room.
LEMMA InsertedSorted ==
  ASSUME NEW a, NEW r, Formed(a, r), Sorted(a, r), NEW n \in DOMAIN a.heap,
         NEW pair \in AllPairs, NEW index, GapAt(a, r, pair.key, n, index),
         NEW b, b = insert_pair(a, n, index, pair)
  PROVE  /\ Formed(b, r) /\ Sorted(b, r) /\ DOMAIN b.heap = DOMAIN a.heap /\ b.nodes = a.nodes
         /\ Count(b, n) = Count(a, n) + 1
         /\ \A m \in DOMAIN a.heap : m # n => Count(b, m) = Count(a, m)
         /\ \A m \in DOMAIN a.heap : b.heap[m].fwd = a.heap[m].fwd
         /\ Gains(a, b, pair)
<1> DEFINE p == a.heap[n].pairs
           s == InsertAt(p, index + 1, pair)
<1>1. /\ a \in SkipArrays /\ p \in Seq(AllPairs) /\ Len(p) \in Nat /\ Len(p) = Count(a, n)
      /\ DOMAIN p = 1 .. Len(p) /\ \A i \in 1 .. Len(p) : p[i].key \in Nat
      /\ pair.key \in Nat
  BY PairsType, FormedFacts, KeysAreNumbers DEF Count
<1>2. /\ index \in Nat /\ index <= Len(p)
      /\ \A i \in 1 .. Len(p) : /\ i <= index => p[i].key < pair.key
                                /\ i > index => p[i].key > pair.key
  BY <1>1 DEF GapAt, Splits
<1>3. \A i, j \in 1 .. Len(p) : i < j => p[i].key < p[j].key
  BY <1>1 DEF Sorted, Ascending
<1>4. /\ s \in Seq(AllPairs) /\ Len(s) = Len(p) + 1
      /\ \A j \in 1 .. Len(p) + 1 : s[j] = IF j < index + 1 THEN p[j]
                                           ELSE IF j = index + 1 THEN pair ELSE p[j - 1]
  <2> DEFINE at == index + 1
  <2>1. p \in Seq(AllPairs) /\ at \in 1 .. Len(p) + 1 /\ pair \in AllPairs
    BY <1>1, <1>2
  <2>2. s = InsertAt(p, at, pair)
    OBVIOUS
  <2> HIDE DEF p, at, s
  <2>3. s \in Seq(AllPairs) /\ PutIn(s, p, at, pair)
    BY ONLY <2>1, <2>2, PairPutIn, Zenon
  <2> QED BY <2>3 DEF at, PutIn
<1> HIDE DEF s
<1>13. \A x : Contains(s, x) <=> Contains(p, x) \/ x = pair
  <2> DEFINE at == index + 1
  <2>1. p \in Seq(AllPairs) /\ at \in 1 .. Len(p) + 1 /\ PutIn(s, p, at, pair)
    BY <1>1, <1>2, <1>4 DEF PutIn
  <2> HIDE DEF p, at
  <2> QED BY ONLY <1>4, <2>1, ContainsPutIn
<1> HIDE DEF p
<1>5. DOMAIN s = 1 .. Len(p) + 1
  BY <1>4
<1>6. Ascending(s)
  <2>1. ASSUME NEW i \in 1 .. Len(p) + 1, NEW j \in 1 .. Len(p) + 1, i < j
        PROVE  s[i].key < s[j].key
    <3>1. CASE j < index + 1
      BY <1>1, <1>2, <1>3, <1>4, <2>1, <3>1
    <3>2. CASE j = index + 1
      <4>1. i \in 1 .. Len(p) /\ i <= index
        BY <1>1, <1>2, <2>1, <3>2
      <4>2. s[i] = p[i] /\ s[j] = pair
        BY <1>1, <1>2, <1>4, <3>2, <4>1
      <4> QED BY <1>2, <4>1, <4>2
    <3>3. CASE j > index + 1
      <4>1. j - 1 \in 1 .. Len(p) /\ j - 1 > index /\ s[j] = p[j - 1]
        BY <1>1, <1>2, <1>4, <2>1, <3>3
      <4>2. CASE i < index + 1
        <5>1. i \in 1 .. Len(p) /\ i < j - 1 /\ s[i] = p[i]
          BY <1>1, <1>2, <1>4, <2>1, <3>3, <4>2
        <5> QED BY <1>3, <4>1, <5>1
      <4>3. CASE i = index + 1
        <5>1. s[i] = pair
          BY <1>4, <4>3
        <5>2. p[j - 1].key > pair.key /\ p[j - 1].key \in Nat
          BY <1>1, <1>2, <4>1
        <5> QED BY <1>1, <4>1, <5>1, <5>2
      <4>4. CASE i > index + 1
        <5>1. i - 1 \in 1 .. Len(p) /\ i - 1 < j - 1 /\ s[i] = p[i - 1]
          BY <1>1, <1>2, <1>4, <2>1, <4>4
        <5> QED BY <1>3, <4>1, <5>1
      <4> QED BY <1>2, <4>2, <4>3, <4>4
    <3> QED BY <1>2, <3>1, <3>2, <3>3
  <2> QED BY <1>5, <2>1 DEF Ascending
<1>7. \A j \in DOMAIN s : s[j] = pair \/ \E i \in DOMAIN p : s[j] = p[i]
  <2>1. ASSUME NEW j \in 1 .. Len(p) + 1
        PROVE  s[j] = pair \/ \E i \in 1 .. Len(p) : s[j] = p[i]
    <3>1. CASE j < index + 1
      <4>1. j \in 1 .. Len(p) /\ s[j] = p[j]
        BY <1>1, <1>2, <1>4, <3>1
      <4> QED BY <4>1
    <3>2. CASE j > index + 1
      <4>1. j - 1 \in 1 .. Len(p) /\ s[j] = p[j - 1]
        BY <1>1, <1>2, <1>4, <3>2
      <4> QED BY <4>1
    <3>3. CASE j = index + 1
      BY <1>4, <3>3
    <3> QED BY <1>2, <3>1, <3>2, <3>3
  <2> QED BY <1>1, <1>5, <2>1
<1>8. ASSUME NEW m \in DOMAIN a.heap
      PROVE  /\ r[m] < r[n] => Below(a.heap[m].pairs, s)
             /\ r[n] < r[m] => Below(s, a.heap[m].pairs)
  <2>1. r[m] \in Nat /\ r[n] \in Nat
    BY FormedFacts
  <2>2. ASSUME NEW i \in DOMAIN a.heap[m].pairs, NEW j \in DOMAIN s
        PROVE  /\ r[m] < r[n] => a.heap[m].pairs[i].key < s[j].key
               /\ r[n] < r[m] => s[j].key < a.heap[m].pairs[i].key
    <3>1. /\ r[m] < r[n] => Below(a.heap[m].pairs, p)
          /\ r[n] < r[m] => Below(p, a.heap[m].pairs)
      BY DEF Sorted, p
    <3>2. /\ r[m] < r[n] => a.heap[m].pairs[i].key < pair.key
          /\ r[m] > r[n] => a.heap[m].pairs[i].key > pair.key
      BY DEF GapAt
    <3>3. a.heap[m].pairs[i].key \in Nat
      BY <1>1, PairsType
    <3> QED BY <1>1, <1>7, <2>1, <3>1, <3>2, <3>3 DEF Below
  <2> QED BY <2>2 DEF Below
<1>9. b = SetPairs(a, n, s)
  BY DEF insert_pair, SetPairs, s, p
<1>10. /\ b \in SkipArrays /\ b.height = a.height /\ b.nodes = a.nodes
       /\ SameNodes(a, b) /\ SameLinks(a, b) /\ SameBacks(a, b)
       /\ \A m \in DOMAIN a.heap :
            /\ b.heap[m].pairs = IF m = n THEN s ELSE a.heap[m].pairs
            /\ b.heap[m].fwd = a.heap[m].fwd
  BY <1>1, <1>4, <1>9, SetPairsEffect
<1>11. Formed(b, r) /\ DOMAIN b.heap = DOMAIN a.heap
  BY <1>10, SameShape DEF SameNodes
<1>12. Sorted(b, r)
  <2>1. ASSUME NEW m \in DOMAIN b.heap, NEW x \in DOMAIN b.heap, r[m] < r[x]
        PROVE  Below(b.heap[m].pairs, b.heap[x].pairs)
    <3>1. r[m] \in Nat /\ r[x] \in Nat /\ ~(m = n /\ x = n)
      BY <1>11, <2>1, FormedFacts
    <3>2. Below(a.heap[m].pairs, a.heap[x].pairs)
      BY <1>11, <2>1 DEF Sorted
    <3> QED BY <1>8, <1>10, <1>11, <2>1, <3>1, <3>2
  <2>2. \A m \in DOMAIN b.heap : Ascending(b.heap[m].pairs)
    BY <1>6, <1>10, <1>11 DEF Sorted
  <2> QED BY <2>1, <2>2 DEF Sorted
<1>15. /\ Count(b, n) = Count(a, n) + 1
       /\ \A m \in DOMAIN a.heap : m # n => Count(b, m) = Count(a, m)
  BY <1>1, <1>4, <1>10 DEF Count
<1>14. Gains(a, b, pair)
  <2> SUFFICES ASSUME NEW x
               PROVE  Binds(b, x) <=> Binds(a, x) \/ x = pair
    BY DEF Gains
  <2>1. Contains(s, x) <=> Contains(p, x) \/ x = pair
    BY <1>13
  <2> HIDE DEF s
  <2>2. /\ Binds(b, x) <=> \/ Contains(s, x)
                            \/ \E m \in DOMAIN a.heap : m # n /\ Contains(a.heap[m].pairs, x)
        /\ Binds(a, x) <=> \/ Contains(a.heap[n].pairs, x)
                            \/ \E m \in DOMAIN a.heap : m # n /\ Contains(a.heap[m].pairs, x)
    BY ONLY <1>10, <1>11, n \in DOMAIN a.heap DEF Binds
  <2> QED BY <2>1, <2>2 DEF p
<1> QED BY <1>10, <1>11, <1>12, <1>14, <1>15

\* A pair goes into a gap, of a node that may have been empty.
LEMMA InsertedInGap ==
  ASSUME NEW a, NEW r, Formed(a, r), Ordered(a, r), NEW n \in DOMAIN a.heap,
         RestFilled(a, n), NEW pair \in AllPairs,
         NEW index, GapAt(a, r, pair.key, n, index), Count(a, n) < NodeSize,
         NEW b, b = insert_pair(a, n, index, pair)
  PROVE  /\ Sound(b, r) /\ DOMAIN b.heap = DOMAIN a.heap /\ b.nodes = a.nodes
         /\ \A m \in DOMAIN a.heap : b.heap[m].fwd = a.heap[m].fwd
         /\ Gains(a, b, pair)
<1>1. Sorted(a, r) /\ a \in SkipArrays
  BY FormedFacts DEF Ordered, Sorted
<1>2. /\ Formed(b, r) /\ Sorted(b, r) /\ DOMAIN b.heap = DOMAIN a.heap /\ b.nodes = a.nodes
      /\ Count(b, n) = Count(a, n) + 1
      /\ \A m \in DOMAIN a.heap : m # n => Count(b, m) = Count(a, m)
      /\ \A m \in DOMAIN a.heap : b.heap[m].fwd = a.heap[m].fwd
      /\ Gains(a, b, pair)
  BY <1>1, InsertedSorted
<1>3. \A m \in DOMAIN a.heap : Count(a, m) \in Nat /\ Count(a, m) <= NodeSize
  BY <1>1, PairsType DEF Ordered
<1>4. NodeSize \in Nat
  BY SkipListAssumption
<1>5. \A m \in DOMAIN b.heap : Count(b, m) <= NodeSize
  BY <1>2, <1>3, <1>4
<1>6. Ordered(b, r)
  BY <1>2, <1>5 DEF Sorted, Ordered
<1>7. Filled(b)
  BY <1>2, <1>3 DEF RestFilled, Filled
<1> QED BY <1>2, <1>6, <1>7 DEF Sound

\* A pair goes where search says.
LEMMA InsertedSound ==
  ASSUME NEW a, NEW r, Sound(a, r), NEW n \in DOMAIN a.heap, NEW pair \in AllPairs,
         NEW index, GapAt(a, r, pair.key, n, index), Count(a, n) < NodeSize,
         NEW b, b = insert_pair(a, n, index, pair)
  PROVE  /\ Sound(b, r) /\ DOMAIN b.heap = DOMAIN a.heap /\ b.nodes = a.nodes
         /\ \A m \in DOMAIN a.heap : b.heap[m].fwd = a.heap[m].fwd
         /\ Gains(a, b, pair)
<1>1. RestFilled(a, n)
  BY DEF Sound, Filled, RestFilled
<1> QED BY <1>1, InsertedInGap DEF Sound

\* A pair goes away; the node may be left empty.
LEMMA RemovedOrdered ==
  ASSUME NEW a, NEW r, Sound(a, r), NEW n \in DOMAIN a.heap,
         NEW index \in 0 .. Count(a, n) - 1,
         NEW b, b = remove_pair(a, n, index)
  PROVE  /\ Formed(b, r) /\ Ordered(b, r) /\ DOMAIN b.heap = DOMAIN a.heap
         /\ b.nodes = a.nodes /\ Count(b, n) = Count(a, n) - 1
         /\ \A m \in DOMAIN a.heap : m # n => Count(b, m) \in Nat /\ Count(b, m) > 0
         /\ Loses(a, b, a.heap[n].pairs[index + 1])
<1> DEFINE p == a.heap[n].pairs
           s == RemoveAt(p, index + 1)
<1>1. /\ a \in SkipArrays /\ p \in Seq(AllPairs) /\ Len(p) \in Nat /\ Len(p) = Count(a, n)
      /\ DOMAIN p = 1 .. Len(p) /\ \A i \in 1 .. Len(p) : p[i].key \in Nat
      /\ NodeSize \in Nat
  BY PairsType, FormedFacts, SkipListAssumption DEF Sound, Count
<1>2. index \in Nat /\ index + 1 \in 1 .. Len(p)
  BY <1>1
<1>3. \A i, j \in 1 .. Len(p) : i < j => p[i].key < p[j].key
  BY <1>1 DEF Sound, Ordered, Ascending
<1>4. /\ s \in Seq(AllPairs) /\ Len(s) = Len(p) - 1
      /\ \A j \in 1 .. Len(p) - 1 : s[j] = IF j < index + 1 THEN p[j] ELSE p[j + 1]
  <2> HIDE DEF p
  <2> QED BY <1>1, <1>2, RemoveAtProperties
<1>14. \A x : Contains(s, x) <=> Contains(p, x) /\ x # p[index + 1]
  <2> DEFINE i == index + 1
  <2>1. p \in Seq(AllPairs) /\ i \in 1 .. Len(p) /\ s = RemoveAt(p, i)
    BY <1>1, <1>2
  <2>2. \A j \in 1 .. Len(p) : p[j] = p[i] => j = i
    <3>1. Formed(a, r) /\ Ordered(a, r)
      BY DEF Sound
    <3>2. \A j \in 1 .. Len(p) : p[j].key = p[i].key => j = i
      BY <1>1, <2>1, <3>1, KeysOnce
    <3> QED BY <3>2
  <2>3. \A x : Contains(s, x) <=> Contains(p, x) /\ x # p[i]
    <3> HIDE DEF p, s, i
    <3> QED BY ONLY <2>1, <2>2, ContainsRemoved
  <2> QED BY <2>3
<1> HIDE DEF p, s
<1>5. DOMAIN s = 1 .. Len(p) - 1
  BY <1>4
<1>6. Ascending(s)
  <2>1. ASSUME NEW i \in 1 .. Len(p) - 1, NEW j \in 1 .. Len(p) - 1, i < j
        PROVE  s[i].key < s[j].key
    <3>1. i \in 1 .. Len(p) /\ j \in 1 .. Len(p) /\ i + 1 \in 1 .. Len(p) /\ j + 1 \in 1 .. Len(p)
          /\ i < j + 1 /\ i + 1 < j + 1
      BY <1>1, <2>1
    <3> QED BY <1>3, <1>4, <2>1, <3>1
  <2> QED BY <1>5, <2>1 DEF Ascending
<1>7. \A j \in DOMAIN s : \E i \in DOMAIN p : s[j] = p[i]
  <2>1. ASSUME NEW j \in 1 .. Len(p) - 1
        PROVE  \E i \in 1 .. Len(p) : s[j] = p[i]
    <3>1. j \in 1 .. Len(p) /\ j + 1 \in 1 .. Len(p) /\ (s[j] = p[j] \/ s[j] = p[j + 1])
      BY <1>1, <1>4
    <3> QED BY <3>1
  <2> QED BY <1>1, <1>5, <2>1
<1>8. ASSUME NEW m \in DOMAIN a.heap
      PROVE  /\ r[m] < r[n] => Below(a.heap[m].pairs, s)
             /\ r[n] < r[m] => Below(s, a.heap[m].pairs)
  <2>1. /\ r[m] < r[n] => Below(a.heap[m].pairs, p)
        /\ r[n] < r[m] => Below(p, a.heap[m].pairs)
    BY DEF Sound, Ordered, p
  <2> QED BY <1>7, <2>1 DEF Below
<1>9. b = SetPairs(a, n, s)
  BY DEF remove_pair, SetPairs, s, p
<1>10. Len(s) <= NodeSize
  <2>1. Count(a, n) <= NodeSize
    BY DEF Sound, Ordered
  <2> QED BY <1>1, <1>4, <2>1
<1>11. /\ Formed(b, r) /\ Ordered(b, r) /\ DOMAIN b.heap = DOMAIN a.heap
       /\ b.nodes = a.nodes
       /\ \A m \in DOMAIN a.heap :
            b.heap[m].pairs = IF m = n THEN s ELSE a.heap[m].pairs
  BY <1>4, <1>6, <1>8, <1>9, <1>10, PairsReplaced DEF Sound
<1>12. Count(b, n) = Count(a, n) - 1
  BY <1>1, <1>4, <1>11 DEF Count
<1>13. ASSUME NEW m \in DOMAIN a.heap, m # n
       PROVE  Count(b, m) \in Nat /\ Count(b, m) > 0
  <2>1. Count(b, m) = Count(a, m) /\ Count(a, m) \in Nat
    BY <1>1, <1>11, <1>13, PairsType DEF Count
  <2>2. Count(a, m) # 0
    BY <1>13 DEF Sound, Filled
  <2> QED BY <2>1, <2>2
<1>15. Loses(a, b, p[index + 1])
  <2>1. ASSUME NEW m \in DOMAIN a.heap, m # n
        PROVE  ~Contains(a.heap[m].pairs, p[index + 1])
    <3>1. DOMAIN a.heap[m].pairs = 1 .. Len(a.heap[m].pairs)
      BY <1>1, PairsType DEF Count
    <3>2. Formed(a, r) /\ Ordered(a, r)
      BY DEF Sound
    <3>3. index + 1 \in DOMAIN a.heap[n].pairs
      BY <1>1, <1>2 DEF p
    <3>4. ASSUME NEW i \in DOMAIN a.heap[m].pairs
          PROVE  a.heap[m].pairs[i].key # a.heap[n].pairs[index + 1].key
      BY <2>1, <3>2, <3>3, KeysOnce
    <3> QED BY <3>1, <3>4 DEF Contains, p
  <2> SUFFICES ASSUME NEW x
               PROVE  Binds(b, x) <=> Binds(a, x) /\ x # p[index + 1]
    BY DEF Loses
  <2>2. Contains(s, x) <=> Contains(p, x) /\ x # p[index + 1]
    BY <1>14
  <2> HIDE DEF s
  <2>3. /\ Binds(b, x) <=> \/ Contains(s, x)
                            \/ \E m \in DOMAIN a.heap : m # n /\ Contains(a.heap[m].pairs, x)
        /\ Binds(a, x) <=> \/ Contains(a.heap[n].pairs, x)
                            \/ \E m \in DOMAIN a.heap : m # n /\ Contains(a.heap[m].pairs, x)
    BY ONLY <1>11, n \in DOMAIN a.heap DEF Binds
  <2> QED BY <2>1, <2>2, <2>3 DEF p
<1> QED BY <1>11, <1>12, <1>13, <1>15 DEF p

\* A pair is replaced by one with the same key.
Rebound(a, n, i, pair) == [a EXCEPT !.heap[n].pairs[i] = pair]

\* A pair takes the place of one with the same key.
LEMMA ReplacedSound ==
  ASSUME NEW a, NEW r, Sound(a, r), NEW n \in DOMAIN a.heap,
         NEW i \in DOMAIN a.heap[n].pairs, NEW pair \in AllPairs,
         pair.key = a.heap[n].pairs[i].key,
         NEW b, b = Rebound(a, n, i, pair)
  PROVE  Sound(b, r) /\ Swaps(a, b, a.heap[n].pairs[i], pair)
<1> DEFINE p == a.heap[n].pairs
           s == [p EXCEPT ![i] = pair]
<1>1. /\ a \in SkipArrays /\ p \in Seq(AllPairs) /\ Len(p) \in Nat /\ Len(p) = Count(a, n)
      /\ DOMAIN p = 1 .. Len(p)
  BY PairsType, FormedFacts DEF Sound, Count
<1>2. /\ s \in Seq(AllPairs) /\ Len(s) = Len(p) /\ DOMAIN s = DOMAIN p
  <2> HIDE DEF p
  <2> QED BY <1>1, ExceptSeq DEF p
<1>3. \A j \in DOMAIN p : s[j].key = p[j].key
  BY <1>1
<1>9. \A j \in DOMAIN p : s[j] = IF j = i THEN pair ELSE p[j]
  BY <1>1
<1> HIDE DEF s
<1>4. Ascending(s) /\ Len(s) <= NodeSize
  BY <1>1, <1>2, <1>3 DEF Sound, Ordered, Ascending, Count
<1>5. ASSUME NEW m \in DOMAIN a.heap
      PROVE  /\ r[m] < r[n] => Below(a.heap[m].pairs, s)
             /\ r[n] < r[m] => Below(s, a.heap[m].pairs)
  <2>1. /\ r[m] < r[n] => Below(a.heap[m].pairs, p)
        /\ r[n] < r[m] => Below(p, a.heap[m].pairs)
    BY DEF Sound, Ordered
  <2> QED BY <1>2, <1>3, <2>1 DEF Below
<1>6. b = SetPairs(a, n, s)
  BY DEF SetPairs, Rebound, s
<1>7. /\ Formed(b, r) /\ Ordered(b, r) /\ DOMAIN b.heap = DOMAIN a.heap
      /\ \A m \in DOMAIN a.heap :
           b.heap[m].pairs = IF m = n THEN s ELSE a.heap[m].pairs
  BY <1>2, <1>4, <1>5, <1>6, PairsReplaced DEF Sound
<1>8. \A m \in DOMAIN a.heap : Count(b, m) = Count(a, m)
  <2>1. b.heap[n].pairs = s /\ \A m \in DOMAIN a.heap : m # n => b.heap[m].pairs = a.heap[m].pairs
    BY <1>7
  <2>2. Count(b, n) = Count(a, n)
    BY <1>1, <1>2, <2>1 DEF Count
  <2> QED BY <2>1, <2>2 DEF Count
<1>10. ASSUME NEW m \in DOMAIN a.heap, NEW j \in DOMAIN a.heap[m].pairs,
              a.heap[m].pairs[j] = p[i]
       PROVE  m = n /\ j = i
  <2>1. Formed(a, r) /\ Ordered(a, r)
    BY DEF Sound
  <2> QED BY <1>10, <2>1, KeysOnce
<1>11. \A x : Contains(s, x) <=> (Contains(p, x) /\ x # p[i]) \/ x = pair
  <2>1. i \in 1 .. Len(p) /\ \A j \in 1 .. Len(p) : p[j] = p[i] => j = i
    BY <1>1, <1>10
  <2>2. \A j \in 1 .. Len(p) : s[j] = IF j = i THEN pair ELSE p[j]
    BY <1>1, <1>9
  <2> HIDE DEF p
  <2> QED BY <1>2, <2>1, <2>2 DEF Contains
<1>12. Swaps(a, b, p[i], pair)
  <2>1. ASSUME NEW m \in DOMAIN a.heap, m # n
        PROVE  ~Contains(a.heap[m].pairs, p[i])
    <3>1. DOMAIN a.heap[m].pairs = 1 .. Len(a.heap[m].pairs)
      BY <1>1, PairsType DEF Count
    <3> QED BY <1>10, <2>1, <3>1 DEF Contains
  <2> SUFFICES ASSUME NEW x
               PROVE  Binds(b, x) <=> (Binds(a, x) /\ x # p[i]) \/ x = pair
    BY DEF Swaps
  <2>2. Contains(s, x) <=> (Contains(p, x) /\ x # p[i]) \/ x = pair
    BY <1>11
  <2>3. /\ Binds(b, x) <=> \/ Contains(s, x)
                            \/ \E m \in DOMAIN a.heap : m # n /\ Contains(a.heap[m].pairs, x)
        /\ Binds(a, x) <=> \/ Contains(a.heap[n].pairs, x)
                            \/ \E m \in DOMAIN a.heap : m # n /\ Contains(a.heap[m].pairs, x)
    BY ONLY <1>7, n \in DOMAIN a.heap DEF Binds
  <2> QED BY <2>1, <2>2, <2>3 DEF p
<1> QED BY <1>7, <1>8, <1>12 DEF Sound, Filled

-----------------------------------------------------------------------------
(* A new node. *)

\* There is an address that is not in use,
LEMMA FreshNodeIsNew ==
  ASSUME NEW a \in SkipArrays
  PROVE  FreshNode(a) \in Nat \ {NULL} /\ FreshNode(a) \notin DOMAIN a.heap
<1> DEFINE N == DOMAIN a.heap
           C == Cardinality(N)
<1>1. IsFiniteSet(N) /\ C \in Nat
  BY ArrayParts, FS_CardinalityType
<1>2. \E n \in 1 .. C + 1 : n \notin N
  <2>1. SUFFICES ASSUME 1 .. C + 1 \subseteq N PROVE FALSE
    OBVIOUS
  <2> HIDE DEF N
  <2>2. Cardinality(1 .. C + 1) <= C
    BY <1>1, <2>1, FS_Subset
  <2>3. ASSUME NEW k \in Nat PROVE Cardinality(1 .. k + 1) = k + 1
    <3>1. Cardinality(1 .. k + 1) = IF 1 > k + 1 THEN 0 ELSE k + 1 - 1 + 1
      BY FS_Interval
    <3> QED BY <3>1
  <2>4. Cardinality(1 .. C + 1) = C + 1
    BY <1>1, <2>3
  <2> QED BY <1>1, <2>2, <2>4
<1> HIDE DEF C
<1>3. FreshNode(a) \in 1 .. C + 1 /\ FreshNode(a) \notin N
  BY <1>2 DEF FreshNode, C
<1> QED BY <1>1, <1>3 DEF NULL

\* where a node is allocated,
LEMMA node_allocEffect ==
  ASSUME NEW a \in SkipArrays, NEW n \in Nat \ {NULL}, n \notin DOMAIN a.heap,
         NEW x \in NodeRecords, NEW b, b = node_alloc(a, n, x)
  PROVE  /\ b \in SkipArrays /\ b.height = a.height /\ b.nodes = a.nodes
         /\ DOMAIN b.heap = DOMAIN a.heap \cup {n} /\ b.heap[n] = x
         /\ \A m \in DOMAIN a.heap : b.heap[m] = a.heap[m]
<1> DEFINE N == {n} \cup DOMAIN a.heap
           g == [m \in N |-> IF m = n THEN x ELSE a.heap[m]]
<1>1. N \in SUBSET (Nat \ {NULL}) /\ IsFiniteSet(N)
  BY ArrayParts, FS_AddElement
<1>2. g \in [N -> NodeRecords] /\ g[n] = x /\ \A m \in DOMAIN a.heap : g[m] = a.heap[m]
  BY ArrayParts
<1>3. b = [a EXCEPT !.heap = g]
  BY DEF node_alloc
<1> HIDE DEF g, N
<1>4. b \in SkipArrays /\ b.height = a.height /\ b.nodes = a.nodes /\ b.heap = g
  BY <1>1, <1>2, <1>3, HeapWith
<1>5. DOMAIN g = N
  BY <1>2
<1> QED BY <1>2, <1>4, <1>5 DEF N

\* There is room for a new rank behind any other one.
RoomBehind(r, s, N, n, x) ==
  /\ Ranks(s, N \cup {x}) /\ Ranks(s, N)
  /\ \A m, q \in N : s[m] < s[q] <=> r[m] < r[q]
  /\ s[n] < s[x] /\ \A m \in N : s[m] <= s[n] \/ s[x] < s[m]

\* and a rank for it right behind any node.
LEMMA RanksMakeRoom ==
  ASSUME NEW N, NEW r, Ranks(r, N), NEW n \in N, NEW x \in Nat \ {NULL}, x \notin N
  PROVE  \E s : RoomBehind(r, s, N, n, x)
<1>1. /\ N \subseteq Nat \ {NULL} /\ \A m \in N : r[m] \in Nat
      /\ \A m, q \in N : r[m] = r[q] => m = q
  BY DEF Ranks
<1>2. PICK K \in Nat : \A m \in N : r[m] <= K
  BY DEF Ranks
<1> DEFINE s == [m \in N \cup {x} |-> IF m = x THEN 2 * r[n] + 1 ELSE 2 * r[m]]
<1>3. s[x] = 2 * r[n] + 1 /\ s[x] \in Nat /\ \A m \in N : s[m] = 2 * r[m] /\ s[m] \in Nat
  BY <1>1
<1> HIDE DEF s
<1>4. \A m, q \in N \cup {x} : s[m] = s[q] => m = q
  <2>1. \A m \in N : s[m] # s[x]
    BY <1>1, <1>3
  <2> QED BY <1>1, <1>3, <2>1
<1>5. 2 * K + 1 \in Nat /\ \A m \in N \cup {x} : s[m] <= 2 * K + 1
  BY <1>1, <1>2, <1>3
<1>6. Ranks(s, N \cup {x})
  <2>1. /\ N \cup {x} \subseteq Nat \ {NULL} /\ \A m \in N \cup {x} : s[m] \in Nat
        /\ \E B \in Nat : \A m \in N \cup {x} : s[m] <= B
    BY <1>1, <1>3, <1>5
  <2> QED BY <1>4, <2>1 DEF Ranks
<1>7. Ranks(s, N)
  BY <1>6 DEF Ranks
<1>8. \A m, q \in N : s[m] < s[q] <=> r[m] < r[q]
  BY <1>1, <1>3
<1>9. s[n] < s[x] /\ \A m \in N : s[m] <= s[n] \/ s[x] < s[m]
  BY <1>1, <1>3
<1> QED BY <1>6, <1>7, <1>8, <1>9 DEF RoomBehind

\* Nothing but the order of the ranks matters.
LEMMA SoundByOrder ==
  ASSUME NEW a, NEW r, Sound(a, r), NEW s, Ranks(s, DOMAIN a.heap),
         \A m, q \in DOMAIN a.heap : s[m] < s[q] <=> r[m] < r[q]
  PROVE  /\ Sound(a, s)
         /\ \A key, index : \A n \in DOMAIN a.heap :
              GapAt(a, r, key, n, index) => GapAt(a, s, key, n, index)
<1> DEFINE N == DOMAIN a.heap
<1>1. /\ Ranks(r, N) /\ \A m \in N : r[m] \in Nat /\ s[m] \in Nat /\ m # NULL
      /\ a \in SkipArrays
  BY FormedFacts DEF Ranks, Sound, Formed
<1>2. \A m, q \in N : s[m] <= s[q] <=> r[m] <= r[q]
  BY <1>1
<1>3. Linked(a, s)
  <2>1. ASSUME NEW l \in LevelSet
        PROVE  Chained(Hops(a, OnLevel(a, l), l), OnLevel(a, l), s)
    <3> DEFINE T == OnLevel(a, l)
               f == Hops(a, T, l)
    <3>1. Chained(f, T, r) /\ T \in SUBSET N
      BY DEF Sound, Formed, Linked, OnLevel
    <3> HIDE DEF T, f, N
    <3>2. \A m, n \in T : r[m] < r[n] <=> s[m] < s[n]
      BY <3>1 DEF N
    <3>3. Ranks(s, N)
      BY DEF N
    <3>4. Chained(f, T, s)
      BY <1>1, <3>1, <3>2, <3>3, ChainSame
    <3> QED BY <3>4 DEF T, f
  <2> QED BY <2>1 DEF Linked
<1>4. Backed(a, s)
  <2>1. ASSUME NEW n \in N
        PROVE  InFront(s, N, a.heap[n].back, n)
    <3>1. InFront(r, N, a.heap[n].back, n)
      BY DEF Sound, Formed, Backed
    <3> QED BY <1>1, <1>2, <3>1 DEF InFront, Behind
  <2> QED BY <2>1 DEF Backed
<1>5. Formed(a, s) /\ Ordered(a, s)
  BY <1>1, <1>3, <1>4 DEF Sound, Formed, Ordered
<1>6. ASSUME NEW key, NEW index, NEW n \in N, GapAt(a, r, key, n, index)
      PROVE  GapAt(a, s, key, n, index)
  BY <1>1, <1>6 DEF GapAt
<1> QED BY <1>5, <1>6 DEF Sound

-----------------------------------------------------------------------------
(* A node goes in behind n. *)

\* new is a new address, ranked right behind n.
Beside(a, r, n, new) ==
  /\ n \in DOMAIN a.heap /\ new \in Nat \ {NULL} /\ new \notin DOMAIN a.heap
  /\ Ranks(r, DOMAIN a.heap \cup {new})
  /\ r[n] < r[new] /\ \A m \in DOMAIN a.heap : r[m] <= r[n] \/ r[new] < r[m]

\* c has the nodes of a and new, which is h high.
Grown(a, c, new, h) ==
  /\ c \in SkipArrays /\ DOMAIN c.heap = DOMAIN a.heap \cup {new}
  /\ \A m \in DOMAIN a.heap : c.heap[m].height = a.heap[m].height
  /\ c.heap[new].height = h

\* On a level, new is linked into the chain of a, or nothing is.
Spliced(a, r, c, new, l) ==
  \E p : /\ InFront(r, OnLevel(a, l), p, new)
         /\ After(c, p, l) = new /\ After(c, new, l) = After(a, p, l)
         /\ \A q \in {NULL} \cup OnLevel(a, l) : q # p => After(c, q, l) = After(a, q, l)

Untouched(a, c, l) ==
  \A q \in {NULL} \cup OnLevel(a, l) : After(c, q, l) = After(a, q, l)

\* The levels with new on them,
LEMMA GrownLevels ==
  ASSUME NEW a, NEW new, new \notin DOMAIN a.heap, NEW h, NEW c, Grown(a, c, new, h), NEW l
  PROVE  OnLevel(c, l) = OnLevel(a, l) \cup (IF l < h THEN {new} ELSE {})
BY DEF Grown, OnLevel

\* are chains again if new is spliced into those it reaches.
LEMMA GrownFormed ==
  ASSUME NEW a, NEW r, Formed(a, r), NEW n, NEW new, Beside(a, r, n, new),
         NEW h \in 1 .. MaxLevel, NEW c, Grown(a, c, new, h),
         c.height = IF h > a.height THEN h ELSE a.height,
         \A l \in LevelSet : IF l < h THEN Spliced(a, r, c, new, l) ELSE Untouched(a, c, l),
         \A m \in DOMAIN a.heap :
           c.heap[m].back = IF m = After(a, n, 0) THEN new ELSE a.heap[m].back,
         c.heap[new].back = n
  PROVE  Formed(c, r)
<1> DEFINE N == DOMAIN a.heap
           M == N \cup {new}
<1>1. /\ a \in SkipArrays /\ c \in SkipArrays /\ DOMAIN c.heap = M /\ Ranks(r, M)
      /\ new # NULL /\ new \notin N /\ n \in N /\ r[n] < r[new]
      /\ \A m \in N : r[m] <= r[n] \/ r[new] < r[m]
  BY DEF Formed, Beside, Grown
<1>2. /\ \A m \in M : r[m] \in Nat /\ m # NULL
      /\ \A m, q \in M : r[m] = r[q] => m = q
  BY <1>1 DEF Ranks
<1>3. \A l \in LevelSet : OnLevel(c, l) = OnLevel(a, l) \cup (IF l < h THEN {new} ELSE {})
  BY <1>1, GrownLevels
<1>4. ASSUME NEW l \in LevelSet
      PROVE  Chained(Hops(c, OnLevel(c, l), l), OnLevel(c, l), r)
  <2> DEFINE T == OnLevel(a, l)
             f == Hops(a, T, l)
  <2>1. Chained(f, T, r) /\ T \in SUBSET N /\ T \in SUBSET M
    BY DEF Formed, Linked, OnLevel
  <2>2. CASE l < h
    <3>1. OnLevel(c, l) = T \cup {new}
      BY <1>3, <2>2
    <3> DEFINE g == Hops(c, T \cup {new}, l)
    <3>2. PICK p : /\ InFront(r, T, p, new)
                   /\ After(c, p, l) = new /\ After(c, new, l) = After(a, p, l)
                   /\ \A q \in {NULL} \cup T : q # p => After(c, q, l) = After(a, q, l)
      BY <2>2 DEF Spliced
    <3>3. p \in {NULL} \cup T
      BY <3>2 DEF InFront
    <3>4. /\ g[new] = f[p] /\ g[p] = new
          /\ \A q \in {NULL} \cup T : q # p => g[q] = f[q]
      BY <3>2, <3>3 DEF Hops
    <3>5. new \in M /\ new \notin T
      BY <1>1, <2>1
    <3> HIDE DEF f, g, T, M
    <3>6. Ranks(r, M) /\ T \in SUBSET M /\ Chained(f, T, r) /\ InFront(r, T, p, new)
      BY <1>1, <2>1, <3>2
    <3>7. Chained(g, T \cup {new}, r)
      BY ONLY <3>4, <3>5, <3>6, ChainInsert
    <3> QED BY <3>1, <3>7 DEF g
  <2>3. CASE ~(l < h)
    <3>1. OnLevel(c, l) = T
      BY <1>3, <2>3
    <3>2. Hops(c, T, l) = f
      BY <2>3 DEF Untouched, Hops
    <3> QED BY <2>1, <3>1, <3>2
  <2> QED BY <2>2, <2>3
<1>5. Backed(c, r)
  <2> DEFINE y == After(a, n, 0)
  <2>1. OnLevel(a, 0) = N /\ Follows(r, N, n, y)
    BY <1>1, FormedFacts
  <2>2. InFront(r, M, c.heap[new].back, new)
    BY <1>1, <1>2 DEF InFront, Behind
  <2>3. ASSUME NEW m \in N
        PROVE  InFront(r, M, c.heap[m].back, m)
    <3>1. InFront(r, N, a.heap[m].back, m)
      BY DEF Formed, Backed
    <3>2. CASE m = y
      <4>1. r[n] < r[m] /\ \A q \in N : r[n] < r[q] => r[m] <= r[q]
        BY <1>1, <1>2, <2>1, <3>2 DEF Follows, Behind
      <4>2. r[new] < r[m] /\ c.heap[m].back = new
        BY <1>1, <1>2, <3>2, <4>1
      <4>3. \A q \in M : r[q] < r[m] => r[q] <= r[new]
        BY <1>1, <1>2, <4>1
      <4> QED BY <1>2, <4>2, <4>3 DEF InFront, Behind
    <3>3. CASE m # y
      <4>1. c.heap[m].back = a.heap[m].back
        BY <3>3
      <4>2. r[new] < r[m] => a.heap[m].back # NULL /\ r[new] <= r[a.heap[m].back]
        <5>1. SUFFICES ASSUME r[new] < r[m]
                       PROVE  a.heap[m].back # NULL /\ r[new] <= r[a.heap[m].back]
          OBVIOUS
        <5>2. r[n] < r[m]
          BY <1>1, <1>2, <5>1
        <5>3. y \in N /\ r[n] < r[y] /\ r[y] <= r[m]
          BY <1>1, <1>2, <2>1, <5>2 DEF Follows, Behind
        <5>4. r[y] < r[m] /\ r[new] < r[y]
          BY <1>1, <1>2, <3>3, <5>3
        <5>5. a.heap[m].back # NULL /\ r[y] <= r[a.heap[m].back]
              /\ a.heap[m].back \in N
          BY <3>1, <5>3, <5>4 DEF InFront
        <5> QED BY <1>1, <1>2, <5>3, <5>4, <5>5
      <4> QED BY <1>1, <3>1, <4>1, <4>2 DEF InFront
    <3> QED BY <3>2, <3>3
  <2> QED BY <1>1, <2>2, <2>3 DEF Backed
<1>6. Tall(c)
  <2>1. ASSUME NEW l \in LevelSet
        PROVE  OnLevel(c, l) # {} <=> l < c.height
    <3>1. OnLevel(a, l) # {} <=> l < a.height
      BY DEF Formed, Tall
    <3>2. l \in Int /\ h \in Int /\ a.height \in Int
      BY <1>1, ArrayParts, MaxLevelIs DEF LevelSet
    <3> QED BY <1>3, <3>1, <3>2
  <2> QED BY <2>1 DEF Tall
<1> QED BY <1>1, <1>4, <1>5, <1>6 DEF Formed, Linked

\* What the split leaves, before anything leads to the new node.
Halved(a, b, n, new, h, s, keep) ==
  /\ Grown(a, b, new, h) /\ b.height = a.height
  /\ \A l \in LevelSet : Untouched(a, b, l) /\ (l < h => After(b, new, l) = NULL)
  /\ b.heap[n].fwd = a.heap[n].fwd
  /\ \A m \in DOMAIN a.heap : /\ b.heap[m].back = a.heap[m].back
                              /\ m # n => b.heap[m].pairs = a.heap[m].pairs
  /\ b.heap[new].back = n
  /\ b.heap[n].pairs = SubSeq(s, 1, keep)
  /\ b.heap[new].pairs = SubSeq(s, keep + 1, Len(s))

\* split_node divides the pairs of n between it and a node that is linked nowhere yet.
LEMMA SplitEffect ==
  ASSUME NEW a \in SkipArrays, NEW n \in DOMAIN a.heap,
         NEW new \in Nat \ {NULL}, new \notin DOMAIN a.heap,
         NEW h \in 1 .. MaxLevel, NEW s, s = a.heap[n].pairs,
         NEW keep, keep = Len(s) - Len(s) \div 2,
         NEW b, b = split_node(a, n, new, h)
  PROVE  Halved(a, b, n, new, h, s, keep)
<1> DEFINE low == SubSeq(s, 1, keep)
           high == SubSeq(s, keep + 1, Len(s))
           f == [l \in 0 .. h - 1 |-> NULL]
           x == [height |-> h, pairs |-> high, back |-> n, fwd |-> f]
           d == SetPairs(a, n, low)
<1>1. n \in Nat /\ s \in Seq(AllPairs) /\ Len(s) \in Nat /\ keep \in 0 .. Len(s)
  <2>1. s \in Seq(AllPairs) /\ n \in Nat
    BY PairsType, ArrayParts
  <2>2. \A k \in Nat : k - k \div 2 \in 0 .. k
    OBVIOUS
  <2>3. Len(s) \in Nat
    BY <2>1
  <2> QED BY <2>1, <2>2, <2>3
<1>2. low \in Seq(AllPairs) /\ high \in Seq(AllPairs)
  BY <1>1, CutProperties
<1>3. f \in [0 .. h - 1 -> Nat]
  BY DEF NULL
<1>4. b = node_alloc(d, new, x)
  BY DEF split_node, SetPairs
<1> HIDE DEF low, high
<1>5. x \in NodeRecords /\ x.height = h /\ x.pairs = high /\ x.back = n /\ x.fwd = f
  BY <1>1, <1>2, <1>3, NodeMade
<1>6. \A l \in 0 .. h - 1 : f[l] = NULL
  OBVIOUS
<1> HIDE DEF x, f, d
<1>7. /\ d \in SkipArrays /\ d.height = a.height /\ d.nodes = a.nodes
      /\ SameNodes(a, d) /\ SameLinks(a, d) /\ SameBacks(a, d)
      /\ \A m \in DOMAIN a.heap :
           /\ d.heap[m].pairs = IF m = n THEN low ELSE a.heap[m].pairs
           /\ d.heap[m].fwd = a.heap[m].fwd
  BY <1>2, SetPairsEffect DEF d
<1>8. DOMAIN d.heap = DOMAIN a.heap
      /\ \A m \in DOMAIN a.heap : d.heap[m].height = a.heap[m].height
                                  /\ d.heap[m].back = a.heap[m].back
  BY <1>7 DEF SameNodes, SameBacks
<1>9. /\ b \in SkipArrays /\ b.height = d.height /\ b.nodes = d.nodes
      /\ DOMAIN b.heap = DOMAIN d.heap \cup {new} /\ b.heap[new] = x
      /\ \A m \in DOMAIN d.heap : b.heap[m] = d.heap[m]
  <2>1. new \notin DOMAIN d.heap
    BY <1>8
  <2> QED BY <1>4, <1>5, <1>7, <2>1, node_allocEffect
<1>10. Grown(a, b, new, h)
  BY <1>5, <1>8, <1>9 DEF Grown
<1>11. ASSUME NEW l \in LevelSet
       PROVE  Untouched(a, b, l) /\ (l < h => After(b, new, l) = NULL)
  <2>1. ASSUME NEW q \in {NULL} \cup OnLevel(a, l)
        PROVE  After(b, q, l) = After(a, q, l)
    BY <1>7, <1>8, <1>9 DEF After, OnLevel
  <2>2. l < h => After(b, new, l) = NULL
    <3>1. l < h => l \in 0 .. h - 1
      BY MaxLevelIs DEF LevelSet
    <3> QED BY <1>5, <1>6, <1>9, <3>1 DEF After
  <2> QED BY <2>1, <2>2 DEF Untouched
<1>12. /\ b.heap[n].pairs = low /\ b.heap[new].pairs = high /\ b.heap[new].back = n
       /\ b.heap[n].fwd = a.heap[n].fwd
  BY <1>5, <1>7, <1>8, <1>9
<1>13. \A m \in DOMAIN a.heap : /\ b.heap[m].back = a.heap[m].back
                                /\ m # n => b.heap[m].pairs = a.heap[m].pairs
  BY <1>7, <1>8, <1>9
<1> QED BY <1>7, <1>9, <1>10, <1>11, <1>12, <1>13 DEF Halved, low, high

\* What a recursion from the top down keeps,
LEMMA DownwardHolds ==
  ASSUME NEW low \in Int, NEW top \in Int, low <= top, NEW G, NEW f,
         f[top] \in G[top],
         \A l \in low .. top - 1 : f[l + 1] \in G[l + 1] => f[l] \in G[l]
  PROVE  \A l \in low .. top : f[l] \in G[l]
<1> DEFINE K == {k \in Nat : top - k >= low => f[top - k] \in G[top - k]}
<1>1. 0 \in K
  OBVIOUS
<1>2. ASSUME NEW k \in Nat, k \in K
      PROVE  k + 1 \in K
  <2>1. SUFFICES ASSUME top - (k + 1) >= low
                 PROVE  f[top - (k + 1)] \in G[top - (k + 1)]
    OBVIOUS
  <2> DEFINE l == top - (k + 1)
  <2>2. l \in low .. top - 1 /\ l + 1 = top - k /\ top - k >= low
    BY <2>1
  <2>3. f[l + 1] \in G[l + 1]
    BY <1>2, <2>2
  <2> HIDE DEF l
  <2>4. f[l] \in G[l]
    BY <2>2, <2>3
  <2> QED BY <2>4 DEF l
<1>3. Nat \subseteq K
  <2> HIDE DEF K
  <2> QED BY <1>1, <1>2, NaturalsInSet
<1>4. ASSUME NEW l \in low .. top
      PROVE  f[l] \in G[l]
  <2>1. top - l \in Nat /\ top - (top - l) = l
    OBVIOUS
  <2>2. top - l \in K
    BY <1>3, <2>1
  <2> QED BY <2>1, <2>2
<1> QED BY <1>4

\* it has while there is such a function.
LEMMA DownwardGood ==
  ASSUME NEW low \in Int, NEW top \in Int, low <= top, NEW U,
         NEW G \in [low .. top -> SUBSET U], NEW base \in G[top], NEW step,
         \A l \in low .. top - 1 : \A u \in G[l + 1] : step[<<l, u>>] \in G[l]
  PROVE  \E f \in [low .. top -> U] :
           /\ Descends(f, low, top, base, step)
           /\ \A l \in low .. top : f[l] \in G[l]
<1>1. base \in U /\ top \in low .. top
  OBVIOUS
<1>2. PICK safe \in [(low .. top) \X U -> U] :
        \A l \in low .. top : \A u \in U :
          step[<<l, u>>] \in U => safe[<<l, u>>] = step[<<l, u>>]
  <2> DEFINE g == [p \in (low .. top) \X U |-> IF step[p] \in U THEN step[p] ELSE base]
  <2>1. g \in [(low .. top) \X U -> U]
    BY <1>1
  <2>2. \A l \in low .. top : \A u \in U : step[<<l, u>>] \in U => g[<<l, u>>] = step[<<l, u>>]
    OBVIOUS
  <2> HIDE DEF g
  <2> QED BY <2>1, <2>2
<1>3. PICK f \in [low .. top -> U] : Descends(f, low, top, base, safe)
  BY <1>1, DownwardExists
<1>4. f = [l \in low .. top |-> IF l = top THEN base ELSE safe[<<l, f[l + 1]>>]]
  BY <1>3 DEF Descends
<1>5. f[top] \in G[top]
  BY <1>1, <1>4
<1>6. ASSUME NEW l \in low .. top - 1, f[l + 1] \in G[l + 1]
      PROVE  f[l] \in G[l] /\ step[<<l, f[l + 1]>>] = f[l]
  <2>1. l \in low .. top /\ l + 1 \in low .. top /\ l # top
    OBVIOUS
  <2>2. f[l] = safe[<<l, f[l + 1]>>]
    BY <1>4, <2>1
  <2>3. step[<<l, f[l + 1]>>] \in G[l] /\ G[l] \subseteq U /\ f[l + 1] \in U
    BY <1>3, <1>6, <2>1
  <2> QED BY <1>2, <2>1, <2>2, <2>3
<1>7. \A l \in low .. top : f[l] \in G[l]
  BY <1>5, <1>6, DownwardHolds
<1>8. ASSUME NEW l \in low .. top, l # top
      PROVE  step[<<l, f[l + 1]>>] = f[l]
  <2>1. l \in low .. top - 1 /\ l + 1 \in low .. top
    BY <1>8
  <2> QED BY <1>6, <1>7, <2>1
<1>9. Descends(f, low, top, base, step)
  <2>1. \A l \in low .. top : f[l] = IF l = top THEN base ELSE step[<<l, f[l + 1]>>]
    BY <1>4, <1>8
  <2>2. f = [l \in low .. top |-> f[l]]
    BY <1>3
  <2>3. f = [l \in low .. top |-> IF l = top THEN base ELSE step[<<l, f[l + 1]>>]]
    BY <2>1, <2>2
  <2> QED BY <2>3 DEF Descends
<1> QED BY <1>7, <1>9

-----------------------------------------------------------------------------
(* The levels of the new node above those of n. *)

\* c is b with the new node linked on the levels from l up that there are.
LinkedFrom(a, r, b, new, h, l, c) ==
  /\ c \in SkipArrays /\ c.height = a.height
  /\ SameNodes(b, c) /\ SamePairs(b, c) /\ SameBacks(b, c)
  /\ \A k \in LevelSet :
       IF k < h /\ k < a.height /\ k >= l THEN Spliced(a, r, c, new, k)
       ELSE Untouched(a, c, k) /\ (k < h => After(c, new, k) = NULL)

\* The loop is at most as far as the node in front of new.
NotPast(a, r, new, l, p) == p = NULL \/ (p \in OnLevel(a, l) /\ r[p] < r[new])

\* By the keys the loop can tell what is in front of new.
KeysTell(r, b, new) ==
  \A m \in DOMAIN b.heap : LastKey(b, m) < FirstKey(b, new) <=> r[m] < r[new]

\* A turn of the loop of split_node that links levels above those of n,
LEMMA link_levelGoes ==
  ASSUME NEW a, NEW r, Formed(a, r), NEW n, NEW new, Beside(a, r, n, new),
         NEW h \in 1 .. MaxLevel, NEW b, Grown(a, b, new, h), KeysTell(r, b, new),
         NEW l \in 0 .. h - 1, NEW c, LinkedFrom(a, r, b, new, h, l + 1, c),
         NEW p, NotPast(a, r, new, l + 1, p),
         NEW w, w.sa = c, w.prev = p, NEW x, x = link_level(w, new, l)
  PROVE  /\ x = w \/ x = [sa |-> x.sa, prev |-> x.prev]
         /\ LinkedFrom(a, r, b, new, h, l, x.sa) /\ NotPast(a, r, new, l, x.prev)
<1> DEFINE T == OnLevel(a, l)
           N == DOMAIN a.heap
           passed == {m \in DOMAIN c.heap : LastKey(c, m) < FirstKey(c, new)}
           prev == Advance(c, p, l, passed)
           next == After(c, prev, l)
<1>1. /\ a \in SkipArrays /\ c \in SkipArrays /\ c.height = a.height
      /\ DOMAIN b.heap = N \cup {new} /\ DOMAIN c.heap = N \cup {new}
      /\ Ranks(r, N \cup {new}) /\ new \notin N /\ new \in Nat /\ new # NULL
      /\ SameNodes(b, c) /\ SamePairs(b, c) /\ SameBacks(b, c) /\ T \subseteq N
  BY DEF Formed, Beside, Grown, LinkedFrom, SameNodes, OnLevel
<1>2. \A m \in N \cup {new} : r[m] \in Nat /\ m # NULL
  BY <1>1 DEF Ranks
<1>3. /\ l \in LevelSet /\ l < h /\ l \in Int /\ h \in Int /\ a.height \in 1 .. MaxLevel
      /\ MaxLevel \in Nat
  BY <1>1, MaxLevelIs, ArrayParts DEF LevelSet
<1>4. Untouched(a, c, l) /\ After(c, new, l) = NULL
  <2>1. ~(l >= l + 1)
    BY <1>3
  <2> QED BY <1>3, <2>1 DEF LinkedFrom
<1>5. OnLevel(c, l) = T \cup {new}
  <2>1. OnLevel(b, l) = T \cup {new}
    BY <1>1, <1>3, GrownLevels
  <2> QED BY <1>1, <2>1, OnLevelSame
<1>6. passed = {m \in N : r[m] < r[new]}
  <2>1. \A m \in DOMAIN c.heap : LastKey(c, m) = LastKey(b, m) /\ FirstKey(c, m) = FirstKey(b, m)
    BY <1>1 DEF LastKey, FirstKey, Count, SamePairs
  <2>2. \A m \in DOMAIN c.heap : LastKey(c, m) < FirstKey(c, new) <=> r[m] < r[new]
    BY <1>1, <2>1 DEF KeysTell
  <2> QED BY <1>1, <1>2, <2>2
<1>7. \A q \in {NULL} \cup T : Follows(r, T, q, After(c, q, l))
  BY <1>3, <1>4, FormedFacts DEF Untouched
<1> HIDE DEF passed
<1>8. LastPassed(r, T, prev, passed)
  <2>1. ASSUME NEW q \in {NULL} \cup OnLevel(c, l), After(c, q, l) \in passed
        PROVE  After(c, q, l) \in T /\ Behind(r, q, After(c, q, l))
    <3>1. q # new
      BY <1>2, <1>4, <1>6, <2>1
    <3>2. Follows(r, T, q, After(c, q, l)) /\ After(c, q, l) # NULL
      BY <1>2, <1>5, <1>6, <1>7, <2>1, <3>1
    <3> QED BY <3>2 DEF Follows
  <2>2. ASSUME NEW q \in {NULL} \cup T, After(c, q, l) \notin passed
        PROVE  \A m \in T : Behind(r, q, m) => m \notin passed
    <3> DEFINE y == After(c, q, l)
    <3>1. Follows(r, T, q, y)
      BY <1>7
    <3>2. CASE y = NULL
      BY <3>1, <3>2, <1>1, <1>2 DEF Follows
    <3>3. CASE y # NULL
      <4>1. y \in T /\ \A m \in T : Behind(r, q, m) => r[y] <= r[m]
        BY <3>1, <3>3 DEF Follows
      <4>2. ~(r[y] < r[new]) /\ r[y] \in Nat
        BY <1>1, <1>2, <1>6, <2>2, <4>1
      <4> QED BY <1>1, <1>2, <1>6, <4>1, <4>2
    <3> QED BY <3>2, <3>3
  <2>3. p \in {NULL} \cup (T \cap passed)
    <3>1. OnLevel(a, l + 1) \subseteq T
      BY <1>1, <1>3, ArrayParts, NodeParts DEF OnLevel
    <3> QED BY <1>1, <1>6, <3>1 DEF NotPast
  <2>4. Ranks(r, DOMAIN c.heap) /\ T \in SUBSET OnLevel(c, l)
    BY <1>1, <1>5
  <2> HIDE DEF T
  <2> QED BY <2>1, <2>2, <2>3, <2>4, AdvanceFinds
<1>9. InFront(r, T, prev, new)
  <2>1. prev \in {NULL} \cup T /\ Behind(r, prev, new)
    BY <1>6, <1>8 DEF LastPassed, Behind
  <2>2. ASSUME NEW m \in T, r[m] < r[new]
        PROVE  prev # NULL /\ r[m] <= r[prev]
    BY <1>1, <1>6, <1>8, <2>2 DEF LastPassed
  <2> QED BY <2>1, <2>2 DEF InFront
<1>10. x = IF l > c.height \/ (p = NULL /\ c.nodes[l] = NULL) THEN w
           ELSE [sa |-> SetAfter(SetAfter(c, new, l, next), prev, l, new), prev |-> prev]
  BY DEF link_level, passed
<1> HIDE DEF prev, next
<1>11. CASE l > c.height \/ (p = NULL /\ c.nodes[l] = NULL)
  <2>1. x = w
    BY <1>10, <1>11
  <2>2. ~(l < a.height)
    <3>1. CASE l > c.height
      BY <1>1, <1>3, <3>1
    <3>2. CASE c.nodes[l] = NULL
      <4>1. a.nodes[l] = NULL
        BY <1>4, <3>2 DEF Untouched, After
      <4>2. Follows(r, T, NULL, NULL)
        BY <1>3, <4>1, FormedFacts DEF After
      <4>3. T = {}
        BY <1>1, <1>2, <4>2 DEF Follows, Behind
      <4> QED BY <1>3, <4>3 DEF Formed, Tall
    <3> QED BY <1>11, <3>1, <3>2
  <2>3. LinkedFrom(a, r, b, new, h, l, c)
    <3>1. ASSUME NEW k \in LevelSet
          PROVE  (k < h /\ k < a.height /\ k >= l) <=> (k < h /\ k < a.height /\ k >= l + 1)
      BY <1>3, <2>2 DEF LevelSet
    <3> QED BY <3>1 DEF LinkedFrom
  <2>4. NotPast(a, r, new, l, p)
    <3>1. OnLevel(a, l + 1) \subseteq T
      BY <1>1, <1>3, ArrayParts, NodeParts DEF OnLevel
    <3> QED BY <3>1 DEF NotPast
  <2> QED BY <2>1, <2>3, <2>4
<1>12. CASE ~(l > c.height \/ (p = NULL /\ c.nodes[l] = NULL))
  <2> DEFINE d == SetAfter(c, new, l, next)
             e == SetAfter(d, prev, l, new)
  <2>1. x = [sa |-> e, prev |-> prev] /\ x.sa = e /\ x.prev = prev
    BY <1>10, <1>12
  <2>2. l < a.height
    <3>1. l <= a.height
      BY <1>1, <1>3, <1>12
    <3>2. T # {}
      <4>1. CASE p # NULL
        <5>1. OnLevel(a, l + 1) \subseteq T
          BY <1>1, <1>3, ArrayParts, NodeParts DEF OnLevel
        <5> QED BY <4>1, <5>1 DEF NotPast
      <4>2. CASE c.nodes[l] # NULL
        <5>1. After(c, NULL, l) # NULL
          BY <4>2 DEF After
        <5> QED BY <1>7, <5>1 DEF Follows
      <4> QED BY <1>12, <4>1, <4>2
    <3> QED BY <1>3, <3>2 DEF Formed, Tall
  <2>3. prev \in {NULL} \cup T /\ prev # new /\ next = After(a, prev, l) /\ next \in Nat
    <3>1. prev \in {NULL} \cup T /\ prev # new
      BY <1>1, <1>9 DEF InFront
    <3> QED BY <1>1, <1>3, <1>4, <3>1, AfterIsNat DEF Untouched, next
  <2> HIDE DEF d, e, T
  <2>4. /\ d \in SkipArrays /\ d.height = c.height
        /\ SameNodes(c, d) /\ SamePairs(c, d) /\ SameBacks(c, d)
        /\ \A k \in LevelSet : \A q \in {NULL} \cup OnLevel(c, k) :
             After(d, q, k) = IF q = new /\ k = l THEN next ELSE After(c, q, k)
    BY <1>1, <1>3, <1>5, <2>3, SetAfterEffect DEF d
  <2>5. \A k \in LevelSet : OnLevel(d, k) = OnLevel(c, k)
    BY <2>4, OnLevelSame
  <2>6. /\ e \in SkipArrays /\ e.height = d.height
        /\ SameNodes(d, e) /\ SamePairs(d, e) /\ SameBacks(d, e)
        /\ \A k \in LevelSet : \A q \in {NULL} \cup OnLevel(d, k) :
             After(e, q, k) = IF q = prev /\ k = l THEN new ELSE After(d, q, k)
    <3>1. prev \in {NULL} \cup OnLevel(d, l)
      BY <1>3, <1>5, <2>3, <2>5
    <3> HIDE DEF NULL
    <3> QED BY <1>1, <1>3, <2>4, <3>1, SetAfterEffect DEF e
  <2>7. SameNodes(b, e) /\ SamePairs(b, e) /\ SameBacks(b, e) /\ e.height = a.height
    BY <1>1, <2>4, <2>6 DEF SameNodes, SamePairs, SameBacks
  <2>8. ASSUME NEW k \in LevelSet, k # l
        PROVE  \A q \in {NULL} \cup OnLevel(c, k) : After(e, q, k) = After(c, q, k)
    BY <2>4, <2>5, <2>6, <2>8
  <2>9. \A q \in {NULL} \cup T \cup {new} :
          After(e, q, l) = IF q = prev THEN new ELSE IF q = new THEN next ELSE After(c, q, l)
    BY <1>3, <1>5, <2>4, <2>5, <2>6
  <2>10. Spliced(a, r, e, new, l)
    <3>1. /\ After(e, prev, l) = new /\ After(e, new, l) = After(a, prev, l)
          /\ \A q \in {NULL} \cup T : q # prev => After(e, q, l) = After(a, q, l)
      BY <1>1, <1>2, <1>4, <2>3, <2>9 DEF Untouched, T
    <3> QED BY <1>9, <3>1 DEF Spliced, T
  <2>11. ASSUME NEW k \in LevelSet
         PROVE  IF k < h /\ k < a.height /\ k >= l THEN Spliced(a, r, e, new, k)
                ELSE Untouched(a, e, k) /\ (k < h => After(e, new, k) = NULL)
    <3>1. CASE k = l
      BY <1>3, <2>2, <2>10, <3>1
    <3>2. CASE k # l
      <4>1. (k < h /\ k < a.height /\ k >= l) <=> (k < h /\ k < a.height /\ k >= l + 1)
        BY <1>3, <3>2 DEF LevelSet
      <4>2. IF k < h /\ k < a.height /\ k >= l THEN Spliced(a, r, c, new, k)
            ELSE Untouched(a, c, k) /\ (k < h => After(c, new, k) = NULL)
        BY <4>1 DEF LinkedFrom
      <4>3. OnLevel(c, k) = OnLevel(a, k) \cup (IF k < h THEN {new} ELSE {})
        <5>1. OnLevel(b, k) = OnLevel(a, k) \cup (IF k < h THEN {new} ELSE {})
          BY <1>1, GrownLevels
        <5> QED BY <1>1, <5>1, OnLevelSame
      <4>4. \A q \in {NULL} \cup OnLevel(a, k) : After(e, q, k) = After(c, q, k)
        BY <2>8, <3>2, <4>3
      <4>5. k < h => After(e, new, k) = After(c, new, k)
        BY <2>8, <3>2, <4>3
      <4>6. CASE k < h /\ k < a.height /\ k >= l
        <5>1. PICK p1 : /\ InFront(r, OnLevel(a, k), p1, new)
                        /\ After(c, p1, k) = new /\ After(c, new, k) = After(a, p1, k)
                        /\ \A q \in {NULL} \cup OnLevel(a, k) :
                             q # p1 => After(c, q, k) = After(a, q, k)
          BY <4>2, <4>6 DEF Spliced
        <5>2. p1 \in {NULL} \cup OnLevel(a, k)
          BY <5>1 DEF InFront
        <5>3. Spliced(a, r, e, new, k)
          BY <4>4, <4>5, <4>6, <5>1, <5>2 DEF Spliced
        <5> QED BY <4>6, <5>3
      <4>7. CASE ~(k < h /\ k < a.height /\ k >= l)
        <5>1. Untouched(a, e, k)
          BY <4>2, <4>4, <4>7 DEF Untouched
        <5> QED BY <4>2, <4>5, <4>7, <5>1
      <4> QED BY <4>6, <4>7
    <3> QED BY <3>1, <3>2
  <2>12. LinkedFrom(a, r, b, new, h, l, e)
    BY <2>6, <2>7, <2>11 DEF LinkedFrom
  <2>13. NotPast(a, r, new, l, prev)
    BY <1>9 DEF NotPast, InFront, Behind, T
  <2> QED BY <2>1, <2>12, <2>13
<1> QED BY <1>11, <1>12

\* and all of them.
LEMMA link_aboveEffect ==
  ASSUME NEW a, NEW r, Formed(a, r), NEW n, NEW new, Beside(a, r, n, new),
         NEW h \in 1 .. MaxLevel, NEW b, Grown(a, b, new, h), KeysTell(r, b, new),
         b.height = a.height,
         \A l \in LevelSet : Untouched(a, b, l) /\ (l < h => After(b, new, l) = NULL),
         NEW c, c = link_above(b, n, new)
  PROVE  LinkedFrom(a, r, b, new, h, a.heap[n].height, c)
<1> DEFINE low == a.heap[n].height
           top == h
           U == [sa : SkipArrays, prev : Nat]
           Good(l, u) == LinkedFrom(a, r, b, new, h, l, u.sa) /\ NotPast(a, r, new, l, u.prev)
           G == [l \in low .. top |-> {u \in U : Good(l, u)}]
           base == [sa |-> b, prev |-> NULL]
           step == [p \in (low .. top) \X U |-> link_level(p[2], new, p[1])]
           Body(f) == [l \in low .. top |-> IF l = top THEN base
                                            ELSE link_level(f[l + 1], new, l)]
           w == CHOOSE f : f = Body(f)
<1>1. /\ a \in SkipArrays /\ b \in SkipArrays /\ n \in DOMAIN a.heap
      /\ b.heap[n].height = low /\ b.heap[new].height = h /\ low \in 1 .. MaxLevel
      /\ MaxLevel \in Nat /\ low \in Int /\ top \in Int
      /\ \A m \in DOMAIN a.heap : m \in Nat
  <2>1. a \in SkipArrays /\ b \in SkipArrays /\ n \in DOMAIN a.heap
    BY DEF Formed, Beside, Grown
  <2>2. low \in 1 .. MaxLevel /\ \A m \in DOMAIN a.heap : m \in Nat
    BY <2>1, ArrayParts, NodeParts
  <2> QED BY <2>1, <2>2, MaxLevelIs DEF Grown
<1>2. \A l \in Int : l >= h => LinkedFrom(a, r, b, new, h, l, b)
  <2>1. SameNodes(b, b) /\ SamePairs(b, b) /\ SameBacks(b, b)
    BY DEF SameNodes, SamePairs, SameBacks
  <2>2. ASSUME NEW l \in Int, l >= h, NEW k \in LevelSet
        PROVE  ~(k < h /\ k < a.height /\ k >= l)
    BY <1>1, <2>2 DEF LevelSet
  <2> QED BY <1>1, <2>1, <2>2 DEF LinkedFrom
<1>3. c = IF low >= top THEN b ELSE w[low].sa
  BY <1>1 DEF link_above
<1>4. CASE low >= top
  BY <1>1, <1>2, <1>3, <1>4
<1>5. CASE ~(low >= top)
  <2>1. low <= top /\ low \in low .. top /\ top \in low .. top
    BY <1>1, <1>5
  <2>2. base \in G[top]
    <3>1. base \in U /\ base.sa = b /\ base.prev = NULL
      BY <1>1 DEF NULL
    <3>2. Good(top, base)
      BY <1>1, <1>2, <3>1 DEF NotPast
    <3> HIDE DEF base, Good, U
    <3> QED BY <2>1, <3>1, <3>2
  <2>3. ASSUME NEW l \in low .. top - 1, NEW u \in G[l + 1]
        PROVE  link_level(u, new, l) \in G[l]
    <3> DEFINE x == link_level(u, new, l)
    <3>1. l \in low .. top /\ l + 1 \in low .. top /\ l \in 0 .. h - 1
      BY <1>1
    <3>2. u \in U /\ Good(l + 1, u)
      BY <3>1
    <3>3. /\ x = u \/ x = [sa |-> x.sa, prev |-> x.prev]
          /\ LinkedFrom(a, r, b, new, h, l, x.sa) /\ NotPast(a, r, new, l, x.prev)
      BY <3>1, <3>2, link_levelGoes
    <3> HIDE DEF x
    <3>4. x.sa \in SkipArrays /\ x.prev \in Nat
      BY <1>1, <3>3 DEF LinkedFrom, NotPast, OnLevel, NULL
    <3>5. x \in U
      BY <3>2, <3>3, <3>4
    <3> HIDE DEF U
    <3>6. x \in G[l]
      BY <3>1, <3>3, <3>5
    <3> QED BY <3>6 DEF x
  <2>4. G \in [low .. top -> SUBSET U]
    OBVIOUS
  <2>5. \A l \in low .. top : G[l] \subseteq U
    OBVIOUS
  <2>6. \A l \in low .. top - 1 : \A u \in G[l + 1] : step[<<l, u>>] = link_level(u, new, l)
    <3>1. ASSUME NEW l \in low .. top - 1, NEW u \in G[l + 1]
          PROVE  step[<<l, u>>] = link_level(u, new, l)
      <4>1. l \in low .. top /\ l + 1 \in low .. top
        BY <1>1
      <4>2. <<l, u>> \in (low .. top) \X U
        BY <2>5, <4>1
      <4> HIDE DEF U, G
      <4> QED BY <4>2
    <3> QED BY <3>1
  <2> HIDE DEF G, step, base, U
  <2>7. \A l \in low .. top - 1 : \A u \in G[l + 1] : step[<<l, u>>] \in G[l]
    BY <2>3, <2>6
  <2> HIDE DEF low, top
  <2>8. PICK f \in [low .. top -> U] : /\ Descends(f, low, top, base, step)
                                       /\ \A l \in low .. top : f[l] \in G[l]
    BY <1>1, <2>1, <2>2, <2>4, <2>7, DownwardGood
  <2>9. f = Body(f)
    <3>1. \A l \in low .. top : f[l] = IF l = top THEN base ELSE step[<<l, f[l + 1]>>]
      BY <2>8 DEF Descends
    <3>2. ASSUME NEW l \in low .. top, l # top
          PROVE  step[<<l, f[l + 1]>>] = link_level(f[l + 1], new, l)
      <4>1. l \in low .. top - 1 /\ l + 1 \in low .. top
        BY <1>1, <3>2
      <4> QED BY <2>6, <2>8, <4>1
    <3>3. f = [l \in low .. top |-> f[l]]
      BY <2>8
    <3>4. \A l \in low .. top : f[l] = IF l = top THEN base ELSE link_level(f[l + 1], new, l)
      BY <3>1, <3>2
    <3> QED BY <3>3, <3>4
  <2> HIDE DEF Body
  <2>10. w = Body(w)
    BY <2>9
  <2> HIDE DEF w
  <2>11. \A l \in low .. top : w[l] = IF l = top THEN base ELSE link_level(w[l + 1], new, l)
    BY <2>10 DEF Body
  <2>12. w[top] \in G[top]
    BY <2>1, <2>2, <2>11
  <2>13. ASSUME NEW l \in low .. top - 1, w[l + 1] \in G[l + 1]
         PROVE  w[l] \in G[l]
    <3>1. l \in low .. top /\ l # top
      BY <1>1
    <3> QED BY <2>3, <2>11, <2>13, <3>1
  <2>14. w[low] \in G[low]
    <3>1. \A l \in low .. top : w[l] \in G[l]
      BY <1>1, <2>1, <2>12, <2>13, DownwardHolds
    <3> QED BY <2>1, <3>1
  <2>15. LinkedFrom(a, r, b, new, h, low, w[low].sa)
    BY <2>1, <2>14 DEF G, Good
  <2> QED BY <1>3, <1>5, <2>15 DEF low, top
<1> QED BY <1>4, <1>5

-----------------------------------------------------------------------------
(* The new top levels, and those n has too. *)

\* The greater of two numbers.
LEMMA MaxOfTwo ==
  ASSUME NEW x \in Int, NEW y \in Int
  PROVE  /\ Max({x, y}) = IF y > x THEN y ELSE x
         /\ Min({x, y}) = IF y > x THEN x ELSE y
<1> DEFINE S == {x, y}
<1>1. \E m \in S : \A z \in S : m >= z
  OBVIOUS
<1>2. Max(S) \in S /\ \A z \in S : Max(S) >= z
  <2> HIDE DEF S
  <2> QED BY <1>1, Zenon DEF Max
<1>3. \E m \in S : \A z \in S : m <= z
  OBVIOUS
<1>4. Min(S) \in S /\ \A z \in S : Min(S) <= z
  <2> HIDE DEF S
  <2> QED BY <1>3, Zenon DEF Min
<1> QED BY <1>2, <1>4

\* raise_height lets the heads of the new levels point to the new node.
LEMMA raise_heightEffect ==
  ASSUME NEW a \in SkipArrays, NEW new \in DOMAIN a.heap,
         NEW h, h = a.heap[new].height, NEW b, b = raise_height(a, new)
  PROVE  /\ b \in SkipArrays /\ b.height = IF h > a.height THEN h ELSE a.height
         /\ SameNodes(a, b) /\ SamePairs(a, b) /\ SameBacks(a, b)
         /\ \A l \in LevelSet : \A q \in {NULL} \cup OnLevel(a, l) :
              After(b, q, l) = IF q = NULL /\ a.height <= l /\ l < h THEN new
                               ELSE After(a, q, l)
<1> DEFINE top == Max({a.height, h})
           f == [l \in DOMAIN a.nodes |-> IF l \in a.height .. top - 1 THEN new ELSE a.nodes[l]]
           d == [a EXCEPT !.height = top]
<1>1. /\ a.height \in 1 .. MaxLevel /\ h \in 1 .. MaxLevel /\ MaxLevel \in Nat
      /\ new \in Nat /\ new # NULL /\ a.nodes \in [LevelSet -> Nat]
  BY ArrayParts, NodeParts, MaxLevelIs
<1>2. top = IF h > a.height THEN h ELSE a.height
  BY <1>1, MaxOfTwo
<1>3. top \in 1 .. MaxLevel
  BY <1>1, <1>2
<1>4. f \in [LevelSet -> Nat]
      /\ \A l \in LevelSet : f[l] = IF l \in a.height .. top - 1 THEN new ELSE a.nodes[l]
  BY <1>1
<1>5. b = [d EXCEPT !.nodes = f]
  BY DEF raise_height
<1> HIDE DEF top, f, d
<1>6. d \in SkipArrays /\ d.height = top /\ d.nodes = a.nodes /\ d.heap = a.heap
  BY <1>3, HeightWith DEF d
<1>7. b \in SkipArrays /\ b.height = top /\ b.nodes = f /\ b.heap = a.heap
  BY <1>4, <1>5, <1>6, NodesWith
<1>8. ASSUME NEW l \in LevelSet, NEW q \in {NULL} \cup OnLevel(a, l)
      PROVE  After(b, q, l) = IF q = NULL /\ a.height <= l /\ l < h THEN new
                              ELSE After(a, q, l)
  <2>1. l \in a.height .. top - 1 <=> a.height <= l /\ l < h
    BY <1>1, <1>2 DEF LevelSet
  <2> QED BY <1>4, <1>7, <2>1 DEF After
<1> QED BY <1>2, <1>7, <1>8 DEF SameNodes, SamePairs, SameBacks

SetFwd(a, n, f) == [a EXCEPT !.heap[n].fwd = f]

\* The forward pointers of a node are replaced.
LEMMA SetFwdEffect ==
  ASSUME NEW a \in SkipArrays, NEW n \in DOMAIN a.heap,
         NEW f \in [0 .. a.heap[n].height - 1 -> Nat],
         NEW b, b = SetFwd(a, n, f)
  PROVE  /\ b \in SkipArrays /\ b.height = a.height /\ b.nodes = a.nodes
         /\ SameNodes(a, b) /\ SamePairs(a, b) /\ SameBacks(a, b)
         /\ \A m \in DOMAIN a.heap : b.heap[m].fwd = IF m = n THEN f ELSE a.heap[m].fwd
<1> DEFINE x == a.heap[n]
           y == [x EXCEPT !.fwd = f]
           g == [a.heap EXCEPT ![n] = y]
<1>1. x \in NodeRecords
  BY ArrayParts
<1>2. b = [a EXCEPT !.heap = g]
  BY DEF SetFwd
<1>3. /\ y \in NodeRecords /\ y.height = x.height /\ y.pairs = x.pairs
      /\ y.back = x.back /\ y.fwd = f
  BY <1>1, NodeWith
<1> HIDE DEF y
<1>4. /\ g \in [DOMAIN a.heap -> NodeRecords]
      /\ g[n] = y /\ \A m \in DOMAIN a.heap : m # n => g[m] = a.heap[m]
  BY <1>3, ArrayParts
<1> HIDE DEF g
<1>5. b \in SkipArrays /\ b.height = a.height /\ b.nodes = a.nodes /\ b.heap = g
  <2>1. DOMAIN a.heap \in SUBSET (Nat \ {NULL}) /\ IsFiniteSet(DOMAIN a.heap)
    BY ArrayParts
  <2> QED BY <1>2, <1>4, <2>1, HeapWith
<1>6. DOMAIN b.heap = DOMAIN a.heap
  BY <1>4, <1>5
<1> QED BY <1>3, <1>4, <1>5, <1>6 DEF SameNodes, SamePairs, SameBacks

\* The first k levels that n and new share have new behind n.
Interposed(a, b, n, new, k) ==
  /\ b \in SkipArrays /\ b.height = a.height
  /\ SameNodes(a, b) /\ SamePairs(a, b) /\ SameBacks(a, b)
  /\ \A l \in LevelSet : \A q \in {NULL} \cup OnLevel(a, l) :
       After(b, q, l) = IF l < k /\ q = new THEN After(a, n, l)
                        ELSE IF l < k /\ q = n THEN new
                        ELSE After(a, q, l)

\* A turn of the loop that links the levels both have,
LEMMA link_common_levelGoes ==
  ASSUME NEW a \in SkipArrays, NEW k \in LevelSet,
         NEW n \in OnLevel(a, k), NEW new \in OnLevel(a, k), n # new,
         NEW b, Interposed(a, b, n, new, k)
  PROVE  Interposed(a, link_common_level(b, n, new, k), n, new, k + 1)
<1> DEFINE x == After(b, n, k)
           c == SetAfter(b, new, k, x)
           d == SetAfter(c, n, k, new)
<1>1. /\ b \in SkipArrays /\ b.height = a.height /\ n # NULL /\ new # NULL /\ new \in Nat
      /\ SameNodes(a, b) /\ SamePairs(a, b) /\ SameBacks(a, b)
      /\ \A l \in LevelSet : OnLevel(b, l) = OnLevel(a, l)
  <2>1. SameNodes(a, b) /\ b \in SkipArrays
    BY DEF Interposed
  <2>2. n \in DOMAIN a.heap /\ new \in DOMAIN a.heap
    BY DEF OnLevel
  <2> QED BY <2>1, <2>2, ArrayParts, OnLevelSame DEF Interposed
<1>2. x = After(a, n, k) /\ x \in Nat
  <2>1. k \in Int
    BY MaxLevelIs DEF LevelSet
  <2>2. x = After(a, n, k)
    BY <2>1 DEF Interposed
  <2>3. x \in Nat
    BY <1>1, AfterIsNat
  <2> QED BY <2>2, <2>3
<1> HIDE DEF x
<1>3. /\ c \in SkipArrays /\ c.height = b.height
      /\ SameNodes(b, c) /\ SamePairs(b, c) /\ SameBacks(b, c)
      /\ \A l \in LevelSet : \A q \in {NULL} \cup OnLevel(b, l) :
           After(c, q, l) = IF q = new /\ l = k THEN x ELSE After(b, q, l)
  <2>1. new \in {NULL} \cup OnLevel(b, k)
    BY <1>1
  <2> QED BY <1>1, <1>2, <2>1, SetAfterEffect
<1>4. \A l \in LevelSet : OnLevel(c, l) = OnLevel(a, l)
  <2>1. \A l \in LevelSet : OnLevel(c, l) = OnLevel(b, l)
    BY <1>3, OnLevelSame
  <2> QED BY <1>1, <2>1
<1> HIDE DEF c
<1>5. /\ d \in SkipArrays /\ d.height = c.height
      /\ SameNodes(c, d) /\ SamePairs(c, d) /\ SameBacks(c, d)
      /\ \A l \in LevelSet : \A q \in {NULL} \cup OnLevel(c, l) :
           After(d, q, l) = IF q = n /\ l = k THEN new ELSE After(c, q, l)
  <2>1. n \in {NULL} \cup OnLevel(c, k)
    BY <1>4
  <2> QED BY <1>1, <1>3, <2>1, SetAfterEffect
<1> HIDE DEF d
<1>6. SameNodes(a, d) /\ SamePairs(a, d) /\ SameBacks(a, d) /\ d.height = a.height
  BY <1>1, <1>3, <1>5 DEF SameNodes, SamePairs, SameBacks
<1>7. ASSUME NEW l \in LevelSet, NEW q \in {NULL} \cup OnLevel(a, l)
      PROVE  After(d, q, l) = IF l < k + 1 /\ q = new THEN After(a, n, l)
                              ELSE IF l < k + 1 /\ q = n THEN new
                              ELSE After(a, q, l)
  <2>1. /\ After(d, q, l) = IF q = n /\ l = k THEN new ELSE After(c, q, l)
        /\ After(c, q, l) = IF q = new /\ l = k THEN x ELSE After(b, q, l)
    BY <1>1, <1>3, <1>4, <1>5
  <2>2. After(b, q, l) = IF l < k /\ q = new THEN After(a, n, l)
                         ELSE IF l < k /\ q = n THEN new
                         ELSE After(a, q, l)
    BY DEF Interposed
  <2>3. l < k + 1 <=> l < k \/ l = k
    BY MaxLevelIs DEF LevelSet
  <2> QED BY <1>2, <2>1, <2>2, <2>3
<1>8. Interposed(a, d, n, new, k + 1)
  BY <1>5, <1>6, <1>7 DEF Interposed
<1> QED BY <1>8 DEF link_common_level, x, c, d

\* What a loop over the levels below k gives, from base by step.
Climbs(f, k, base, step) ==
  f = [l \in 0 .. k |-> IF l = 0 THEN base ELSE step[<<l - 1, f[l - 1]>>]]

\* What a loop from level 0 up keeps, its result has,
LEMMA UpwardGood ==
  ASSUME NEW k \in Nat, NEW U, NEW G, NEW base \in U, base \in G[0],
         \A l \in 0 .. k : G[l] \subseteq U, NEW step,
         \A l \in 0 .. k - 1 : \A u \in G[l] : step[<<l, u>>] \in G[l + 1]
  PROVE  \E f \in [0 .. k -> U] :
           Climbs(f, k, base, step) /\ \A l \in 0 .. k : f[l] \in G[l]
<1> DEFINE up == [p \in Nat \X U |->
                    IF p[1] \in 0 .. k - 1 /\ p[2] \in G[p[1]] THEN step[p] ELSE base]
<1>1. up \in [Nat \X U -> U]
  <2>1. ASSUME NEW l \in Nat, NEW u \in U
        PROVE  up[<<l, u>>] \in U
    <3>1. up[<<l, u>>] = IF l \in 0 .. k - 1 /\ u \in G[l] THEN step[<<l, u>>] ELSE base
      OBVIOUS
    <3>2. l \in 0 .. k - 1 => l + 1 \in 0 .. k
      OBVIOUS
    <3> HIDE DEF up
    <3> QED BY <3>1, <3>2
  <2>2. \A p \in Nat \X U : p = <<p[1], p[2]>> /\ p[1] \in Nat /\ p[2] \in U
    OBVIOUS
  <2>3. \A p \in Nat \X U : up[p] \in U
    <3> HIDE DEF up
    <3> QED BY <2>1, <2>2
  <2> QED BY <2>3
<1>2. \A l \in Nat, u \in U :
        up[<<l, u>>] = IF l \in 0 .. k - 1 /\ u \in G[l] THEN step[<<l, u>>] ELSE base
  OBVIOUS
<1> HIDE DEF up
<1>3. PICK g \in [Nat -> U] : \A m \in Nat : Recurs(g, m, base, up)
  BY <1>1, RecursionExists
<1>4. g[0] = base /\ \A i \in Nat : g[i + 1] = up[<<i, g[i]>>]
  <2>1. ASSUME NEW i \in Nat PROVE g[i + 1] = up[<<i, g[i]>>]
    <3>1. Recurs(g, i + 1, base, up) /\ i \in 0 .. (i + 1) - 1
      BY <1>3
    <3> QED BY <3>1 DEF Recurs
  <2>2. Recurs(g, 0, base, up)
    BY <1>3
  <2> QED BY <2>1, <2>2 DEF Recurs
<1> DEFINE T == {i \in Nat : i <= k => g[i] \in G[i]}
<1>5. 0 \in T
  BY <1>4
<1>6. ASSUME NEW i \in Nat, i \in T
      PROVE  i + 1 \in T
  <2>1. SUFFICES ASSUME i + 1 <= k PROVE g[i + 1] \in G[i + 1]
    OBVIOUS
  <2>2. i \in 0 .. k - 1 /\ g[i] \in G[i] /\ g[i] \in U
    BY <1>3, <1>6, <2>1
  <2> QED BY <1>2, <1>4, <2>2, ZenonT(60)
<1>7. \A i \in Nat : i \in T
  <2> HIDE DEF T
  <2> QED BY <1>5, <1>6, NaturalsInSet
<1> DEFINE f == [l \in 0 .. k |-> g[l]]
<1>8. \A l \in 0 .. k : f[l] \in G[l] /\ f[l] = g[l] /\ g[l] \in U
  BY <1>3, <1>7
<1>9. ASSUME NEW l \in 0 .. k
      PROVE  g[l] = IF l = 0 THEN base ELSE step[<<l - 1, f[l - 1]>>]
  <2>1. CASE l = 0
    BY <1>4, <2>1
  <2>2. CASE l # 0
    <3>1. l - 1 \in Nat /\ l - 1 \in 0 .. k - 1 /\ l - 1 \in 0 .. k /\ (l - 1) + 1 = l
      BY <2>2
    <3>2. f[l - 1] = g[l - 1] /\ g[l - 1] \in G[l - 1] /\ g[l - 1] \in U
      BY <1>8, <3>1
    <3> HIDE DEF f
    <3>3. g[l] = up[<<l - 1, g[l - 1]>>]
      BY <1>4, <3>1
    <3> QED BY <1>2, <2>2, <3>1, <3>2, <3>3
  <2> QED BY <2>1, <2>2
<1>10. Climbs(f, k, base, step)
  BY <1>9 DEF Climbs
<1>11. f \in [0 .. k -> U]
  BY <1>8
<1> QED BY <1>8, <1>10, <1>11

\* and so new is behind n on all levels both have.
LEMMA link_commonEffect ==
  ASSUME NEW a \in SkipArrays, NEW n \in DOMAIN a.heap, NEW new \in DOMAIN a.heap, n # new,
         NEW b, b = link_common(a, n, new)
  PROVE  /\ b \in SkipArrays /\ b.height = a.height
         /\ SameNodes(a, b) /\ SamePairs(a, b) /\ SameBacks(a, b)
         /\ \A l \in LevelSet : \A q \in {NULL} \cup OnLevel(a, l) :
              After(b, q, l) =
                IF n \in OnLevel(a, l) /\ new \in OnLevel(a, l) /\ q = new THEN After(a, n, l)
                ELSE IF n \in OnLevel(a, l) /\ new \in OnLevel(a, l) /\ q = n THEN new
                ELSE After(a, q, l)
<1> DEFINE hn == a.heap[n].height
           hx == a.heap[new].height
           common == Min({hn, hx})
           Body(f) == [turns \in 0 .. common |->
                         IF turns = 0 THEN a
                         ELSE link_common_level(f[turns - 1], n, new, turns - 1)]
           w == CHOOSE f : f = Body(f)
           G == [l \in 0 .. common |-> {u \in SkipArrays : Interposed(a, u, n, new, l)}]
           step == [p \in Nat \X SkipArrays |-> link_common_level(p[2], n, new, p[1])]
<1>1. hn \in 1 .. MaxLevel /\ hx \in 1 .. MaxLevel /\ MaxLevel \in Nat
  BY ArrayParts, NodeParts, MaxLevelIs
<1>2. common = (IF hx > hn THEN hn ELSE hx) /\ common \in Nat /\ common <= MaxLevel
  <2>1. hn \in Int /\ hx \in Int
    BY <1>1
  <2> HIDE DEF hn, hx
  <2>2. common = IF hx > hn THEN hn ELSE hx
    BY <2>1, MaxOfTwo
  <2> HIDE DEF common
  <2> QED BY <1>1, <2>2
<1>3. \A l \in LevelSet : l < common <=> n \in OnLevel(a, l) /\ new \in OnLevel(a, l)
  <2> HIDE DEF common
  <2> QED BY <1>1, <1>2 DEF OnLevel, LevelSet
<1>4. b = w[common]
  BY DEF link_common
<1> HIDE DEF hn, hx, common
<1>5. common \in Nat
  BY <1>2
<1>6. a \in G[0]
  <2>1. Interposed(a, a, n, new, 0)
    <3>1. \A l \in LevelSet : ~(l < 0)
      BY <1>1 DEF LevelSet
    <3> QED BY <3>1 DEF Interposed, SameNodes, SamePairs, SameBacks
  <2> QED BY <1>2, <2>1
<1>7. ASSUME NEW l \in 0 .. common - 1, NEW u \in G[l]
      PROVE  link_common_level(u, n, new, l) \in G[l + 1]
  <2>1. l \in LevelSet /\ l < common /\ l + 1 \in 0 .. common /\ l \in 0 .. common
    BY <1>1, <1>2 DEF LevelSet
  <2>2. n \in OnLevel(a, l) /\ new \in OnLevel(a, l)
    BY <1>3, <2>1
  <2>3. Interposed(a, u, n, new, l)
    BY <2>1
  <2>4. Interposed(a, link_common_level(u, n, new, l), n, new, l + 1)
    BY <2>1, <2>2, <2>3, link_common_levelGoes
  <2>5. link_common_level(u, n, new, l) \in SkipArrays
    BY <2>4 DEF Interposed
  <2> QED BY <2>1, <2>4, <2>5
<1>8. ASSUME NEW l \in 0 .. common - 1, NEW u \in G[l]
      PROVE  step[<<l, u>>] = link_common_level(u, n, new, l)
  <2>1. l \in Nat /\ l \in 0 .. common
    BY <1>2
  <2>2. u \in SkipArrays
    BY <2>1
  <2> HIDE DEF G
  <2> QED BY <2>1, <2>2
<1>9. \A l \in 0 .. common : G[l] \subseteq SkipArrays
  OBVIOUS
<1> HIDE DEF G, step
<1>10. PICK f \in [0 .. common -> SkipArrays] :
        Climbs(f, common, a, step) /\ \A l \in 0 .. common : f[l] \in G[l]
  <2>1. \A l \in 0 .. common - 1 : \A u \in G[l] : step[<<l, u>>] \in G[l + 1]
    BY <1>7, <1>8
  <2> QED BY <1>2, <1>6, <1>9, <2>1, UpwardGood
<1>11. f = Body(f)
  <2>1. /\ f = [l \in 0 .. common |-> f[l]]
        /\ \A l \in 0 .. common : f[l] = IF l = 0 THEN a ELSE step[<<l - 1, f[l - 1]>>]
    <3>1. \A l \in 0 .. common : f[l] = IF l = 0 THEN a ELSE step[<<l - 1, f[l - 1]>>]
      BY <1>10 DEF Climbs
    <3>2. f = [l \in 0 .. common |-> f[l]]
      BY <1>10
    <3> QED BY <3>1, <3>2
  <2>2. ASSUME NEW l \in 0 .. common, l # 0
        PROVE  step[<<l - 1, f[l - 1]>>] = link_common_level(f[l - 1], n, new, l - 1)
    <3>1. l - 1 \in 0 .. common - 1 /\ l - 1 \in 0 .. common
      BY <1>5, <2>2
    <3> QED BY <1>8, <1>10, <3>1
  <2>3. \A l \in 0 .. common :
          f[l] = IF l = 0 THEN a ELSE link_common_level(f[l - 1], n, new, l - 1)
    BY <2>1, <2>2
  <2> QED BY <2>1, <2>3
<1> HIDE DEF Body
<1>12. w = Body(w)
  BY <1>11
<1> HIDE DEF w
<1>13. \A l \in 0 .. common :
         w[l] = IF l = 0 THEN a ELSE link_common_level(w[l - 1], n, new, l - 1)
  BY <1>12 DEF Body
<1> DEFINE T == {i \in Nat : i <= common => w[i] \in G[i]}
<1>14. 0 \in T
  <2>1. 0 \in 0 .. common
    BY <1>2
  <2>2. w[0] = a
    BY <1>13, <2>1
  <2>3. w[0] \in G[0]
    BY <1>6, <2>2
  <2> QED BY <2>3
<1>15. ASSUME NEW i \in Nat, i \in T
       PROVE  i + 1 \in T
  <2>1. SUFFICES ASSUME i + 1 <= common PROVE w[i + 1] \in G[i + 1]
    OBVIOUS
  <2>2. i \in 0 .. common - 1 /\ i + 1 \in 0 .. common /\ i + 1 # 0 /\ (i + 1) - 1 = i
        /\ w[i] \in G[i]
    BY <1>5, <1>15, <2>1
  <2>3. w[i + 1] = link_common_level(w[i], n, new, i)
    BY <1>13, <2>2
  <2> QED BY <1>7, <2>2, <2>3
<1>16. Interposed(a, b, n, new, common)
  <2>1. common \in T
    <3> HIDE DEF T
    <3> QED BY <1>2, <1>14, <1>15, NaturalsInSet
  <2>2. w[common] \in G[common] /\ common \in 0 .. common
    BY <1>2, <2>1
  <2> QED BY <1>4, <2>2 DEF G
<1> QED BY <1>3, <1>16 DEF Interposed

\* The new node is linked on all its levels, and what was behind n points back to it.
LEMMA link_newFormed ==
  ASSUME NEW a, NEW r, Formed(a, r), NEW n, NEW new, Beside(a, r, n, new),
         NEW h \in 1 .. MaxLevel, NEW b, Grown(a, b, new, h), KeysTell(r, b, new),
         b.height = a.height,
         \A l \in LevelSet : Untouched(a, b, l) /\ (l < h => After(b, new, l) = NULL),
         b.heap[n].fwd = a.heap[n].fwd,
         \A m \in DOMAIN a.heap : b.heap[m].back = a.heap[m].back, b.heap[new].back = n,
         NEW c, c = link_new(b, n, new)
  PROVE  Formed(c, r) /\ SamePairs(b, c) /\ DOMAIN c.heap = DOMAIN a.heap \cup {new}
<1> DEFINE N == DOMAIN a.heap
           hn == a.heap[n].height
           y == After(a, n, 0)
           c1 == SetBack(b, y, new)
           c2 == link_above(c1, n, new)
           c3 == raise_height(c2, new)
<1>1. /\ a \in SkipArrays /\ b \in SkipArrays /\ n \in N /\ new \notin N
      /\ new \in Nat /\ new # NULL /\ n # NULL /\ n # new
      /\ DOMAIN b.heap = N \cup {new} /\ b.heap[new].height = h
      /\ \A m \in N : b.heap[m].height = a.heap[m].height
      /\ a.height \in 1 .. MaxLevel /\ hn \in 1 .. MaxLevel /\ MaxLevel \in Nat
  BY FormedFacts, ArrayParts, NodeParts, MaxLevelIs DEF Beside, Grown
<1>2. y \in {NULL} \cup N /\ Follows(r, N, n, y)
  <2>1. Follows(r, N, n, y)
    BY <1>1, FormedFacts
  <2> QED BY <2>1 DEF Follows
<1>3. c = link_common(c3, n, new)
  BY <1>1 DEF link_new, After
<1> HIDE DEF y, c1, c2, c3
<1>4. /\ c1 \in SkipArrays /\ c1.height = b.height
      /\ SameNodes(b, c1) /\ SamePairs(b, c1) /\ SameLinks(b, c1)
      /\ BackIs(b, c1, y, new)
  <2>1. y \in {NULL} \cup DOMAIN b.heap
    BY <1>1, <1>2
  <2>2. b \in SkipArrays /\ new \in Nat
    BY <1>1
  <2>3. c1 = SetBack(b, y, new)
    BY DEF c1
  <2> QED BY ONLY <2>1, <2>2, <2>3, SetBackEffect
<1>5. Grown(a, c1, new, h) /\ c1.height = a.height
  BY <1>1, <1>4 DEF Grown, SameNodes
<1>6. \A l \in LevelSet : OnLevel(b, l) = OnLevel(a, l) \cup (IF l < h THEN {new} ELSE {})
  BY <1>1, GrownLevels
<1>7. \A l \in LevelSet : Untouched(a, c1, l) /\ (l < h => After(c1, new, l) = NULL)
  <2>1. ASSUME NEW l \in LevelSet, NEW q \in {NULL} \cup OnLevel(a, l)
        PROVE  After(c1, q, l) = After(a, q, l)
    <3>1. q \in {NULL} \cup OnLevel(b, l)
      BY <1>6
    <3>2. After(c1, q, l) = After(b, q, l)
      BY <1>4, <3>1 DEF SameLinks
    <3>3. After(b, q, l) = After(a, q, l)
      BY DEF Untouched
    <3> QED BY <3>2, <3>3
  <2>2. ASSUME NEW l \in LevelSet, l < h
        PROVE  After(c1, new, l) = NULL
    <3>1. new \in {NULL} \cup OnLevel(b, l)
      BY <1>6, <2>2
    <3> QED BY <1>4, <2>2, <3>1 DEF SameLinks
  <2> QED BY <2>1, <2>2 DEF Untouched
<1>8. KeysTell(r, c1, new)
  BY <1>1, <1>4 DEF KeysTell, LastKey, FirstKey, Count, SamePairs, SameNodes
<1>9. LinkedFrom(a, r, c1, new, h, hn, c2)
  <2> HIDE DEF hn
  <2> QED BY <1>5, <1>7, <1>8, link_aboveEffect DEF c2, hn
<1>10. /\ c2 \in SkipArrays /\ c2.height = a.height
       /\ SameNodes(c1, c2) /\ SamePairs(c1, c2) /\ SameBacks(c1, c2)
       /\ \A k \in LevelSet :
            IF k < h /\ k < a.height /\ k >= hn THEN Spliced(a, r, c2, new, k)
            ELSE Untouched(a, c2, k) /\ (k < h => After(c2, new, k) = NULL)
  BY <1>9 DEF LinkedFrom
<1>11. /\ new \in DOMAIN c2.heap /\ n \in DOMAIN c2.heap /\ c2.heap[new].height = h
       /\ DOMAIN c2.heap = N \cup {new} /\ SameNodes(b, c2)
  BY <1>1, <1>4, <1>10 DEF SameNodes
<1>12. /\ c3 \in SkipArrays /\ c3.height = IF h > a.height THEN h ELSE a.height
       /\ SameNodes(c2, c3) /\ SamePairs(c2, c3) /\ SameBacks(c2, c3)
       /\ \A l \in LevelSet : \A q \in {NULL} \cup OnLevel(c2, l) :
            After(c3, q, l) = IF q = NULL /\ a.height <= l /\ l < h THEN new
                              ELSE After(c2, q, l)
  BY <1>10, <1>11, raise_heightEffect DEF c3
<1>13. new \in DOMAIN c3.heap /\ n \in DOMAIN c3.heap /\ SameNodes(b, c3)
  BY <1>11, <1>12 DEF SameNodes
<1>14. /\ c \in SkipArrays /\ c.height = c3.height
       /\ SameNodes(c3, c) /\ SamePairs(c3, c) /\ SameBacks(c3, c)
       /\ \A l \in LevelSet : \A q \in {NULL} \cup OnLevel(c3, l) :
            After(c, q, l) =
                IF n \in OnLevel(c3, l) /\ new \in OnLevel(c3, l) /\ q = new THEN After(c3, n, l)
                ELSE IF n \in OnLevel(c3, l) /\ new \in OnLevel(c3, l) /\ q = n THEN new
                ELSE After(c3, q, l)
  BY <1>1, <1>3, <1>12, <1>13, link_commonEffect
<1>15. SameNodes(b, c) /\ SamePairs(b, c)
  BY <1>4, <1>10, <1>12, <1>13, <1>14 DEF SameNodes, SamePairs
<1>16. Grown(a, c, new, h) /\ DOMAIN c.heap = N \cup {new}
  BY <1>1, <1>14, <1>15 DEF Grown, SameNodes
<1>17. /\ \A m \in N : c.heap[m].back = IF m = y THEN new ELSE a.heap[m].back
       /\ c.heap[new].back = n
  <2>1. \A m \in N \cup {new} : c.heap[m].back = c1.heap[m].back
    BY <1>1, <1>4, <1>10, <1>12, <1>13, <1>14 DEF SameBacks, SameNodes
  <2>2. y # new
    BY <1>1, <1>2
  <2>3. \A m \in N \cup {new} : c1.heap[m].back = IF m = y THEN new ELSE b.heap[m].back
    BY <1>1, <1>4 DEF BackIs
  <2> QED BY <1>1, <2>1, <2>2, <2>3
<1>18. \A l \in LevelSet : OnLevel(c2, l) = OnLevel(b, l) /\ OnLevel(c3, l) = OnLevel(b, l)
  BY <1>11, <1>13, OnLevelSame
<1>19. ASSUME NEW l \in LevelSet
       PROVE  IF l < h THEN Spliced(a, r, c, new, l) ELSE Untouched(a, c, l)
  <2> DEFINE T == OnLevel(a, l)
  <2>1. /\ OnLevel(c2, l) = T \cup (IF l < h THEN {new} ELSE {})
        /\ OnLevel(c3, l) = T \cup (IF l < h THEN {new} ELSE {})
        /\ T \subseteq N /\ l \in Int /\ h \in Int /\ a.height \in Int /\ hn \in Int
        /\ NULL \notin N
    BY <1>1, <1>6, <1>18, ArrayParts DEF OnLevel, LevelSet
  <2>2. n \in T <=> l < hn
    BY <1>1 DEF OnLevel
  <2>3. T # {} <=> l < a.height
    BY DEF Formed, Tall
  <2> HIDE DEF T, hn, N
  <2>4. \A q \in {NULL} \cup OnLevel(c2, l) :
          After(c3, q, l) = IF q = NULL /\ a.height <= l /\ l < h THEN new
                            ELSE After(c2, q, l)
    BY <1>12
  <2>5. \A q \in {NULL} \cup OnLevel(c3, l) :
          After(c, q, l) =
            IF n \in OnLevel(c3, l) /\ new \in OnLevel(c3, l) /\ q = new THEN After(c3, n, l)
            ELSE IF n \in OnLevel(c3, l) /\ new \in OnLevel(c3, l) /\ q = n THEN new
            ELSE After(c3, q, l)
    BY <1>14
  <2>6. CASE ~(l < h)
    <3>1. Untouched(a, c2, l)
      BY <1>10, <2>6
    <3>2. \A q \in {NULL} \cup T : After(c3, q, l) = After(c2, q, l)
      BY <2>1, <2>4, <2>6
    <3>3. \A q \in {NULL} \cup T : After(c, q, l) = After(c3, q, l)
      BY <1>1, <2>1, <2>5, <2>6
    <3>4. Untouched(a, c, l)
      BY <3>1, <3>2, <3>3 DEF Untouched, T
    <3> QED BY <2>6, <3>4
  <2>7. CASE l < h /\ l < hn
    <3>1. n \in T /\ l < a.height
      BY <2>2, <2>3, <2>7
    <3>2. Untouched(a, c2, l) /\ ~(a.height <= l)
      BY <1>10, <2>1, <2>7, <3>1
    <3>3. \A q \in {NULL} \cup T : After(c3, q, l) = After(a, q, l)
      BY <2>1, <2>4, <3>2 DEF Untouched, T
    <3>4. /\ After(c, n, l) = new /\ After(c, new, l) = After(a, n, l)
          /\ \A q \in {NULL} \cup T : q # n => After(c, q, l) = After(a, q, l)
      BY <1>1, <2>1, <2>5, <2>7, <3>1, <3>3 DEF N
    <3>5. InFront(r, T, n, new)
      <4>1. \A m \in T : r[m] < r[new] => r[m] <= r[n]
        <5>1. \A m \in T : m \in N /\ r[m] \in Nat
          BY <2>1, FormedFacts DEF N
        <5>2. \A m \in N : r[m] <= r[n] \/ r[new] < r[m]
          BY DEF Beside, N
        <5>3. r[new] \in Nat /\ r[n] \in Nat
          BY DEF Beside, Ranks
        <5> QED BY <5>1, <5>2, <5>3
      <4> QED BY <1>1, <3>1, <4>1 DEF InFront, Behind, Beside
    <3>6. Spliced(a, r, c, new, l)
      BY <3>4, <3>5 DEF Spliced, T
    <3> QED BY <2>7, <3>6
  <2>8. CASE l < h /\ ~(l < hn) /\ l < a.height
    <3>1. Spliced(a, r, c2, new, l)
      BY <1>10, <2>1, <2>8
    <3>2. PICK p : /\ InFront(r, T, p, new)
                   /\ After(c2, p, l) = new /\ After(c2, new, l) = After(a, p, l)
                   /\ \A q \in {NULL} \cup T : q # p => After(c2, q, l) = After(a, q, l)
      BY <3>1 DEF Spliced, T
    <3>3. p \in {NULL} \cup T
      BY <3>2 DEF InFront
    <3>4. n \notin OnLevel(c3, l)
      BY <1>1, <2>1, <2>2, <2>8
    <3>5. \A q \in {NULL} \cup T \cup {new} : After(c, q, l) = After(c2, q, l)
      BY <2>1, <2>4, <2>5, <2>8, <3>4
    <3>6. /\ After(c, p, l) = new /\ After(c, new, l) = After(a, p, l)
          /\ \A q \in {NULL} \cup T : q # p => After(c, q, l) = After(a, q, l)
      BY <3>2, <3>3, <3>5
    <3>7. Spliced(a, r, c, new, l)
      BY <3>2, <3>6 DEF Spliced, T
    <3> QED BY <2>8, <3>7
  <2>9. CASE l < h /\ ~(l < a.height)
    <3>1. T = {} /\ n \notin OnLevel(c3, l)
      BY <1>1, <2>1, <2>3, <2>9
    <3>2. Untouched(a, c2, l) /\ After(c2, new, l) = NULL
      BY <1>10, <2>9
    <3>3. After(a, NULL, l) = NULL
      <4>1. Follows(r, T, NULL, After(a, NULL, l))
        BY FormedFacts DEF T
      <4> QED BY <3>1, <4>1 DEF Follows
    <3>4. After(c, NULL, l) = new /\ After(c, new, l) = NULL
      BY <1>1, <2>1, <2>4, <2>5, <2>9, <3>1, <3>2
    <3>5. InFront(r, T, NULL, new)
      BY <3>1 DEF InFront, Behind
    <3>6. Spliced(a, r, c, new, l)
      BY <3>1, <3>3, <3>4, <3>5 DEF Spliced, T
    <3> QED BY <2>9, <3>6
  <2> QED BY <2>6, <2>7, <2>8, <2>9
<1>20. c.height = IF h > a.height THEN h ELSE a.height
  BY <1>12, <1>14
<1>21. Formed(c, r)
  BY <1>16, <1>17, <1>19, <1>20, GrownFormed DEF y
<1> QED BY <1>15, <1>16, <1>21

\* b has the pairs of a, those of n divided between n and new.
Shared(a, b, n, new, keep) ==
  /\ DOMAIN b.heap = DOMAIN a.heap \cup {new}
  /\ \A m \in DOMAIN a.heap : m # n => b.heap[m].pairs = a.heap[m].pairs
  /\ b.heap[n].pairs = SubSeq(a.heap[n].pairs, 1, keep)
  /\ b.heap[new].pairs = SubSeq(a.heap[n].pairs, keep + 1, Len(a.heap[n].pairs))

\* The pairs are all there,
LEMMA SharedBindings ==
  ASSUME NEW a, a \in SkipArrays, NEW n \in DOMAIN a.heap, NEW new, new \notin DOMAIN a.heap,
         NEW keep \in 0 .. Count(a, n), NEW b, Shared(a, b, n, new, keep)
  PROVE  SameBindings(a, b)
<1> SUFFICES ASSUME NEW p
             PROVE  Binds(b, p) <=> Binds(a, p)
  BY DEF SameBindings
<1>1. a.heap[n].pairs \in Seq(AllPairs) /\ keep \in 0 .. Len(a.heap[n].pairs)
  BY PairsType DEF Count
<1>2. Contains(a.heap[n].pairs, p) <=> \/ Contains(SubSeq(a.heap[n].pairs, 1, keep), p)
                                       \/ Contains(SubSeq(a.heap[n].pairs, keep + 1,
                                                          Len(a.heap[n].pairs)), p)
  <2> DEFINE s == a.heap[n].pairs
  <2>1. s \in Seq(AllPairs) /\ keep \in 0 .. Len(s)
    BY <1>1
  <2> HIDE DEF s
  <2>2. Contains(s, p) <=> \/ Contains(SubSeq(s, 1, keep), p)
                           \/ Contains(SubSeq(s, keep + 1, Len(s)), p)
    BY ONLY <2>1, ContainsParts
  <2> QED BY <2>2 DEF s
<1>3. Contains(a.heap[n].pairs, p) <=> Contains(b.heap[n].pairs, p) \/ Contains(b.heap[new].pairs, p)
  BY ONLY <1>2, Shared(a, b, n, new, keep) DEF Shared
<1> QED BY <1>3 DEF Binds, Shared

\* the two halves of a full node are in order, and a gap of n is one of a half.
LEMMA SharedKeys ==
  ASSUME NEW a, NEW r, Sound(a, r), NEW n, NEW new, Beside(a, r, n, new),
         NEW c, c = Count(a, n), c = NodeSize, NEW keep, keep = c - c \div 2,
         NEW b, Shared(a, b, n, new, keep)
  PROVE  /\ Ordered(b, r) /\ Filled(b) /\ KeysTell(r, b, new)
         /\ keep \in Nat /\ Count(b, n) = keep /\ keep < NodeSize /\ Count(b, new) < NodeSize
         /\ \A key \in Nat : \A index : GapAt(a, r, key, n, index) =>
              IF index > keep THEN GapAt(b, r, key, new, index - keep)
                              ELSE GapAt(b, r, key, n, index)
<1> DEFINE N == DOMAIN a.heap
           p == a.heap[n].pairs
           low == SubSeq(p, 1, keep)
           high == SubSeq(p, keep + 1, Len(p))
<1>1. /\ a \in SkipArrays /\ n \in N /\ new \notin N /\ new # n
      /\ \A m \in N : r[m] \in Nat
      /\ r[new] \in Nat /\ r[n] < r[new] /\ \A m \in N : r[m] <= r[n] \/ r[new] < r[m]
      /\ \A m, q \in N : r[m] = r[q] => m = q
  BY FormedFacts DEF Sound, Beside, Ranks
<1>2. c \in Nat /\ c >= 2
  BY SkipListAssumption
<1>3. keep \in 1 .. c - 1 /\ keep \in Nat
  <2>1. ASSUME NEW k \in Nat, k >= 2 PROVE k - k \div 2 \in 1 .. k - 1
    BY <2>1
  <2> QED BY <1>2, <2>1
<1>4. /\ p \in Seq(AllPairs) /\ Len(p) = c /\ DOMAIN p = 1 .. c
      /\ \A i \in 1 .. c : p[i].key \in Nat
  BY <1>1, PairsType DEF Count
<1>5. \A i, j \in 1 .. c : i < j => p[i].key < p[j].key
  BY <1>1, <1>4 DEF Sound, Ordered, Ascending
<1>6. /\ low \in Seq(AllPairs) /\ Len(low) = keep /\ DOMAIN low = 1 .. keep
      /\ high \in Seq(AllPairs) /\ Len(high) = c - keep /\ DOMAIN high = 1 .. c - keep
      /\ \A j \in 1 .. keep : low[j] = p[j]
      /\ \A j \in 1 .. c - keep : high[j] = p[keep + j]
  <2>1. keep \in 0 .. Len(p)
    BY <1>2, <1>3, <1>4
  <2> HIDE DEF p
  <2>2. /\ low \in Seq(AllPairs) /\ Len(low) = keep
        /\ high \in Seq(AllPairs) /\ Len(high) = c - keep
    BY <1>4, <2>1, CutProperties
  <2>3. /\ \A j \in 1 .. keep : low[j] = p[j]
        /\ \A j \in 1 .. c - keep : high[j] = p[keep + j]
    BY <1>4, <2>1, CutElements
  <2> QED BY <2>2, <2>3
<1>7. /\ DOMAIN b.heap = N \cup {new} /\ b.heap[n].pairs = low /\ b.heap[new].pairs = high
      /\ \A m \in N : m # n => b.heap[m].pairs = a.heap[m].pairs
  BY DEF Shared
<1> HIDE DEF low, high
<1>8. /\ \A j \in DOMAIN low : j \in DOMAIN p /\ low[j] = p[j]
      /\ \A j \in DOMAIN high : keep + j \in DOMAIN p /\ high[j] = p[keep + j]
  <2>1. \A j \in 1 .. keep : j \in 1 .. c
    BY <1>2, <1>3
  <2>2. \A j \in 1 .. c - keep : keep + j \in 1 .. c
    BY <1>2, <1>3
  <2> HIDE DEF p
  <2>3. \A j \in DOMAIN low : j \in DOMAIN p /\ low[j] = p[j]
    BY <1>4, <1>6, <2>1
  <2>4. \A j \in DOMAIN high : keep + j \in DOMAIN p /\ high[j] = p[keep + j]
    BY <1>4, <1>6, <2>2
  <2> QED BY <2>3, <2>4
<1> HIDE DEF p
<1>9. Ascending(low) /\ Ascending(high) /\ Below(low, high)
  <2>1. ASSUME NEW i \in DOMAIN low, NEW j \in DOMAIN low, i < j
        PROVE  low[i].key < low[j].key
    BY <1>4, <1>5, <1>8, <2>1
  <2>2. ASSUME NEW i \in DOMAIN high, NEW j \in DOMAIN high, i < j
        PROVE  high[i].key < high[j].key
    <3>1. keep + i < keep + j
      BY <1>3, <1>6, <2>2
    <3> QED BY <1>4, <1>5, <1>8, <3>1
  <2>3. ASSUME NEW i \in DOMAIN low, NEW j \in DOMAIN high
        PROVE  low[i].key < high[j].key
    <3>1. i < keep + j
      BY <1>3, <1>6
    <3> QED BY <1>4, <1>5, <1>8, <3>1
  <2> QED BY <2>1, <2>2, <2>3 DEF Ascending, Below
<1>10. ASSUME NEW m \in N
       PROVE  /\ r[m] < r[n] => Below(a.heap[m].pairs, low) /\ Below(a.heap[m].pairs, high)
              /\ r[n] < r[m] => Below(low, a.heap[m].pairs) /\ Below(high, a.heap[m].pairs)
  <2>1. /\ r[m] < r[n] => Below(a.heap[m].pairs, p)
        /\ r[n] < r[m] => Below(p, a.heap[m].pairs)
    BY <1>1 DEF Sound, Ordered, p
  <2> QED BY <1>8, <2>1 DEF Below
<1>11. \A m \in N : Count(a, m) \in Nat /\ Count(a, m) # 0
  <2>1. ASSUME NEW m \in N, Count(a, m) = 0
        PROVE  FALSE
    <3>1. N = {m}
      BY <2>1 DEF Sound, Filled
    <3>2. n = m
      BY <1>1, <3>1
    <3>3. c = 0
      BY <2>1, <3>2
    <3> QED BY ONLY <1>2, <3>3
  <2> QED BY <1>1, <2>1, PairsType
<1>12. /\ Count(b, n) = keep /\ Count(b, new) = c - keep
       /\ \A m \in N : m # n => Count(b, m) = Count(a, m)
  BY <1>6, <1>7 DEF Count
<1>13. Filled(b)
  <2>1. \A m \in DOMAIN b.heap : Count(b, m) # 0
    BY <1>2, <1>3, <1>7, <1>11, <1>12
  <2> QED BY <2>1 DEF Filled
<1>14. Ordered(b, r)
  <2>1. ASSUME NEW m \in DOMAIN b.heap
        PROVE  Ascending(b.heap[m].pairs) /\ Count(b, m) <= NodeSize
    <3>1. CASE m = n
      BY <1>2, <1>3, <1>7, <1>9, <1>12, <3>1
    <3>2. CASE m = new
      BY <1>2, <1>3, <1>7, <1>9, <1>12, <3>2
    <3>3. CASE m # n /\ m # new
      BY <1>7, <1>12, <3>3 DEF Sound, Ordered
    <3> QED BY <3>1, <3>2, <3>3
  <2>2. ASSUME NEW m \in DOMAIN b.heap, NEW q \in DOMAIN b.heap, r[m] < r[q]
        PROVE  Below(b.heap[m].pairs, b.heap[q].pairs)
    <3>1. (m \in N \/ m = new) /\ (q \in N \/ q = new)
      BY <1>7
    <3>2. CASE m = new
      <4>1. q \in N /\ q # n /\ r[n] < r[q]
        BY <1>1, <2>2, <3>1, <3>2
      <4> QED BY <1>7, <1>10, <3>2, <4>1
    <3>3. CASE m = n
      <4>1. q = new \/ (q \in N /\ q # n /\ r[n] < r[q])
        BY <1>1, <2>2, <3>1, <3>3
      <4> QED BY <1>7, <1>9, <1>10, <3>3, <4>1
    <3>4. CASE m # n /\ m # new
      <4>1. m \in N
        BY <3>1, <3>4
      <4>2. CASE q = new
        <5>1. r[m] < r[n]
          BY <1>1, <2>2, <3>4, <4>1, <4>2
        <5> QED BY <1>7, <1>10, <3>4, <4>1, <4>2, <5>1
      <4>3. CASE q = n
        BY <1>7, <1>10, <2>2, <3>4, <4>1, <4>3
      <4>4. CASE q # n /\ q # new
        <5>1. Below(a.heap[m].pairs, a.heap[q].pairs)
          BY <2>2, <3>1, <4>1, <4>4 DEF Sound, Ordered
        <5> QED BY <1>7, <3>1, <3>4, <4>1, <4>4, <5>1
      <4> QED BY <4>2, <4>3, <4>4
    <3> QED BY <3>2, <3>3, <3>4
  <2> QED BY <2>1, <2>2 DEF Ordered
<1>15. KeysTell(r, b, new)
  <2>1. ASSUME NEW m \in DOMAIN b.heap
        PROVE  LastKey(b, m) < FirstKey(b, new) <=> r[m] < r[new]
    <3> DEFINE s == b.heap[m].pairs
    <3>1. Count(b, m) \in DOMAIN s /\ 1 \in DOMAIN high
      <4>1. CASE m = n \/ m = new
        BY <1>2, <1>3, <1>6, <1>7, <1>12, <4>1
      <4>2. CASE m # n /\ m # new
        <5>1. m \in N /\ s = a.heap[m].pairs /\ Count(b, m) = Count(a, m)
          BY <1>7, <1>12, <4>2
        <5>2. DOMAIN a.heap[m].pairs = 1 .. Count(a, m) /\ Count(a, m) \in Nat
          BY <1>1, <5>1, PairsType
        <5> QED BY <1>2, <1>3, <1>6, <1>11, <5>1, <5>2
      <4> QED BY <4>1, <4>2
    <3>2. LastKey(b, m) = s[Count(b, m)].key /\ FirstKey(b, new) = high[1].key
      BY <1>7 DEF LastKey, FirstKey
    <3>3. high[1].key \in Nat
      BY <1>4, <1>8, <3>1
    <3>4. CASE m = new
      <4>1. Count(b, m) = 1 \/ 1 < Count(b, m)
        BY <1>2, <1>3, <1>12, <3>4
      <4>2. s[Count(b, m)].key \in Nat
        BY <1>4, <1>7, <1>8, <3>1, <3>4
      <4>3. s[Count(b, m)].key >= high[1].key
        BY <1>7, <1>9, <3>1, <3>3, <3>4, <4>1, <4>2 DEF Ascending
      <4> QED BY <1>1, <3>2, <3>3, <3>4, <4>2, <4>3
    <3>5. CASE m = n
      <4>1. s[Count(b, m)].key < high[1].key
        BY <1>7, <1>9, <3>1, <3>5 DEF Below
      <4> QED BY <1>1, <3>2, <3>5, <4>1
    <3>6. CASE m # n /\ m # new
      <4>1. m \in N /\ s = a.heap[m].pairs
        BY <1>7, <3>6
      <4>2. CASE r[m] < r[n]
        <5>1. s[Count(b, m)].key < high[1].key
          BY <1>10, <3>1, <4>1, <4>2 DEF Below
        <5> QED BY <1>1, <3>2, <4>1, <4>2, <5>1
      <4>3. CASE r[n] < r[m]
        <5>1. high[1].key < s[Count(b, m)].key
          BY <1>10, <3>1, <4>1, <4>3 DEF Below
        <5>2. s[Count(b, m)].key \in Nat
          <6>1. a.heap[m].pairs[Count(b, m)].key \in Nat
            BY <1>1, <3>1, <4>1, PairsType
          <6> QED BY <4>1, <6>1
        <5>3. ~(r[m] < r[new])
          BY <1>1, <4>1, <4>3
        <5> QED BY <3>2, <3>3, <5>1, <5>2, <5>3
      <4> QED BY <1>1, <3>6, <4>1, <4>2, <4>3
    <3> QED BY <3>4, <3>5, <3>6
  <2> QED BY <2>1 DEF KeysTell
<1>16. ASSUME NEW key \in Nat, NEW index, GapAt(a, r, key, n, index)
       PROVE  IF index > keep THEN GapAt(b, r, key, new, index - keep)
                              ELSE GapAt(b, r, key, n, index)
  <2>1. /\ index \in 0 .. c
        /\ \A i \in DOMAIN p : /\ i <= index => p[i].key < key
                               /\ i > index => p[i].key > key
        /\ \A m \in N : \A i \in DOMAIN a.heap[m].pairs :
             /\ r[m] < r[n] => a.heap[m].pairs[i].key < key
             /\ r[m] > r[n] => a.heap[m].pairs[i].key > key
    BY <1>4, <1>16 DEF GapAt, Splits, p
  <2>2. CASE index > keep
    <3>1. Splits(high, key, index - keep)
      <4>1. index - keep \in 0 .. Len(high)
        BY <1>2, <1>3, <1>6, <2>1, <2>2
      <4>2. ASSUME NEW i \in DOMAIN high
            PROVE  /\ i <= index - keep => high[i].key < key
                   /\ i > index - keep => high[i].key > key
        <5>1. /\ i <= index - keep <=> keep + i <= index
              /\ i > index - keep <=> keep + i > index
          BY <1>2, <1>3, <1>6, <2>1
        <5> QED BY <1>8, <2>1, <5>1
      <4> QED BY <4>1, <4>2 DEF Splits
    <3>2. ASSUME NEW m \in DOMAIN b.heap, NEW i \in DOMAIN b.heap[m].pairs
          PROVE  /\ r[m] < r[new] => b.heap[m].pairs[i].key < key
                 /\ r[m] > r[new] => b.heap[m].pairs[i].key > key
      <4>1. CASE m = new
        BY <1>1, <4>1
      <4>2. CASE m = n
        <5>1. i \in DOMAIN low /\ i <= index
          BY <1>2, <1>3, <1>6, <1>7, <2>1, <2>2, <4>2
        <5>2. low[i].key < key
          BY <1>8, <2>1, <5>1
        <5> QED BY <1>1, <1>7, <4>2, <5>2
      <4>3. CASE m # n /\ m # new
        <5>1. m \in N /\ b.heap[m].pairs = a.heap[m].pairs
          BY <1>7, <4>3
        <5>2. (r[m] < r[new] => r[m] < r[n]) /\ (r[m] > r[new] => r[m] > r[n])
          BY <1>1, <4>3, <5>1
        <5> QED BY <2>1, <5>1, <5>2
      <4> QED BY <4>1, <4>2, <4>3
    <3> QED BY <1>7, <2>2, <3>1, <3>2 DEF GapAt
  <2>3. CASE ~(index > keep)
    <3>1. Splits(low, key, index)
      <4>1. index \in 0 .. Len(low)
        BY <1>2, <1>3, <1>6, <2>1, <2>3
      <4> QED BY <1>8, <2>1, <4>1 DEF Splits
    <3>2. ASSUME NEW m \in DOMAIN b.heap, NEW i \in DOMAIN b.heap[m].pairs
          PROVE  /\ r[m] < r[n] => b.heap[m].pairs[i].key < key
                 /\ r[m] > r[n] => b.heap[m].pairs[i].key > key
      <4>1. CASE m = new
        <5>1. i \in DOMAIN high /\ keep + i > index
          BY <1>2, <1>3, <1>6, <1>7, <2>1, <2>3, <4>1
        <5>2. high[i].key > key
          BY <1>8, <2>1, <5>1
        <5> QED BY <1>1, <1>7, <4>1, <5>2
      <4>2. CASE m = n
        BY <1>1, <4>2
      <4>3. CASE m # n /\ m # new
        <5>1. m \in N /\ b.heap[m].pairs = a.heap[m].pairs
          BY <1>7, <4>3
        <5> QED BY <2>1, <5>1
      <4> QED BY <4>1, <4>2, <4>3
    <3> QED BY <1>7, <2>3, <3>1, <3>2 DEF GapAt
  <2> QED BY <2>2, <2>3
<1>17. keep < NodeSize /\ Count(b, new) < NodeSize
  BY <1>2, <1>3, <1>12
<1> QED BY <1>3, <1>12, <1>13, <1>14, <1>15, <1>16, <1>17

\* d is a with the pairs of n halved, and the pair in one of the halves; r
\* ranks the nodes of a, s those of d.
SplitUp(a, r, n, index, pair, d, s) ==
  \E new, c :
    LET keep == Count(a, n) - Count(a, n) \div 2
    IN  /\ Sound(c, s) /\ RoomBehind(r, s, DOMAIN a.heap, n, new) /\ new \notin DOMAIN a.heap
        /\ Shared(a, c, n, new, keep)
        /\ d = IF index > keep THEN insert_pair(c, new, index - keep, pair)
                               ELSE insert_pair(c, n, index, pair)

\* A pair that does not fit its node goes into one of the halves.
LEMMA split_and_insertSound ==
  ASSUME NEW a, NEW r, Sound(a, r), NEW n \in DOMAIN a.heap, NEW pair \in AllPairs,
         NEW index, GapAt(a, r, pair.key, n, index), Count(a, n) = NodeSize,
         NEW h \in 1 .. MaxLevel, NEW d, d = split_and_insert(a, n, index, h, pair)
  PROVE  (\E s : Sound(d, s) /\ SplitUp(a, r, n, index, pair, d, s)) /\ Gains(a, d, pair)
<1> DEFINE new == FreshNode(a)
           N == DOMAIN a.heap
           p == a.heap[n].pairs
           keep == Len(p) - Len(p) \div 2
           b == split_node(a, n, new, h)
           c == link_new(b, n, new)
<1>1. a \in SkipArrays /\ Ranks(r, N) /\ pair.key \in Nat /\ Len(p) = Count(a, n)
  BY KeysAreNumbers DEF Sound, Formed, Count
<1>2. new \in Nat \ {NULL} /\ new \notin N
  BY <1>1, FreshNodeIsNew
<1>3. d = IF index > Count(c, n) THEN insert_pair(c, new, index - Count(c, n), pair)
          ELSE insert_pair(c, n, index, pair)
  BY DEF split_and_insert
<1> HIDE DEF new, b, c
<1>4. PICK s : RoomBehind(r, s, N, n, new)
  <2>1. n \in N
    OBVIOUS
  <2>2. Ranks(r, N) /\ new \in Nat \ {NULL} /\ new \notin N
    BY <1>1, <1>2
  <2> HIDE DEF N
  <2> QED BY ONLY <2>1, <2>2, RanksMakeRoom
<1>5. Sound(a, s) /\ GapAt(a, s, pair.key, n, index)
  BY <1>4, SoundByOrder DEF RoomBehind
<1>6. Beside(a, s, n, new) /\ Formed(a, s)
  BY <1>2, <1>4, <1>5 DEF Beside, Sound, RoomBehind
<1>7. /\ Grown(a, b, new, h) /\ b.height = a.height
      /\ \A l \in LevelSet : Untouched(a, b, l) /\ (l < h => After(b, new, l) = NULL)
      /\ b.heap[n].fwd = a.heap[n].fwd
      /\ \A m \in DOMAIN a.heap : /\ b.heap[m].back = a.heap[m].back
                                  /\ m # n => b.heap[m].pairs = a.heap[m].pairs
      /\ b.heap[new].back = n
      /\ b.heap[n].pairs = SubSeq(p, 1, keep)
      /\ b.heap[new].pairs = SubSeq(p, keep + 1, Len(p))
  <2>1. b = split_node(a, n, new, h) /\ p = a.heap[n].pairs
        /\ keep = Len(p) - Len(p) \div 2
    BY DEF b
  <2>2. /\ a \in SkipArrays /\ n \in DOMAIN a.heap /\ h \in 1 .. MaxLevel
        /\ new \in Nat \ {NULL} /\ new \notin DOMAIN a.heap
    BY <1>1, <1>2
  <2> HIDE DEF p, keep
  <2>3. Halved(a, b, n, new, h, p, keep)
    BY ONLY <2>1, <2>2, SplitEffect
  <2> QED BY <2>3 DEF Halved
<1>8. Shared(a, b, n, new, keep)
  BY <1>7 DEF Shared, Grown
<1> HIDE DEF p, keep
<1>9. keep = Count(a, n) - Count(a, n) \div 2
  BY <1>1 DEF keep
<1>10. KeysTell(s, b, new)
  BY <1>5, <1>6, <1>8, <1>9, SharedKeys
<1>11. Formed(c, s) /\ SamePairs(b, c) /\ DOMAIN c.heap = N \cup {new}
  BY <1>6, <1>7, <1>10, link_newFormed DEF c
<1>12. Shared(a, c, n, new, keep)
  <2>1. n \in DOMAIN b.heap /\ new \in DOMAIN b.heap /\ DOMAIN b.heap = N \cup {new}
    BY <1>7 DEF Grown
  <2> QED BY <1>8, <1>11, <2>1 DEF Shared, SamePairs
<1>13. /\ Ordered(c, s) /\ Filled(c) /\ keep \in Nat /\ Count(c, n) = keep
       /\ keep < NodeSize /\ Count(c, new) < NodeSize
       /\ IF index > keep THEN GapAt(c, s, pair.key, new, index - keep)
                          ELSE GapAt(c, s, pair.key, n, index)
  BY <1>1, <1>5, <1>6, <1>9, <1>12, SharedKeys
<1>14. Sound(c, s) /\ n \in DOMAIN c.heap /\ new \in DOMAIN c.heap
  BY <1>11, <1>13 DEF Sound
<1>17. SameBindings(a, c)
  <2>1. keep \in 0 .. Count(a, n)
    BY <1>1, <1>9, PairsType DEF Count
  <2> QED BY <1>1, <1>2, <1>12, <2>1, SharedBindings
<1>18. d = IF index > keep THEN insert_pair(c, new, index - keep, pair)
                          ELSE insert_pair(c, n, index, pair)
  BY <1>3, <1>13
<1>19. SplitUp(a, r, n, index, pair, d, s)
  BY <1>2, <1>4, <1>9, <1>12, <1>14, <1>18 DEF SplitUp
<1>20. SUFFICES Sound(d, s) /\ Gains(c, d, pair)
  BY <1>17, <1>19 DEF SameBindings, Gains
<1>15. CASE index > keep
  <2>1. d = insert_pair(c, new, index - keep, pair)
    BY <1>15, <1>18
  <2> QED BY <1>13, <1>14, <1>15, <2>1, InsertedSound
<1>16. CASE ~(index > keep)
  <2>1. d = insert_pair(c, n, index, pair)
    BY <1>16, <1>18
  <2> QED BY <1>13, <1>14, <1>16, <2>1, InsertedSound
<1> QED BY <1>15, <1>16

-----------------------------------------------------------------------------
(* A node goes away. *)

\* node_free takes a node from the heap.
LEMMA node_freeEffect ==
  ASSUME NEW a \in SkipArrays, NEW x, NEW b, b = node_free(a, x)
  PROVE  /\ b \in SkipArrays /\ b.height = a.height /\ b.nodes = a.nodes
         /\ DOMAIN b.heap = DOMAIN a.heap \ {x}
         /\ \A m \in DOMAIN a.heap \ {x} : b.heap[m] = a.heap[m]
<1> DEFINE N == DOMAIN a.heap \ {x}
           g == [m \in N |-> a.heap[m]]
<1>1. b = [a EXCEPT !.heap = g]
  BY DEF node_free, Restrict
<1>2. /\ DOMAIN a.heap \subseteq Nat \ {NULL} /\ IsFiniteSet(DOMAIN a.heap)
      /\ a.heap \in [DOMAIN a.heap -> NodeRecords]
  BY ArrayParts
<1>3. IsFiniteSet(N) /\ N \in SUBSET (Nat \ {NULL})
  BY <1>2, FS_Subset
<1>4. g \in [N -> NodeRecords] /\ \A m \in N : g[m] = a.heap[m]
  BY <1>2
<1> HIDE DEF N, g
<1>5. b \in SkipArrays /\ b.height = a.height /\ b.nodes = a.nodes /\ b.heap = g
  BY <1>1, <1>3, <1>4, HeapWith
<1> QED BY <1>4, <1>5 DEF N

\* Some levels, from the lowest up, lead somewhere: the height is how many.
LEMMA lower_heightEffect ==
  ASSUME NEW a \in SkipArrays, a.nodes[0] # NULL,
         \A k, l \in LevelSet : k <= l /\ a.nodes[l] # NULL => a.nodes[k] # NULL,
         \A l \in LevelSet : a.nodes[l] # NULL => l < a.height,
         NEW b, b = lower_height(a)
  PROVE  /\ b \in SkipArrays /\ b.nodes = a.nodes /\ b.heap = a.heap
         /\ \A l \in LevelSet : b.nodes[l] # NULL <=> l < b.height
<1> DEFINE S == {h \in 1 .. a.height : h = 1 \/ a.nodes[h - 1] # NULL}
           top == Max(S)
<1>1. a.height \in 1 .. MaxLevel /\ MaxLevel \in Nat /\ a.height \in Int
  BY ArrayParts, MaxLevelIs
<1>2. S \in SUBSET (1 .. a.height) /\ 1 \in S
  BY <1>1
<1>3. b = [a EXCEPT !.height = top]
  BY DEF lower_height
<1> HIDE DEF S
<1>4. top \in S /\ \A h \in S : h <= top
  <2>1. 1 \in Int /\ a.height \in Int /\ S \in SUBSET (1 .. a.height) /\ S # {}
    BY <1>1, <1>2
  <2> QED BY ONLY <2>1, GreatestIn
<1>5. top \in 1 .. a.height /\ (top = 1 \/ a.nodes[top - 1] # NULL)
  BY <1>4 DEF S
<1> HIDE DEF top
<1>6. top \in 1 .. MaxLevel
  BY <1>1, <1>5
<1>7. b \in SkipArrays /\ b.height = top /\ b.nodes = a.nodes /\ b.heap = a.heap
  BY <1>3, <1>6, HeightWith
<1>8. ASSUME NEW l \in LevelSet
      PROVE  a.nodes[l] # NULL <=> l < top
  <2>1. l \in Nat /\ l < MaxLevel
    BY <1>1 DEF LevelSet
  <2>2. ASSUME a.nodes[l] # NULL
        PROVE  l < top
    <3>1. l + 1 \in 1 .. a.height /\ (l + 1) - 1 = l
      BY <1>1, <2>1, <2>2
    <3>2. l + 1 \in S
      BY <2>2, <3>1 DEF S
    <3> QED BY <1>4, <1>5, <2>1, <3>2
  <2>3. ASSUME l < top
        PROVE  a.nodes[l] # NULL
    <3>1. CASE top = 1
      <4>1. l = 0
        BY <2>1, <2>3, <3>1
      <4> QED BY <4>1
    <3>2. CASE top # 1
      <4>1. top - 1 \in LevelSet /\ l <= top - 1
        BY <1>1, <1>6, <2>1, <2>3 DEF LevelSet
      <4> QED BY <1>5, <3>2, <4>1
    <3> QED BY <3>1, <3>2
  <2> QED BY <2>2, <2>3
<1> QED BY <1>7, <1>8

\* c has the nodes of a but x, and leads past x wherever a leads to it.
Shrunk(a, c, x) ==
  /\ c \in SkipArrays /\ DOMAIN c.heap = DOMAIN a.heap \ {x}
  /\ \A m \in DOMAIN c.heap : c.heap[m].height = a.heap[m].height

Skips(a, c, x, l) ==
  \A q \in {NULL} \cup (OnLevel(a, l) \ {x}) :
    After(c, q, l) = IF After(a, q, l) = x THEN After(a, x, l) ELSE After(a, q, l)

SkipsBack(a, c, x) ==
  \A m \in DOMAIN c.heap :
    c.heap[m].back = IF a.heap[m].back = x THEN a.heap[x].back ELSE a.heap[m].back

\* The levels without x.
LEMMA ShrunkLevels ==
  ASSUME NEW a, NEW x, NEW c, Shrunk(a, c, x), NEW l
  PROVE  OnLevel(c, l) = OnLevel(a, l) \ {x}
BY DEF Shrunk, OnLevel

\* Such a level is a chain again,
LEMMA SkipsChained ==
  ASSUME NEW a, NEW r, Formed(a, r), NEW x \in DOMAIN a.heap,
         NEW c, NEW l \in LevelSet, Skips(a, c, x, l)
  PROVE  Chained(Hops(c, OnLevel(a, l) \ {x}, l), OnLevel(a, l) \ {x}, r)
<1> DEFINE N == DOMAIN a.heap
           T == OnLevel(a, l)
           f == Hops(a, T, l)
           g == Hops(c, T \ {x}, l)
<1>1. Chained(f, T, r) /\ T \in SUBSET N /\ Ranks(r, N) /\ NULL \notin N
  BY FormedFacts DEF Formed, Linked, OnLevel
<1>2. \A q \in {NULL} \cup (T \ {x}) :
        g[q] = IF After(a, q, l) = x THEN After(a, x, l) ELSE f[q]
  BY DEF Hops, Skips
<1>3. CASE x \in T
  <2>1. \A q \in {NULL} \cup (T \ {x}) : g[q] = IF f[q] = x THEN f[x] ELSE f[q]
    BY <1>2, <1>3 DEF Hops
  <2>2. x \in T
    BY <1>3
  <2> HIDE DEF f, g, T, N
  <2>3. Chained(g, T \ {x}, r)
    BY ONLY <1>1, <2>1, <2>2, ChainRemove
  <2> QED BY <2>3 DEF g, T
<1>4. CASE x \notin T
  <2>1. ASSUME NEW q \in {NULL} \cup T
        PROVE  g[q] = f[q] /\ T \ {x} = T
    <3>1. Follows(r, T, q, f[q])
      BY <1>1 DEF Chained
    <3>2. f[q] # x
      BY <1>1, <1>4, <3>1 DEF Follows
    <3> QED BY <1>2, <1>4, <3>2 DEF Hops
  <2>2. Chained(g, T \ {x}, r)
    BY <1>1, <1>4, <2>1 DEF Chained
  <2> QED BY <2>2
<1> QED BY <1>3, <1>4

\* and so is the whole.
LEMMA ShrunkFormed ==
  ASSUME NEW a, NEW r, Formed(a, r), NEW x \in DOMAIN a.heap,
         NEW c, Shrunk(a, c, x), \A l \in LevelSet : Skips(a, c, x, l),
         SkipsBack(a, c, x), \A l \in LevelSet : c.nodes[l] # NULL <=> l < c.height
  PROVE  Formed(c, r)
<1> DEFINE N == DOMAIN a.heap
           M == N \ {x}
<1>1. /\ a \in SkipArrays /\ c \in SkipArrays /\ DOMAIN c.heap = M /\ Ranks(r, N)
      /\ \A m \in N : r[m] \in Nat /\ m # NULL
      /\ \A m, q \in N : r[m] = r[q] => m = q
  BY FormedFacts DEF Formed, Shrunk
<1>2. Ranks(r, M)
  BY <1>1 DEF Ranks
<1>3. ASSUME NEW l \in LevelSet
      PROVE  /\ Chained(Hops(c, OnLevel(c, l), l), OnLevel(c, l), r)
             /\ OnLevel(c, l) # {} <=> l < c.height
  <2>1. OnLevel(c, l) = OnLevel(a, l) \ {x}
    BY ShrunkLevels
  <2>2. Chained(Hops(c, OnLevel(c, l), l), OnLevel(c, l), r)
    BY <2>1, SkipsChained
  <2>3. NULL \notin OnLevel(c, l)
    BY <1>1 DEF OnLevel
  <2>4. Hops(c, OnLevel(c, l), l)[NULL] = c.nodes[l]
    BY DEF Hops, After
  <2>5. OnLevel(c, l) # {} <=> c.nodes[l] # NULL
    BY <2>2, <2>3, <2>4, ChainEmpty
  <2> QED BY <2>2, <2>5
<1>4. ASSUME NEW m \in M
      PROVE  InFront(r, M, c.heap[m].back, m)
  <2> DEFINE p == a.heap[m].back
             q == a.heap[x].back
  <2>1. InFront(r, N, p, m) /\ InFront(r, N, q, x)
    BY DEF Formed, Backed
  <2>2. CASE p = x
    <3>1. c.heap[m].back = q
      BY <1>1, <2>2 DEF SkipsBack
    <3>2. r[x] < r[m] /\ q # x
      BY <1>1, <2>1, <2>2 DEF InFront, Behind
    <3>3. ASSUME NEW y \in M, r[y] < r[m]
          PROVE  q # NULL /\ r[y] <= r[q]
      <4>1. r[y] < r[x]
        BY <1>1, <2>1, <2>2, <3>3 DEF InFront
      <4> QED BY <2>1, <4>1 DEF InFront
    <3>4. q \in {NULL} \cup M /\ Behind(r, q, m)
      BY <1>1, <2>1, <3>2 DEF InFront, Behind
    <3> QED BY <3>1, <3>3, <3>4 DEF InFront
  <2>3. CASE p # x
    <3>1. c.heap[m].back = p
      BY <1>1, <2>3 DEF SkipsBack
    <3> QED BY <2>1, <2>3, <3>1 DEF InFront
  <2> QED BY <2>2, <2>3
<1> QED BY <1>1, <1>2, <1>3, <1>4 DEF Formed, Linked, Backed, Tall

\* The back pointers are the way back from the next node.
LEMMA BackIsNext ==
  ASSUME NEW a, NEW r, Formed(a, r), NEW x \in DOMAIN a.heap, NEW m \in DOMAIN a.heap
  PROVE  a.heap[m].back = x <=> m = After(a, x, 0)
<1> DEFINE N == DOMAIN a.heap
<1>1. InFront(r, N, a.heap[m].back, m) /\ Follows(r, N, x, After(a, x, 0))
  BY FormedFacts DEF Formed, Backed
<1>2. /\ \A q \in N : r[q] \in Nat
      /\ \A q, p \in N : r[p] = r[q] => p = q
      /\ x \in N /\ x # NULL /\ \A q \in N : q # NULL
  BY FormedFacts
<1>3. ASSUME a.heap[m].back = x PROVE m = After(a, x, 0)
  <2>1. r[x] < r[m] /\ \A q \in N : r[q] < r[m] => r[q] <= r[x]
    BY <1>2, <1>1, <1>3 DEF InFront, Behind
  <2>2. \A q \in N : r[x] < r[q] => r[m] <= r[q]
    BY <1>2, <2>1
  <2>3. After(a, x, 0) \in N /\ r[x] < r[After(a, x, 0)] /\ r[After(a, x, 0)] <= r[m]
    BY <1>2, <1>1, <2>1 DEF Follows, Behind
  <2> QED BY <1>2, <2>2, <2>3
<1>4. ASSUME m = After(a, x, 0) PROVE a.heap[m].back = x
  <2>1. r[x] < r[m] /\ \A q \in N : r[x] < r[q] => r[m] <= r[q]
    BY <1>2, <1>1, <1>4 DEF Follows, Behind
  <2>2. a.heap[m].back \in N /\ r[x] <= r[a.heap[m].back] /\ r[a.heap[m].back] < r[m]
    BY <1>2, <1>1, <2>1 DEF InFront, Behind
  <2>3. ~(r[x] < r[a.heap[m].back])
    BY <1>2, <2>1, <2>2
  <2> QED BY <1>2, <2>2, <2>3
<1> QED BY <1>3, <1>4

-----------------------------------------------------------------------------
(* The loop of unlink_node. *)

\* By the last key of the node in front of x the loop can tell what is in
\* front of x.
EndTells(r, a, x, nearest) ==
  \A m \in DOMAIN a.heap \ {x} : LastKey(a, m) <= nearest <=> r[m] < r[x]

\* c leads past x on the levels from l up, and from the heads.
UnlinkedFrom(a, x, h, l, c) ==
  /\ c \in SkipArrays /\ c.height = h /\ SameNodes(a, c) /\ SamePairs(a, c)
  /\ \A k \in LevelSet : \A q \in {NULL} \cup OnLevel(a, k) :
       After(c, q, k) = IF (k >= l \/ q = NULL) /\ After(a, q, k) = x
                        THEN After(a, x, k) ELSE After(a, q, k)
  /\ IF l > 0 THEN SameBacks(a, c)
              ELSE BackIs(a, c, After(a, x, 0), a.heap[x].back)

Walks == [sa : SkipArrays, prev : Nat]

\* The node in front of x on a level.
LEMMA FrontOf ==
  ASSUME NEW a, NEW r, Formed(a, r), NEW x \in DOMAIN a.heap, a.heap[x].back # NULL,
         NEW l \in LevelSet, NEW h, NEW c, UnlinkedFrom(a, x, h, l + 1, c),
         NEW nearest, EndTells(r, a, x, nearest),
         NEW p, NotPast(a, r, x, l + 1, p),
         NEW prev, prev = Advance(c, p, l,
                            {m \in DOMAIN c.heap \ {x} : LastKey(c, m) <= nearest})
  PROVE  InFront(r, OnLevel(a, l) \ {x}, prev, x)
<1> DEFINE N == DOMAIN a.heap
           T == OnLevel(a, l)
           passed == {m \in DOMAIN c.heap \ {x} : LastKey(c, m) <= nearest}
<1>1. /\ a \in SkipArrays /\ c \in SkipArrays /\ DOMAIN c.heap = N /\ OnLevel(c, l) = T
      /\ Ranks(r, N) /\ T \subseteq N /\ l \in Nat
      /\ \A m \in N : r[m] \in Nat /\ m # NULL
      /\ \A m, q \in N : r[m] = r[q] => m = q
  BY FormedFacts, OnLevelSame, MaxLevelIs DEF UnlinkedFrom, SameNodes, Formed, LevelSet
<1>2. passed = {m \in N : r[m] < r[x]}
  <2>1. \A m \in N : LastKey(c, m) = LastKey(a, m)
    BY <1>1 DEF UnlinkedFrom, SamePairs, LastKey, Count
  <2>2. \A m \in N \ {x} : LastKey(c, m) <= nearest <=> r[m] < r[x]
    BY <2>1 DEF EndTells
  <2> QED BY <1>1, <2>2
<1>3. \A q \in {NULL} \cup T : Follows(r, T, q, After(a, q, l))
  BY FormedFacts
<1>4. \A q \in {NULL} \cup T : Follows(r, T, x, After(a, x, l)) \/ After(a, q, l) # x
  <2>1. CASE x \in T
    BY <1>3, <2>1
  <2>2. CASE x \notin T
    BY <1>1, <1>3, <2>2 DEF Follows
  <2> QED BY <2>1, <2>2
<1>5. \A q \in {NULL} \cup T : \/ After(c, q, l) = After(a, q, l)
                               \/ After(a, q, l) = x /\ After(c, q, l) = After(a, x, l)
  BY DEF UnlinkedFrom
<1>6. After(a, x, l) \notin passed \/ \A q \in {NULL} \cup T : After(a, q, l) # x
  BY <1>1, <1>2, <1>4 DEF Follows, Behind
<1>7. \A q \in {NULL} \cup T :
        /\ After(c, q, l) \in passed => After(c, q, l) = After(a, q, l)
        /\ After(c, q, l) \notin passed => After(a, q, l) \notin passed
  BY <1>2, <1>5, <1>6
<1> HIDE DEF passed
<1>8. ASSUME NEW q \in {NULL} \cup OnLevel(c, l), After(c, q, l) \in passed
      PROVE  After(c, q, l) \in T \ {x} /\ Behind(r, q, After(c, q, l))
  <2>1. After(c, q, l) = After(a, q, l) /\ Follows(r, T, q, After(a, q, l))
    BY <1>1, <1>3, <1>7, <1>8
  <2> QED BY <1>1, <1>2, <1>8, <2>1 DEF Follows
<1>9. ASSUME NEW q \in {NULL} \cup (T \ {x}), After(c, q, l) \notin passed
      PROVE  \A m \in T \ {x} : Behind(r, q, m) => m \notin passed
  <2> DEFINE y == After(a, q, l)
  <2>1. Follows(r, T, q, y) /\ y \notin passed
    BY <1>3, <1>7, <1>9
  <2>2. CASE y = NULL
    BY <2>1, <2>2, <1>1 DEF Follows
  <2>3. CASE y # NULL
    <3>1. y \in T /\ \A m \in T : Behind(r, q, m) => r[y] <= r[m]
      BY <2>1, <2>3 DEF Follows
    <3>2. ~(r[y] < r[x]) /\ r[y] \in Nat
      BY <1>1, <1>2, <2>1, <3>1
    <3> QED BY <1>1, <1>2, <3>1, <3>2
  <2> QED BY <2>2, <2>3
<1>10. p \in {NULL} \cup ((T \ {x}) \cap passed)
  <2>1. OnLevel(a, l + 1) \subseteq T
    BY <1>1, ArrayParts, NodeParts DEF OnLevel
  <2> QED BY <1>1, <1>2, <2>1 DEF NotPast
<1>11. LastPassed(r, T \ {x}, prev, passed)
  <2> DEFINE V == T \ {x}
  <2>1. Ranks(r, DOMAIN c.heap) /\ V \in SUBSET OnLevel(c, l)
    BY <1>1
  <2>2. prev = Advance(c, p, l, passed)
    BY DEF passed
  <2>3. p \in {NULL} \cup (V \cap passed)
    BY <1>10
  <2>4. \A q \in {NULL} \cup OnLevel(c, l) :
          After(c, q, l) \in passed => After(c, q, l) \in V /\ Behind(r, q, After(c, q, l))
    BY <1>8
  <2>5. \A q \in {NULL} \cup V :
          After(c, q, l) \notin passed => \A m \in V : Behind(r, q, m) => m \notin passed
    BY <1>9
  <2> HIDE DEF V
  <2>6. LastPassed(r, V, prev, passed)
    BY ONLY <2>1, <2>2, <2>3, <2>4, <2>5, AdvanceFinds
  <2> QED BY <2>6 DEF V
<1>12. prev \in {NULL} \cup (T \ {x}) /\ Behind(r, prev, x)
  BY <1>2, <1>11 DEF LastPassed, Behind
<1>13. ASSUME NEW m \in T \ {x}, r[m] < r[x]
       PROVE  prev # NULL /\ r[m] <= r[prev]
  BY <1>1, <1>2, <1>11, <1>13 DEF LastPassed
<1> QED BY <1>12, <1>13 DEF InFront

\* A turn of the loop of unlink_node.
LEMMA unlink_levelGoes ==
  ASSUME NEW a, NEW r, Formed(a, r), NEW x \in DOMAIN a.heap, a.heap[x].back # NULL,
         NEW nearest, EndTells(r, a, x, nearest),
         NEW l \in LevelSet, NEW h, NEW w \in Walks, UnlinkedFrom(a, x, h, l + 1, w.sa),
         NotPast(a, r, x, l + 1, w.prev),
         NEW v, v = unlink_level(w, x, nearest, l)
  PROVE  v \in Walks /\ UnlinkedFrom(a, x, h, l, v.sa) /\ NotPast(a, r, x, l, v.prev)
<1> DEFINE N == DOMAIN a.heap
           T == OnLevel(a, l)
           c == w.sa
           prev == Advance(c, w.prev, l,
                     {m \in DOMAIN c.heap \ {x} : LastKey(c, m) <= nearest})
           next == c.heap[x].fwd[l]
           cut == SetAfter(c, prev, l, next)
<1>1. /\ a \in SkipArrays /\ c \in SkipArrays /\ DOMAIN c.heap = N /\ OnLevel(c, l) = T
      /\ T \subseteq N /\ l \in Nat /\ x # NULL
      /\ \A k \in LevelSet : OnLevel(c, k) = OnLevel(a, k)
      /\ \A m \in N : r[m] \in Nat /\ m # NULL /\ m \in Nat
      /\ \A m, q \in N : r[m] = r[q] => m = q
      /\ Ranks(r, N)
  <2>1. /\ a \in SkipArrays /\ c \in SkipArrays /\ SameNodes(a, c) /\ Ranks(r, N)
        /\ DOMAIN c.heap = N
    BY DEF UnlinkedFrom, SameNodes, Formed
  <2>2. \A k \in LevelSet : OnLevel(c, k) = OnLevel(a, k)
    BY <2>1, OnLevelSame
  <2>3. l \in Nat
    BY MaxLevelIs DEF LevelSet
  <2> QED BY <2>1, <2>2, <2>3, FormedFacts
<1>2. InFront(r, T \ {x}, prev, x)
  BY FrontOf
<1>3. prev \in {NULL} \cup (T \ {x}) /\ prev # x /\ prev \in Nat
  BY <1>1, <1>2 DEF InFront, NULL
<1>4. v = IF prev = NULL \/ After(c, prev, l) # x THEN [w EXCEPT !.prev = prev]
          ELSE [sa   |-> IF l = 0 THEN SetBack(cut, next, prev) ELSE cut, prev |-> prev]
  BY DEF unlink_level
<1>5. NotPast(a, r, x, l, prev)
  BY <1>2 DEF NotPast, InFront, Behind
<1> HIDE DEF prev, next, cut
\* If x is on the level, what is in front of it leads to it.
<1>6. ASSUME NEW q \in {NULL} \cup T, After(a, q, l) = x
      PROVE  q = prev /\ x \in T
  <2>1. Follows(r, T, q, x)
    BY <1>6, FormedFacts
  <2>2. x \in T /\ Behind(r, q, x) /\ \A m \in T : Behind(r, q, m) => r[x] <= r[m]
    BY <1>1, <2>1 DEF Follows
  <2>3. CASE q = NULL
    <3>1. \A m \in T : ~(r[m] < r[x])
      BY <1>1, <2>2, <2>3 DEF Behind
    <3> QED BY <1>2, <2>2, <2>3, <3>1 DEF InFront, Behind
  <2>4. CASE q # NULL
    <3>1. q \in T \ {x} /\ r[q] < r[x]
      BY <1>1, <2>2, <2>4 DEF Behind
    <3>2. prev # NULL /\ r[q] <= r[prev] /\ prev \in T
      BY <1>2, <1>3, <3>1 DEF InFront
    <3>3. ~(r[q] < r[prev])
      BY <1>1, <1>2, <2>2, <2>4, <3>2 DEF InFront, Behind
    <3> QED BY <1>1, <2>2, <3>1, <3>2, <3>3
  <2> QED BY <2>3, <2>4
<1>7. x \in T => After(a, prev, l) = x
  <2> SUFFICES ASSUME x \in T PROVE After(a, prev, l) = x
    OBVIOUS
  <2>1. \A m \in T : Behind(r, prev, m) => r[x] <= r[m]
    BY <1>1, <1>2 DEF InFront, Behind
  <2>2. Follows(r, T, prev, x)
    BY <1>2, <2>1 DEF InFront, Follows
  <2>3. /\ Ranks(r, N) /\ T \in SUBSET N /\ Chained(Hops(a, T, l), T, r)
        /\ prev \in {NULL} \cup T
    BY <1>1, <1>3 DEF Formed, Linked
  <2>4. Hops(a, T, l)[prev] = x
    BY <2>2, <2>3, ChainOne, SMTT(30)
  <2> QED BY <2>3, <2>4 DEF Hops
<1>8. /\ SameNodes(a, c) /\ SamePairs(a, c) /\ c.height = h
      /\ \A k \in LevelSet : \A q \in {NULL} \cup OnLevel(a, k) :
           After(c, q, k) = IF (k >= l + 1 \/ q = NULL) /\ After(a, q, k) = x
                            THEN After(a, x, k) ELSE After(a, q, k)
      /\ SameBacks(a, c)
  BY <1>1 DEF UnlinkedFrom
<1>9. \A k \in LevelSet : k >= l <=> (k = l \/ k >= l + 1)
  BY <1>1 DEF LevelSet
<1>10. prev # NULL => After(c, prev, l) = After(a, prev, l)
  <2>1. ~(l >= l + 1)
    BY <1>1
  <2> QED BY <1>3, <1>8, <2>1
<1>11. CASE prev = NULL \/ After(c, prev, l) # x
  <2>1. v = [w EXCEPT !.prev = prev]
    BY <1>4, <1>11
  <2>2. v \in Walks /\ v.sa = c /\ v.prev = prev
    BY <1>3, <2>1 DEF Walks
  <2>3. \A q \in {NULL} \cup T : q # NULL => After(a, q, l) # x
    BY <1>6, <1>10, <1>11
  <2>4. l > 0
    <3>1. SUFFICES ASSUME l = 0 PROVE FALSE
      BY <1>1
    <3>2. T = N
      BY <1>1, <3>1, LevelZeroIsAll
    <3>3. InFront(r, N, a.heap[x].back, x)
      BY DEF Formed, Backed
    <3>4. a.heap[x].back \in N \ {x} /\ r[a.heap[x].back] < r[x]
      BY <1>1, <3>3 DEF InFront, Behind
    <3>5. prev # NULL
      BY <1>2, <3>2, <3>4 DEF InFront
    <3> QED BY <1>7, <1>10, <1>11, <3>2, <3>5
  <2>5. ASSUME NEW k \in LevelSet, NEW q \in {NULL} \cup OnLevel(a, k)
        PROVE  After(c, q, k) = IF (k >= l \/ q = NULL) /\ After(a, q, k) = x
                                THEN After(a, x, k) ELSE After(a, q, k)
    BY <1>8, <1>9, <2>3
  <2>6. UnlinkedFrom(a, x, h, l, c)
    BY <1>1, <1>8, <2>4, <2>5 DEF UnlinkedFrom
  <2> QED BY <1>5, <2>2, <2>6
<1>12. CASE ~(prev = NULL \/ After(c, prev, l) # x)
  <2>1. prev \in T \ {x} /\ prev # NULL /\ After(a, prev, l) = x /\ x \in T
    BY <1>3, <1>6, <1>10, <1>12
  <2>2. next = After(a, x, l) /\ next \in Nat /\ next # x /\ next \in {NULL} \cup T
    <3>1. next = After(c, x, l)
      BY <1>1 DEF next, After
    <3>2. Follows(r, T, x, After(a, x, l))
      BY <2>1, FormedFacts
    <3>3. After(a, x, l) # x /\ After(a, x, l) \in {NULL} \cup T
      BY <1>1, <2>1, <3>2 DEF Follows, Behind
    <3>4. After(c, x, l) = After(a, x, l)
      BY <1>8, <2>1, <3>3
    <3> QED BY <1>1, <3>1, <3>3, <3>4 DEF NULL
  <2>3. /\ cut \in SkipArrays /\ cut.height = c.height
        /\ SameNodes(c, cut) /\ SamePairs(c, cut) /\ SameBacks(c, cut)
        /\ \A k \in LevelSet : \A q \in {NULL} \cup OnLevel(c, k) :
             After(cut, q, k) = IF q = prev /\ k = l THEN next ELSE After(c, q, k)
    <3>1. c \in SkipArrays /\ prev \in {NULL} \cup OnLevel(c, l) /\ next \in Nat
      BY <1>1, <2>1, <2>2
    <3>2. cut = SetAfter(c, prev, l, next)
      BY DEF cut
    <3> HIDE DEF c
    <3> QED BY ONLY <3>1, <3>2, l \in LevelSet, SetAfterEffect
  <2>4. /\ DOMAIN cut.heap = N /\ SameNodes(a, cut) /\ SamePairs(a, cut) /\ SameBacks(a, cut)
    BY <1>1, <1>8, <2>3 DEF SameNodes, SamePairs, SameBacks
  <2>5. ASSUME NEW k \in LevelSet, NEW q \in {NULL} \cup OnLevel(a, k)
        PROVE  After(cut, q, k) = IF (k >= l \/ q = NULL) /\ After(a, q, k) = x
                                  THEN After(a, x, k) ELSE After(a, q, k)
    <3>1. CASE k = l
      <4>1. CASE q = prev
        BY <1>1, <1>9, <2>1, <2>2, <2>3, <3>1, <4>1
      <4>2. CASE q # prev
        BY <1>1, <1>6, <1>8, <2>3, <3>1, <4>2
      <4> QED BY <4>1, <4>2
    <3>2. CASE k # l
      BY <1>1, <1>8, <1>9, <2>3, <3>2
    <3> QED BY <3>1, <3>2
  <2>6. CASE l = 0
    <3> DEFINE d == SetBack(cut, next, prev)
    <3>1. v = [sa |-> d, prev |-> prev]
      BY <1>4, <1>12, <2>6
    <3> HIDE DEF d
    <3>2. /\ d \in SkipArrays /\ d.height = cut.height
          /\ SameNodes(cut, d) /\ SamePairs(cut, d) /\ SameLinks(cut, d)
          /\ BackIs(cut, d, next, prev)
      <4>1. next \in {NULL} \cup DOMAIN cut.heap
        BY <1>1, <2>2, <2>4
      <4>2. d = SetBack(cut, next, prev)
        BY DEF d
      <4> QED BY ONLY <1>3, <2>3, <4>1, <4>2, SetBackEffect
    <3>3. T = N
      BY <1>1, <2>6, LevelZeroIsAll
    <3>4. prev = a.heap[x].back
      <4>1. InFront(r, N, a.heap[x].back, x)
        BY DEF Formed, Backed
      <4>2. a.heap[x].back \in N \ {x} /\ r[a.heap[x].back] < r[x]
        BY <1>1, <4>1 DEF InFront, Behind
      <4>3. r[a.heap[x].back] <= r[prev] /\ r[prev] < r[x]
        BY <1>2, <2>1, <3>3, <4>2 DEF InFront, Behind
      <4>4. r[prev] <= r[a.heap[x].back]
        BY <2>1, <3>3, <4>1, <4>3 DEF InFront
      <4> QED BY <1>1, <2>1, <3>3, <4>2, <4>3, <4>4
    <3>5. SameNodes(a, d) /\ SamePairs(a, d)
      BY <2>4, <3>2 DEF SameNodes, SamePairs
    <3>6. BackIs(a, d, After(a, x, 0), a.heap[x].back)
      <4>1. \A m \in N : d.heap[m].back = IF m = next THEN prev ELSE cut.heap[m].back
        BY <2>4, <3>2 DEF BackIs
      <4>2. \A m \in N : d.heap[m].back = IF m = next THEN prev ELSE a.heap[m].back
        BY <2>4, <4>1 DEF SameBacks
      <4> QED BY <2>2, <2>6, <3>4, <4>2 DEF BackIs
    <3>7. \A k \in LevelSet : \A q \in {NULL} \cup OnLevel(a, k) :
            After(d, q, k) = After(cut, q, k)
      BY <2>4, <3>2, OnLevelSame DEF SameLinks
    <3>8. ASSUME NEW k \in LevelSet, NEW q \in {NULL} \cup OnLevel(a, k)
          PROVE  After(d, q, k) = IF (k >= l \/ q = NULL) /\ After(a, q, k) = x
                                  THEN After(a, x, k) ELSE After(a, q, k)
      BY <2>5, <3>7
    <3>9. UnlinkedFrom(a, x, h, l, d)
      <4>1. ~(l > 0)
        BY <2>6
      <4> QED BY <1>8, <2>3, <3>2, <3>5, <3>6, <3>8, <4>1 DEF UnlinkedFrom
    <3>10. v.sa = d /\ v.prev = prev /\ v \in Walks
      BY <1>3, <3>1, <3>2 DEF Walks
    <3> QED BY <1>5, <3>9, <3>10
  <2>7. CASE l # 0
    <3>1. v = [sa |-> cut, prev |-> prev]
      BY <1>4, <1>12, <2>7
    <3>2. UnlinkedFrom(a, x, h, l, cut)
      <4>1. l > 0
        BY <1>1, <2>7
      <4> QED BY <1>8, <2>3, <2>4, <2>5, <4>1 DEF UnlinkedFrom
    <3>3. v.sa = cut /\ v.prev = prev /\ v \in Walks
      BY <1>3, <2>3, <3>1 DEF Walks
    <3> QED BY <1>5, <3>2, <3>3
  <2> QED BY <2>6, <2>7
<1> QED BY <1>11, <1>12

\* All its turns.
LEMMA UnlinkLoop ==
  ASSUME NEW a, NEW r, Formed(a, r), NEW x \in DOMAIN a.heap, a.heap[x].back # NULL,
         NEW nearest, EndTells(r, a, x, nearest),
         NEW d, NEW top \in 1 .. MaxLevel, UnlinkedFrom(a, x, top, top, d),
         NEW w, w = CHOOSE f : f = [l \in 0 .. top |->
                                      IF l = top THEN [sa |-> d, prev |-> NULL]
                                      ELSE unlink_level(f[l + 1], x, nearest, l)]
  PROVE  UnlinkedFrom(a, x, top, 0, w[0].sa)
<1> DEFINE Good(l, u) == UnlinkedFrom(a, x, top, l, u.sa) /\ NotPast(a, r, x, l, u.prev)
           G == [l \in 0 .. top |-> {u \in Walks : Good(l, u)}]
           base == [sa |-> d, prev |-> NULL]
           step == [p \in (0 .. top) \X Walks |-> unlink_level(p[2], x, nearest, p[1])]
           Body(f) == [l \in 0 .. top |-> IF l = top THEN base
                                          ELSE unlink_level(f[l + 1], x, nearest, l)]
<1>1. MaxLevel \in Nat /\ top \in Int /\ 0 <= top /\ 0 \in 0 .. top /\ top \in 0 .. top
  BY MaxLevelIs
<1>2. base \in G[top]
  <2>1. base \in Walks /\ base.sa = d /\ base.prev = NULL
    BY DEF Walks, UnlinkedFrom, NULL
  <2>2. Good(top, base)
    BY <2>1 DEF NotPast
  <2> HIDE DEF base, Good
  <2> QED BY <1>1, <2>1, <2>2
<1>3. ASSUME NEW l \in 0 .. top - 1, NEW u \in G[l + 1]
      PROVE  unlink_level(u, x, nearest, l) \in G[l]
  <2> DEFINE v == unlink_level(u, x, nearest, l)
  <2>1. l \in 0 .. top /\ l + 1 \in 0 .. top /\ l \in LevelSet
    BY <1>1 DEF LevelSet
  <2>2. u \in Walks /\ Good(l + 1, u)
    BY <2>1
  <2>3. v \in Walks /\ Good(l, v)
    BY <2>1, <2>2, unlink_levelGoes
  <2> HIDE DEF v, Good
  <2>4. v \in G[l]
    BY <2>1, <2>3
  <2> QED BY <2>4 DEF v
<1>4. G \in [0 .. top -> SUBSET Walks] /\ \A l \in 0 .. top : G[l] \subseteq Walks
  OBVIOUS
<1>5. \A l \in 0 .. top - 1 : \A u \in G[l + 1] : step[<<l, u>>] = unlink_level(u, x, nearest, l)
  <2>1. ASSUME NEW l \in 0 .. top - 1, NEW u \in G[l + 1]
        PROVE  step[<<l, u>>] = unlink_level(u, x, nearest, l)
    <3>1. l \in 0 .. top /\ l + 1 \in 0 .. top
      BY <1>1
    <3>2. <<l, u>> \in (0 .. top) \X Walks
      BY <1>4, <3>1
    <3> HIDE DEF G
    <3> QED BY <3>2
  <2> QED BY <2>1
<1>6. w = CHOOSE f : f = Body(f)
  OBVIOUS
<1> HIDE DEF G, step, base
<1>7. \A l \in 0 .. top - 1 : \A u \in G[l + 1] : step[<<l, u>>] \in G[l]
  BY <1>3, <1>5
<1>8. PICK f \in [0 .. top -> Walks] : /\ Descends(f, 0, top, base, step)
                                       /\ \A l \in 0 .. top : f[l] \in G[l]
  <2>1. 0 \in Int
    OBVIOUS
  <2> QED BY ONLY <1>1, <1>2, <1>4, <1>7, <2>1, DownwardGood
<1>9. f = Body(f)
  <2>1. \A l \in 0 .. top : f[l] = IF l = top THEN base ELSE step[<<l, f[l + 1]>>]
    BY <1>8 DEF Descends
  <2>2. ASSUME NEW l \in 0 .. top, l # top
        PROVE  step[<<l, f[l + 1]>>] = unlink_level(f[l + 1], x, nearest, l)
    <3>1. l \in 0 .. top - 1 /\ l + 1 \in 0 .. top
      BY <1>1, <2>2
    <3> QED BY <1>5, <1>8, <3>1
  <2>3. f = [l \in 0 .. top |-> f[l]]
    BY <1>8
  <2>4. \A l \in 0 .. top : f[l] = IF l = top THEN base ELSE unlink_level(f[l + 1], x, nearest, l)
    BY <2>1, <2>2
  <2> QED BY <2>3, <2>4
<1> HIDE DEF Body
<1>10. w = Body(w)
  BY <1>6, <1>9
<1>11. \A l \in 0 .. top : w[l] = IF l = top THEN base ELSE unlink_level(w[l + 1], x, nearest, l)
  BY <1>10 DEF Body
<1>12. w[top] \in G[top]
  BY <1>1, <1>2, <1>11
<1>13. ASSUME NEW l \in 0 .. top - 1, w[l + 1] \in G[l + 1]
       PROVE  w[l] \in G[l]
  <2>1. l \in 0 .. top /\ l # top
    BY <1>1
  <2> QED BY <1>3, <1>11, <1>13, <2>1
<1>14. w[0] \in G[0]
  <2>1. \A l \in 0 .. top : w[l] \in G[l]
    <3>1. 0 \in Int
      OBVIOUS
    <3> QED BY ONLY <1>1, <1>12, <1>13, <3>1, DownwardHolds
  <2> QED BY <1>1, <2>1
<1> QED BY <1>1, <1>14 DEF G

\* The heads lead past x.
HeadsPast(a, x) ==
  [a EXCEPT !.nodes = [l \in DOMAIN @ |->
     IF @[l] = x THEN a.heap[x].fwd[l] ELSE @[l]]]

\* A head that pointed to x points past it.
LEMMA HeadsSkip ==
  ASSUME NEW a, NEW r, Formed(a, r), NEW x \in DOMAIN a.heap,
         a.heap[x].back # NULL,
         NEW b, b = HeadsPast(a, x)
  PROVE  /\ b \in SkipArrays /\ b.height = a.height /\ b.heap = a.heap
         /\ \A l \in LevelSet : /\ b.nodes[l] = IF a.nodes[l] = x THEN After(a, x, l)
                                                ELSE a.nodes[l]
                                /\ b.nodes[l] # NULL <=> OnLevel(a, l) \ {x} # {}
         /\ b.nodes[0] # NULL
<1> DEFINE f == [l \in DOMAIN a.nodes |->
                   IF a.nodes[l] = x THEN a.heap[x].fwd[l] ELSE a.nodes[l]]
<1>1. /\ a \in SkipArrays /\ a.nodes \in [LevelSet -> Nat] /\ x # NULL /\ x \in Nat
      /\ 0 \in LevelSet /\ OnLevel(a, 0) = DOMAIN a.heap
  BY FormedFacts, ArrayParts
<1>2. ASSUME NEW l \in LevelSet
      PROVE  /\ f[l] = IF a.nodes[l] = x THEN After(a, x, l) ELSE a.nodes[l]
             /\ f[l] \in Nat
  <2>1. Follows(r, OnLevel(a, l), NULL, a.nodes[l])
    BY FormedFacts DEF After
  <2>2. a.nodes[l] = x => x \in OnLevel(a, l)
    BY <1>1, <2>1 DEF Follows
  <2>3. f[l] = IF a.nodes[l] = x THEN a.heap[x].fwd[l] ELSE a.nodes[l]
    BY <1>1
  <2>4. After(a, x, l) = a.heap[x].fwd[l]
    BY <1>1 DEF After
  <2>5. a.nodes[l] = x => After(a, x, l) \in Nat
    BY <1>1, <2>2, AfterIsNat
  <2> HIDE DEF f
  <2> QED BY <1>1, <2>3, <2>4, <2>5
<1>3. f \in [LevelSet -> Nat]
  BY <1>1, <1>2
<1>4. b = [a EXCEPT !.nodes = f]
  BY DEF HeadsPast
<1> HIDE DEF f
<1>5. b \in SkipArrays /\ b.height = a.height /\ b.nodes = f /\ b.heap = a.heap
  BY <1>1, <1>3, <1>4, NodesWith
<1>6. ASSUME NEW l \in LevelSet
      PROVE  b.nodes[l] # NULL <=> OnLevel(a, l) \ {x} # {}
  <2> DEFINE T == OnLevel(a, l)
  <2>1. \A p \in {NULL} \cup T : Follows(r, T, p, After(a, p, l))
    BY FormedFacts
  <2>2. \A m \in T : r[m] \in Nat /\ m # NULL /\ (r[m] = r[x] => m = x)
    BY FormedFacts DEF OnLevel
  <2>3. After(a, NULL, l) = a.nodes[l]
    BY DEF After
  <2>4. CASE a.nodes[l] = x
    <3>1. x \in T /\ \A m \in T : r[x] <= r[m]
      BY <1>1, <2>1, <2>3, <2>4 DEF Follows, Behind
    <3>2. Follows(r, T, x, b.nodes[l])
      BY <1>2, <1>5, <2>1, <2>4, <3>1
    <3>3. \A m \in T \ {x} : r[x] < r[m]
      BY <1>1, <2>2, <3>1
    <3>4. b.nodes[l] = NULL <=> T \ {x} = {}
      BY <1>1, <2>2, <3>2, <3>3 DEF Follows, Behind
    <3> QED BY <3>4
  <2>5. CASE a.nodes[l] # x
    <3>1. b.nodes[l] = a.nodes[l]
      BY <1>2, <1>5, <2>5
    <3>2. Follows(r, T, NULL, a.nodes[l])
      BY <2>1, <2>3
    <3>3. a.nodes[l] # NULL => a.nodes[l] \in T \ {x}
      BY <2>5, <3>2 DEF Follows
    <3>4. a.nodes[l] = NULL => T = {}
      BY <2>2, <3>2 DEF Follows, Behind
    <3> QED BY <3>1, <3>3, <3>4
  <2> QED BY <2>4, <2>5
<1>7. b.nodes[0] # NULL
  <2>1. InFront(r, DOMAIN a.heap, a.heap[x].back, x)
    BY DEF Formed, Backed
  <2>2. a.heap[x].back \in DOMAIN a.heap /\ a.heap[x].back # x
    BY <1>1, <2>1, FormedFacts DEF InFront, Behind
  <2> QED BY <1>1, <1>6, <2>2
<1> QED BY <1>2, <1>5, <1>6, <1>7

\* x leaves every level, and what was behind it points back to what was in
\* front of it.
LEMMA unlink_nodeFormed ==
  ASSUME NEW a, NEW r, Formed(a, r), NEW x \in DOMAIN a.heap, a.heap[x].back # NULL,
         EndTells(r, a, x, LastKey(a, a.heap[x].back)),
         NEW c, c = unlink_node(a, x)
  PROVE  /\ Formed(c, r) /\ DOMAIN c.heap = DOMAIN a.heap \ {x}
         /\ \A m \in DOMAIN c.heap : c.heap[m].pairs = a.heap[m].pairs
<1> DEFINE nearest == LastKey(a, a.heap[x].back)
           b == HeadsPast(a, x)
           d == lower_height(b)
           w == CHOOSE f : f = [l \in 0 .. d.height |->
                                  IF l = d.height THEN [sa |-> d, prev |-> NULL]
                                  ELSE unlink_level(f[l + 1], x, nearest, l)]
           e == w[0].sa
           N == DOMAIN a.heap
<1>1. c = node_free(e, x)
  BY DEF unlink_node, HeadsPast
<1>2. /\ b \in SkipArrays /\ b.height = a.height /\ b.heap = a.heap
      /\ \A l \in LevelSet : /\ b.nodes[l] = IF a.nodes[l] = x THEN After(a, x, l)
                                             ELSE a.nodes[l]
                             /\ b.nodes[l] # NULL <=> OnLevel(a, l) \ {x} # {}
      /\ b.nodes[0] # NULL
  BY HeadsSkip
<1>3. /\ a \in SkipArrays /\ x \in N /\ x # NULL /\ MaxLevel \in Nat /\ 0 \in LevelSet
      /\ OnLevel(a, 0) = N
      /\ \A l \in LevelSet : OnLevel(a, l) \subseteq N
      /\ \A m \in N : m # NULL
  BY FormedFacts, MaxLevelIs
<1> HIDE DEF b
<1>4. /\ d \in SkipArrays /\ d.nodes = b.nodes /\ d.heap = b.heap
      /\ \A l \in LevelSet : d.nodes[l] # NULL <=> l < d.height
  <2>1. \A k, l \in LevelSet : k <= l /\ b.nodes[l] # NULL => b.nodes[k] # NULL
    <3>1. ASSUME NEW k \in LevelSet, NEW l \in LevelSet, k <= l, b.nodes[l] # NULL
          PROVE  b.nodes[k] # NULL
      <4>1. OnLevel(a, l) \subseteq OnLevel(a, k)
        BY <1>3, <3>1, LevelsNest
      <4> QED BY <1>2, <3>1, <4>1
    <3> QED BY <3>1
  <2>2. \A l \in LevelSet : b.nodes[l] # NULL => l < b.height
    BY <1>2 DEF Formed, Tall
  <2>3. d = lower_height(b)
    OBVIOUS
  <2> HIDE DEF d
  <2> QED BY <1>2, <2>1, <2>2, <2>3, lower_heightEffect
<1> HIDE DEF d
<1>5. d.height \in 1 .. MaxLevel
  BY <1>4, ArrayParts
<1>6. UnlinkedFrom(a, x, d.height, d.height, d)
  <2>1. SameNodes(a, d) /\ SamePairs(a, d) /\ SameBacks(a, d)
    BY <1>2, <1>4 DEF SameNodes, SamePairs, SameBacks
  <2>2. ASSUME NEW k \in LevelSet, NEW q \in {NULL} \cup OnLevel(a, k)
        PROVE  After(d, q, k) = IF (k >= d.height \/ q = NULL) /\ After(a, q, k) = x
                                THEN After(a, x, k) ELSE After(a, q, k)
    <3>1. CASE q = NULL
      BY <1>2, <1>4, <3>1 DEF After
    <3>2. CASE q # NULL
      <4>1. After(d, q, k) = After(a, q, k)
        BY <1>2, <1>4, <3>2 DEF After
      <4>2. ASSUME k >= d.height PROVE After(a, q, k) # x
        <5>1. OnLevel(a, k) \subseteq {x}
          BY <1>2, <1>4, <1>5, <4>2 DEF LevelSet
        <5>2. q = x
          BY <3>2, <5>1
        <5>3. Follows(r, OnLevel(a, k), x, After(a, x, k))
          BY <5>2, FormedFacts
        <5> QED BY <1>3, <5>2, <5>3, FormedFacts DEF Follows, Behind
      <4> QED BY <3>2, <4>1, <4>2
    <3> QED BY <3>1, <3>2
  <2>3. d.height > 0
    BY <1>5
  <2> QED BY <1>4, <2>1, <2>2, <2>3 DEF UnlinkedFrom
<1>7. UnlinkedFrom(a, x, d.height, 0, e)
  <2>1. w = CHOOSE f : f = [l \in 0 .. d.height |->
                              IF l = d.height THEN [sa |-> d, prev |-> NULL]
                              ELSE unlink_level(f[l + 1], x, nearest, l)]
    OBVIOUS
  <2>2. EndTells(r, a, x, nearest)
    OBVIOUS
  <2> HIDE DEF w, nearest
  <2> QED BY <1>5, <1>6, <2>1, <2>2, UnlinkLoop
<1> HIDE DEF w, e
<1>8. /\ e \in SkipArrays /\ SameNodes(a, e) /\ SamePairs(a, e) /\ DOMAIN e.heap = N
      /\ \A k \in LevelSet : \A q \in {NULL} \cup OnLevel(a, k) :
           After(e, q, k) = IF After(a, q, k) = x THEN After(a, x, k) ELSE After(a, q, k)
      /\ BackIs(a, e, After(a, x, 0), a.heap[x].back)
  <2>1. \A k \in LevelSet : k >= 0
    BY <1>3 DEF LevelSet
  <2>2. ~(0 > 0)
    OBVIOUS
  <2> QED BY <1>7, <2>1, <2>2 DEF UnlinkedFrom, SameNodes
<1>9. /\ c \in SkipArrays /\ c.height = e.height /\ c.nodes = e.nodes
      /\ DOMAIN c.heap = N \ {x} /\ \A m \in N \ {x} : c.heap[m] = e.heap[m]
  BY <1>1, <1>8, node_freeEffect
<1>10. Shrunk(a, c, x)
  BY <1>8, <1>9 DEF Shrunk, SameNodes
<1>11. ASSUME NEW l \in LevelSet
       PROVE  Skips(a, c, x, l)
  <2>1. ASSUME NEW q \in {NULL} \cup (OnLevel(a, l) \ {x})
        PROVE  After(c, q, l) = After(e, q, l)
    BY <1>3, <1>9 DEF After
  <2> QED BY <1>8, <2>1 DEF Skips
<1>12. SkipsBack(a, c, x)
  <2>1. \A m \in N \ {x} : a.heap[m].back = x <=> m = After(a, x, 0)
    BY BackIsNext
  <2>2. \A m \in N \ {x} : c.heap[m].back = IF m = After(a, x, 0) THEN a.heap[x].back
                                            ELSE a.heap[m].back
    BY <1>8, <1>9 DEF BackIs
  <2> QED BY <1>9, <2>1, <2>2 DEF SkipsBack
<1>13. \A l \in LevelSet : c.nodes[l] # NULL <=> l < c.height
  <2>1. ASSUME NEW l \in LevelSet PROVE e.nodes[l] = d.nodes[l]
    <3>1. After(e, NULL, l) = After(d, NULL, l)
      BY <1>6, <1>8 DEF UnlinkedFrom
    <3> QED BY <3>1 DEF After
  <2>2. e.height = d.height
    BY <1>7 DEF UnlinkedFrom
  <2> QED BY <1>4, <1>9, <2>1, <2>2
<1>14. Formed(c, r)
  BY <1>10, <1>11, <1>12, <1>13, ShrunkFormed
<1>15. \A m \in DOMAIN c.heap : c.heap[m].pairs = a.heap[m].pairs
  BY <1>8, <1>9 DEF SamePairs
<1> QED BY <1>9, <1>14, <1>15

-----------------------------------------------------------------------------
(* Neighbours. *)

Adjacent(a, r, n, x) ==
  /\ n \in DOMAIN a.heap /\ x \in DOMAIN a.heap /\ r[n] < r[x]
  /\ \A m \in DOMAIN a.heap : r[m] <= r[n] \/ r[x] <= r[m]

\* What fwd[0] leads to is the neighbour,
LEMMA NextIsAdjacent ==
  ASSUME NEW a, NEW r, Formed(a, r), NEW n \in DOMAIN a.heap,
         NEW x, x = After(a, n, 0), x # NULL
  PROVE  Adjacent(a, r, n, x) /\ a.heap[x].back = n
<1> DEFINE N == DOMAIN a.heap
<1>1. /\ Follows(r, N, n, x) /\ n # NULL
      /\ \A m \in N : r[m] \in Nat /\ m # NULL
      /\ \A m, q \in N : r[m] = r[q] => m = q
  BY FormedFacts
<1>2. x \in N /\ r[n] < r[x] /\ \A m \in N : r[n] < r[m] => r[x] <= r[m]
  BY <1>1 DEF Follows, Behind
<1>3. \A m \in N : r[m] <= r[n] \/ r[x] <= r[m]
  BY <1>1, <1>2
<1>4. InFront(r, N, a.heap[x].back, x)
  BY <1>2 DEF Formed, Backed
<1>5. a.heap[x].back \in N /\ r[n] <= r[a.heap[x].back] /\ r[a.heap[x].back] < r[x]
  BY <1>1, <1>2, <1>4 DEF InFront, Behind
<1>6. r[a.heap[x].back] <= r[n]
  BY <1>1, <1>2, <1>3, <1>5
<1>7. a.heap[x].back = n
  BY <1>1, <1>5, <1>6
<1> QED BY <1>2, <1>3, <1>7 DEF Adjacent

\* and so is what back leads to.
LEMMA BackIsAdjacent ==
  ASSUME NEW a, NEW r, Formed(a, r), NEW x \in DOMAIN a.heap,
         NEW n, n = a.heap[x].back, n # NULL
  PROVE  Adjacent(a, r, n, x)
<1> DEFINE N == DOMAIN a.heap
<1>1. /\ \A m \in N : r[m] \in Nat /\ m # NULL
      /\ \A m, q \in N : r[m] = r[q] => m = q
  BY FormedFacts
<1>2. InFront(r, N, n, x)
  BY DEF Formed, Backed
<1>3. n \in N /\ r[n] < r[x] /\ \A m \in N : r[m] < r[x] => r[m] <= r[n]
  BY <1>2 DEF InFront, Behind
<1>4. \A m \in N : r[m] <= r[n] \/ r[x] <= r[m]
  BY <1>1, <1>3
<1> QED BY <1>3, <1>4 DEF Adjacent

\* The head has no back, and a node without one is the head.
LEMMA HeadIsFirst ==
  ASSUME NEW a, NEW r, Formed(a, r), NEW n \in DOMAIN a.heap
  PROVE  a.heap[n].back = NULL <=> n = a.nodes[0]
<1> DEFINE N == DOMAIN a.heap
<1>1. /\ Follows(r, N, NULL, a.nodes[0])
      /\ \A m \in N : r[m] \in Nat /\ m # NULL
      /\ \A m, q \in N : r[m] = r[q] => m = q
  BY FormedFacts DEF After
<1>2. InFront(r, N, a.heap[n].back, n)
  BY DEF Formed, Backed
<1>3. a.nodes[0] \in N /\ \A m \in N : r[a.nodes[0]] <= r[m]
  BY <1>1 DEF Follows, Behind
<1>4. ASSUME a.heap[n].back = NULL PROVE n = a.nodes[0]
  <2>1. ~(r[a.nodes[0]] < r[n])
    BY <1>2, <1>3, <1>4 DEF InFront
  <2> QED BY <1>1, <1>3, <2>1
<1>5. ASSUME n = a.nodes[0] PROVE a.heap[n].back = NULL
  <2> SUFFICES ASSUME a.heap[n].back # NULL PROVE FALSE
    OBVIOUS
  <2> DEFINE p == a.heap[n].back
  <2>1. p \in N /\ r[p] < r[n]
    BY <1>2 DEF InFront, Behind
  <2>2. r[n] <= r[p] /\ r[n] \in Nat /\ r[p] \in Nat
    BY <1>1, <1>3, <1>5, <2>1
  <2> QED BY <2>1, <2>2
<1> QED BY <1>4, <1>5

-----------------------------------------------------------------------------
(* Pairs in a row. *)

\* The pairs of two neighbours, one after the other,
LEMMA RowOfPairs ==
  ASSUME NEW s \in Seq(AllPairs), NEW t \in Seq(AllPairs), NEW u, u = s \o t
  PROVE  /\ u \in Seq(AllPairs) /\ Len(u) = Len(s) + Len(t)
         /\ \A i \in DOMAIN u : \/ i \in DOMAIN s /\ u[i] = s[i]
                                \/ /\ i - Len(s) \in DOMAIN t /\ i > Len(s)
                                   /\ u[i] = t[i - Len(s)]
<1>1. u = s ++ t /\ Len(s) \in Nat /\ Len(t) \in Nat
  BY LenProperties DEF ++
<1>2. u \in Seq(AllPairs) /\ Len(u) = Len(s) + Len(t)
  BY <1>1, RowProperties
<1>3. \A i \in 1 .. Len(s) + Len(t) : u[i] = IF i <= Len(s) THEN s[i] ELSE t[i - Len(s)]
  BY <1>1, RowElements
<1>4. DOMAIN u = 1 .. Len(s) + Len(t) /\ DOMAIN s = 1 .. Len(s) /\ DOMAIN t = 1 .. Len(t)
  BY <1>2, LenProperties
<1> HIDE DEF ++
<1>5. ASSUME NEW i \in DOMAIN u
      PROVE  \/ i \in DOMAIN s /\ u[i] = s[i]
             \/ /\ i - Len(s) \in DOMAIN t /\ i > Len(s)
                /\ u[i] = t[i - Len(s)]
  <2>1. i \in 1 .. Len(s) + Len(t)
    BY <1>4
  <2>2. CASE i <= Len(s)
    <3>1. i \in 1 .. Len(s)
      BY <1>1, <2>1, <2>2
    <3>2. u[i] = s[i]
      BY <1>3, <2>1, <2>2
    <3> QED BY <1>4, <3>1, <3>2
  <2>3. CASE ~(i <= Len(s))
    <3>1. i - Len(s) \in 1 .. Len(t) /\ i > Len(s)
      BY <1>1, <2>1, <2>3
    <3>2. u[i] = t[i - Len(s)]
      BY <1>3, <2>1, <2>3
    <3> QED BY <1>4, <3>1, <3>2
  <2> QED BY <2>2, <2>3
<1> QED BY <1>2, <1>5

\* ascend.
LEMMA RowAscends ==
  ASSUME NEW s \in Seq(AllPairs), NEW t \in Seq(AllPairs), NEW u, u = s \o t,
         Ascending(s), Ascending(t), Below(s, t)
  PROVE  /\ Ascending(u)
         /\ \A v : /\ Below(v, s) /\ Below(v, t) => Below(v, u)
                   /\ Below(s, v) /\ Below(t, v) => Below(u, v)
<1>1. /\ u \in Seq(AllPairs) /\ Len(u) = Len(s) + Len(t)
      /\ \A i \in DOMAIN u : \/ i \in DOMAIN s /\ u[i] = s[i]
                             \/ /\ i - Len(s) \in DOMAIN t /\ i > Len(s)
                                /\ u[i] = t[i - Len(s)]
  BY RowOfPairs
<1>2. /\ DOMAIN u \subseteq Nat /\ DOMAIN s = 1 .. Len(s) /\ DOMAIN t = 1 .. Len(t)
      /\ Len(s) \in Nat /\ Len(t) \in Nat
  <2>1. DOMAIN u = 1 .. Len(u) /\ Len(u) \in Nat
    BY <1>1, LenProperties
  <2> QED BY <2>1, LenProperties
<1>3. ASSUME NEW i \in DOMAIN u, NEW j \in DOMAIN u, i < j
      PROVE  u[i].key < u[j].key
  <2>1. CASE i \in DOMAIN s /\ u[i] = s[i]
    <3>1. CASE j \in DOMAIN s /\ u[j] = s[j]
      BY <1>3, <2>1, <3>1 DEF Ascending
    <3>2. CASE j - Len(s) \in DOMAIN t /\ u[j] = t[j - Len(s)]
      BY <2>1, <3>2 DEF Below
    <3> QED BY <1>1, <3>1, <3>2
  <2>2. CASE i - Len(s) \in DOMAIN t /\ i > Len(s) /\ u[i] = t[i - Len(s)]
    <3>1. j > Len(s)
      BY <1>2, <1>3, <2>2
    <3>2. j - Len(s) \in DOMAIN t /\ u[j] = t[j - Len(s)]
      BY <1>1, <1>2, <3>1
    <3>3. i - Len(s) < j - Len(s)
      BY <1>2, <1>3
    <3> QED BY <2>2, <3>2, <3>3 DEF Ascending
  <2> QED BY <1>1, <2>1, <2>2
<1>4. ASSUME NEW v, Below(v, s), Below(v, t) PROVE Below(v, u)
  BY <1>1, <1>4 DEF Below
<1>5. ASSUME NEW v, Below(s, v), Below(t, v) PROVE Below(u, v)
  BY <1>1, <1>5 DEF Below
<1> QED BY <1>3, <1>4, <1>5 DEF Ascending

\* b has the pairs of a, those of x after those of n in n; x is not asked.
Joined(a, b, n, x) ==
  /\ b.heap[n].pairs = a.heap[n].pairs \o a.heap[x].pairs
  /\ \A m \in DOMAIN a.heap : m # n /\ m # x => b.heap[m].pairs = a.heap[m].pairs

\* Nothing else is bound then,
LEMMA JoinedBindings ==
  ASSUME NEW a, a \in SkipArrays, NEW n \in DOMAIN a.heap, NEW x \in DOMAIN a.heap, n # x,
         NEW b, Joined(a, b, n, x), DOMAIN b.heap = DOMAIN a.heap \ {x}
  PROVE  SameBindings(a, b)
<1> SUFFICES ASSUME NEW p
             PROVE  Binds(b, p) <=> Binds(a, p)
  BY DEF SameBindings
<1> DEFINE s == a.heap[n].pairs
           t == a.heap[x].pairs
<1>1. s \in Seq(AllPairs) /\ t \in Seq(AllPairs)
  BY PairsType
<1> HIDE DEF s, t
<1>2. Contains(s \o t, p) <=> Contains(s, p) \/ Contains(t, p)
  BY ONLY <1>1, ContainsRow
<1>3. Contains(b.heap[n].pairs, p) <=> Contains(a.heap[n].pairs, p) \/ Contains(a.heap[x].pairs, p)
  BY <1>2 DEF Joined, s, t
<1> QED BY <1>3 DEF Binds, Joined

\* They are all pairs there were in the two,
LEMMA JoinedKeys ==
  ASSUME NEW a, NEW r, Formed(a, r), Ordered(a, r), NEW n, NEW x, Adjacent(a, r, n, x),
         RestFilled(a, n) \/ RestFilled(a, x),
         NEW b, DOMAIN b.heap = DOMAIN a.heap, Joined(a, b, n, x)
  PROVE  EndTells(r, b, x, LastKey(b, n))
<1> DEFINE N == DOMAIN a.heap
           s == a.heap[n].pairs
           t == a.heap[x].pairs
           u == s \o t
           c == Len(u)
<1>1. /\ a \in SkipArrays /\ n \in N /\ x \in N /\ n # x /\ r[n] < r[x]
      /\ \A m \in N : r[m] \in Nat
      /\ \A m, q \in N : r[m] = r[q] => m = q
      /\ \A m \in N : r[m] <= r[n] \/ r[x] <= r[m]
  BY FormedFacts DEF Adjacent
<1>2. /\ s \in Seq(AllPairs) /\ t \in Seq(AllPairs)
      /\ Len(s) = Count(a, n) /\ Len(t) = Count(a, x)
      /\ Len(s) \in Nat /\ Len(t) \in Nat
  BY <1>1, PairsType DEF Count
<1>3. Len(s) # 0 \/ Len(t) # 0
  BY <1>1, <1>2 DEF RestFilled
<1>4. Ascending(s) /\ Ascending(t) /\ Below(s, t)
  BY <1>1 DEF Ordered
<1>5. b.heap[n].pairs = u /\ \A m \in N : m # n /\ m # x => b.heap[m].pairs = a.heap[m].pairs
  BY DEF Joined
<1> HIDE DEF s, t
<1>6. /\ u \in Seq(AllPairs) /\ c = Len(s) + Len(t) /\ Ascending(u)
      /\ \A v : /\ Below(v, s) /\ Below(v, t) => Below(v, u)
                /\ Below(s, v) /\ Below(t, v) => Below(u, v)
  BY <1>2, <1>4, RowOfPairs, RowAscends
<1> HIDE DEF u
<1>7. c \in DOMAIN u /\ LastKey(b, n) = u[c].key /\ u[c].key \in Nat
  <2>1. c \in 1 .. c
    BY <1>2, <1>3, <1>6
  <2>2. DOMAIN u = 1 .. c /\ \A i \in 1 .. c : u[i] \in AllPairs
    BY <1>6, LenProperties, ElementOfSeq
  <2>3. LastKey(b, n) = u[c].key
    BY <1>5 DEF LastKey, Count
  <2> QED BY <2>1, <2>2, <2>3, KeysAreNumbers
<1>8. ASSUME NEW m \in N \ {x}
      PROVE  LastKey(b, m) <= LastKey(b, n) <=> r[m] < r[x]
  <2>1. CASE m = n
    BY <1>1, <1>7, <2>1
  <2>2. CASE m # n
    <3> DEFINE v == a.heap[m].pairs
               k == Count(a, m)
    <3>1. k \in Nat /\ k # 0
      BY <1>1, <2>2, PairsType DEF RestFilled
    <3>2. k \in DOMAIN v /\ LastKey(b, m) = v[k].key /\ v[k].key \in Nat
      <4>1. DOMAIN v = 1 .. k /\ k \in 1 .. k /\ v[k].key \in Nat
        BY <1>1, <3>1, PairsType
      <4>2. LastKey(b, m) = v[k].key
        BY <1>5, <2>2 DEF LastKey, Count
      <4> QED BY <4>1, <4>2
    <3>3. CASE r[m] < r[n]
      <4>1. Below(v, s) /\ Below(v, t)
        BY <1>1, <3>3 DEF Ordered, s, t
      <4>2. v[k].key < u[c].key
        BY <1>6, <1>7, <3>2, <4>1 DEF Below
      <4> QED BY <1>1, <1>7, <3>2, <3>3, <4>2
    <3>4. CASE r[x] < r[m]
      <4>1. Below(s, v) /\ Below(t, v)
        BY <1>1, <3>4 DEF Ordered, s, t
      <4>2. u[c].key < v[k].key
        BY <1>6, <1>7, <3>2, <4>1 DEF Below
      <4> QED BY <1>1, <1>7, <3>2, <3>4, <4>2
    <3> QED BY <1>1, <2>2, <3>3, <3>4
  <2> QED BY <2>1, <2>2
<1> QED BY <1>8 DEF EndTells

\* so that the keys stay in order when one node takes them all.
LEMMA JoinedOrdered ==
  ASSUME NEW a, NEW r, Formed(a, r), Ordered(a, r), NEW n, NEW x, Adjacent(a, r, n, x),
         RestFilled(a, n) \/ RestFilled(a, x), Count(a, n) + Count(a, x) <= NodeSize,
         NEW b, DOMAIN b.heap = DOMAIN a.heap \ {x}, Joined(a, b, n, x)
  PROVE  Ordered(b, r) /\ Filled(b)
<1> DEFINE N == DOMAIN a.heap
           s == a.heap[n].pairs
           t == a.heap[x].pairs
           u == s \o t
<1>1. /\ a \in SkipArrays /\ n \in N /\ x \in N /\ n # x /\ r[n] < r[x]
      /\ \A m \in N : r[m] \in Nat
      /\ \A m, q \in N : r[m] = r[q] => m = q
      /\ \A m \in N : r[m] <= r[n] \/ r[x] <= r[m]
  BY FormedFacts DEF Adjacent
<1>2. /\ s \in Seq(AllPairs) /\ t \in Seq(AllPairs)
      /\ Len(s) = Count(a, n) /\ Len(t) = Count(a, x)
      /\ Len(s) \in Nat /\ Len(t) \in Nat
  BY <1>1, PairsType DEF Count
<1>3. Len(s) # 0 \/ Len(t) # 0
  BY <1>1, <1>2 DEF RestFilled
<1>4. Ascending(s) /\ Ascending(t) /\ Below(s, t)
  BY <1>1 DEF Ordered
<1>5. b.heap[n].pairs = u /\ \A m \in N : m # n /\ m # x => b.heap[m].pairs = a.heap[m].pairs
  BY DEF Joined
<1> HIDE DEF s, t
<1>6. /\ u \in Seq(AllPairs) /\ Len(u) = Len(s) + Len(t) /\ Ascending(u)
      /\ \A v : /\ Below(v, s) /\ Below(v, t) => Below(v, u)
                /\ Below(s, v) /\ Below(t, v) => Below(u, v)
  BY <1>2, <1>4, RowOfPairs, RowAscends
<1> HIDE DEF u
<1>7. \A m \in N \ {x} : Count(b, m) = IF m = n THEN Len(s) + Len(t) ELSE Count(a, m)
  BY <1>5, <1>6 DEF Count
<1>8. Filled(b)
  <2>1. \A m \in N \ {x} : Count(b, m) # 0
    BY <1>2, <1>3, <1>7 DEF RestFilled
  <2> QED BY <2>1 DEF Filled
<1>9. ASSUME NEW m \in N \ {x}
      PROVE  Ascending(b.heap[m].pairs) /\ Count(b, m) <= NodeSize
  BY <1>2, <1>5, <1>6, <1>7 DEF Ordered
<1>10. ASSUME NEW m \in N \ {x}, NEW q \in N \ {x}, r[m] < r[q]
       PROVE  Below(b.heap[m].pairs, b.heap[q].pairs)
  <2>1. CASE m = n
    <3>1. q # n /\ r[n] < r[q] /\ r[x] < r[q]
      BY <1>1, <1>10, <2>1
    <3>2. Below(s, a.heap[q].pairs) /\ Below(t, a.heap[q].pairs)
      BY <1>1, <3>1 DEF Ordered, s, t
    <3> QED BY <1>5, <1>6, <2>1, <3>1, <3>2
  <2>2. CASE q = n
    <3>1. m # n /\ r[m] < r[n] /\ r[m] < r[x]
      BY <1>1, <1>10, <2>2
    <3>2. Below(a.heap[m].pairs, s) /\ Below(a.heap[m].pairs, t)
      BY <1>1, <3>1 DEF Ordered, s, t
    <3> QED BY <1>5, <1>6, <2>2, <3>1, <3>2
  <2>3. CASE m # n /\ q # n
    BY <1>5, <1>10, <2>3 DEF Ordered
  <2> QED BY <2>1, <2>2, <2>3
<1> QED BY <1>8, <1>9, <1>10 DEF Ordered

\* b is a with the pairs of x joined to those of n, and without x.
Merged(a, b, n, x) == Joined(a, b, n, x) /\ DOMAIN b.heap = DOMAIN a.heap \ {x}

\* The pairs of x go to the node in front of it, and x goes.
LEMMA merge_nextSound ==
  ASSUME NEW a, NEW r, Formed(a, r), Ordered(a, r), NEW n, NEW x,
         Adjacent(a, r, n, x), a.heap[x].back = n,
         RestFilled(a, n) \/ RestFilled(a, x), Count(a, n) + Count(a, x) <= NodeSize,
         NEW c, c = merge_next(a, n, x)
  PROVE  Sound(c, r) /\ SameBindings(a, c) /\ Merged(a, c, n, x)
<1> DEFINE s == a.heap[n].pairs
           t == a.heap[x].pairs
           u == s \o t
           b == SetPairs(a, n, u)
<1>1. /\ a \in SkipArrays /\ n \in DOMAIN a.heap /\ x \in DOMAIN a.heap
      /\ n # NULL /\ n # x
  BY FormedFacts DEF Adjacent
<1>2. u \in Seq(AllPairs)
  BY <1>1, PairsType, RowOfPairs
<1>3. c = unlink_node(b, x)
  BY DEF merge_next, SetPairs
<1>4. b = SetPairs(a, n, u)
  OBVIOUS
<1> HIDE DEF b
<1>5. /\ b \in SkipArrays /\ b.height = a.height /\ b.nodes = a.nodes
      /\ SameNodes(a, b) /\ SameLinks(a, b) /\ SameBacks(a, b)
      /\ \A m \in DOMAIN a.heap :
           /\ b.heap[m].pairs = IF m = n THEN u ELSE a.heap[m].pairs
           /\ b.heap[m].fwd = a.heap[m].fwd
  <2> HIDE DEF u
  <2> QED BY ONLY <1>1, <1>2, <1>4, SetPairsEffect
<1>6. Formed(b, r) /\ DOMAIN b.heap = DOMAIN a.heap
  BY <1>5, SameShape DEF SameNodes
<1>7. b.heap[x].back = n
  BY <1>1, <1>5 DEF SameBacks
<1>8. Joined(a, b, n, x)
  BY <1>1, <1>5 DEF Joined
<1>9. EndTells(r, b, x, LastKey(b, b.heap[x].back))
  BY <1>6, <1>7, <1>8, JoinedKeys
<1>10. /\ Formed(c, r) /\ DOMAIN c.heap = DOMAIN b.heap \ {x}
       /\ \A m \in DOMAIN c.heap : c.heap[m].pairs = b.heap[m].pairs
  BY <1>1, <1>3, <1>6, <1>7, <1>9, unlink_nodeFormed
<1>11. Joined(a, c, n, x)
  BY <1>1, <1>6, <1>8, <1>10 DEF Joined
<1>12. DOMAIN c.heap = DOMAIN a.heap \ {x}
  BY <1>6, <1>10
<1>13. SameBindings(a, c)
  BY <1>1, <1>11, <1>12, JoinedBindings
<1>14. Merged(a, c, n, x)
  BY <1>11, <1>12 DEF Merged
<1> QED BY <1>10, <1>11, <1>12, <1>13, <1>14, JoinedOrdered DEF Sound

\* What leads to the second node.
LEMMA HeadLevels ==
  ASSUME NEW a, NEW r, Formed(a, r), NEW n, NEW x, Adjacent(a, r, n, x), n = a.nodes[0],
         NEW l \in LevelSet, NEW q \in {NULL} \cup OnLevel(a, l)
  PROVE  After(a, q, l) = x <=> /\ x \in OnLevel(a, l)
                                /\ q = IF n \in OnLevel(a, l) THEN n ELSE NULL
<1> DEFINE N == DOMAIN a.heap
           T == OnLevel(a, l)
           p == IF n \in T THEN n ELSE NULL
<1>1. /\ \A m \in N : r[m] \in Nat /\ m # NULL
      /\ \A m, k \in N : r[m] = r[k] => m = k
      /\ T \subseteq N /\ Ranks(r, N) /\ n \in N /\ x \in N /\ r[n] < r[x]
      /\ \A m \in N : r[m] <= r[n] \/ r[x] <= r[m]
  BY FormedFacts DEF Adjacent, Formed
<1>2. \A m \in N : r[n] <= r[m]
  <2>1. Follows(r, N, NULL, n)
    BY FormedFacts DEF After
  <2> QED BY <1>1, <2>1 DEF Follows, Behind
<1>3. \A m \in T : m # n => r[x] <= r[m]
  BY <1>1, <1>2
<1>4. ASSUME x \in T, q = p PROVE After(a, q, l) = x
  <2>1. Follows(r, T, q, x)
    <3>1. Behind(r, q, x)
      BY <1>1, <1>4 DEF Behind
    <3>2. \A m \in T : Behind(r, q, m) => r[x] <= r[m]
      BY <1>1, <1>3, <1>4 DEF Behind
    <3> QED BY <1>4, <3>1, <3>2 DEF Follows
  <2>2. Follows(r, T, q, After(a, q, l))
    BY FormedFacts
  <2> HIDE DEF T, N
  <2> QED BY <1>1, <2>1, <2>2 DEF Follows
<1>5. ASSUME After(a, q, l) = x PROVE x \in T /\ q = p
  <2>1. Follows(r, T, q, x)
    BY <1>5, FormedFacts
  <2>2. x \in T /\ Behind(r, q, x) /\ \A m \in T : Behind(r, q, m) => r[x] <= r[m]
    BY <1>1, <2>1 DEF Follows
  <2>3. CASE q = NULL
    BY <1>1, <2>2, <2>3 DEF Behind
  <2>4. CASE q # NULL
    <3>1. q \in T /\ r[q] < r[x]
      BY <2>2, <2>4 DEF Behind
    <3> QED BY <1>1, <1>3, <2>2, <3>1
  <2> QED BY <2>2, <2>3, <2>4
<1> QED BY <1>4, <1>5

\* n has the pairs u and leads past x, as do the heads of the levels n is not on.
PastSecond(a, n, x, u) ==
  [a EXCEPT
     !.heap[n].pairs = u,
     !.heap[n].fwd = [l \in DOMAIN @ |->
        IF l < a.heap[x].height THEN a.heap[x].fwd[l] ELSE @[l]],
     !.nodes = [l \in DOMAIN @ |->
        IF l \in a.heap[n].height .. a.heap[x].height - 1 THEN a.heap[x].fwd[l] ELSE @[l]]]

\* What absorb_second does before the second node is freed.
LEMMA SkipSecond ==
  ASSUME NEW a \in SkipArrays, NEW n \in DOMAIN a.heap, NEW x \in DOMAIN a.heap, n # x,
         NEW u \in Seq(AllPairs),
         NEW b, b = PastSecond(a, n, x, u)
  PROVE  /\ b \in SkipArrays /\ b.height = a.height
         /\ SameNodes(a, b) /\ SameBacks(a, b)
         /\ \A m \in DOMAIN a.heap :
              b.heap[m].pairs = IF m = n THEN u ELSE a.heap[m].pairs
         /\ \A l \in LevelSet : \A q \in {NULL} \cup OnLevel(a, l) :
              After(b, q, l) =
                IF x \in OnLevel(a, l) /\ q = (IF n \in OnLevel(a, l) THEN n ELSE NULL)
                THEN After(a, x, l) ELSE After(a, q, l)
<1> DEFINE hn == a.heap[n].height
           hx == a.heap[x].height
           f == [l \in DOMAIN a.heap[n].fwd |->
                   IF l < hx THEN a.heap[x].fwd[l] ELSE a.heap[n].fwd[l]]
           g == [l \in DOMAIN a.nodes |->
                   IF l \in hn .. hx - 1 THEN a.heap[x].fwd[l] ELSE a.nodes[l]]
           c == SetPairs(a, n, u)
           d == SetFwd(c, n, f)
<1>1. /\ hn \in 1 .. MaxLevel /\ hx \in 1 .. MaxLevel /\ MaxLevel \in Nat
      /\ a.heap[n].fwd \in [0 .. hn - 1 -> Nat] /\ a.heap[x].fwd \in [0 .. hx - 1 -> Nat]
      /\ a.nodes \in [LevelSet -> Nat] /\ n # NULL /\ x # NULL
  BY ArrayParts, NodeParts, MaxLevelIs
<1>2. /\ f \in [0 .. hn - 1 -> Nat]
      /\ \A l \in 0 .. hn - 1 : f[l] = IF l < hx THEN a.heap[x].fwd[l] ELSE a.heap[n].fwd[l]
  <2>1. ASSUME NEW i \in Nat, NEW k \in Nat, NEW v \in [0 .. i - 1 -> Nat],
               NEW w \in [0 .. k - 1 -> Nat],
               NEW t, t = [l \in DOMAIN v |-> IF l < k THEN w[l] ELSE v[l]]
        PROVE  /\ t \in [0 .. i - 1 -> Nat]
               /\ \A l \in 0 .. i - 1 : t[l] = IF l < k THEN w[l] ELSE v[l]
    BY ONLY <2>1
  <2>2. hn \in Nat /\ hx \in Nat
    BY <1>1
  <2> QED BY <1>1, <2>1, <2>2, SMTT(30)
<1>3. /\ g \in [LevelSet -> Nat]
      /\ \A l \in LevelSet : g[l] = IF l \in hn .. hx - 1 THEN a.heap[x].fwd[l] ELSE a.nodes[l]
  <2>1. \A l \in LevelSet : l \in hn .. hx - 1 => a.heap[x].fwd[l] \in Nat
    BY <1>1
  <2>2. DOMAIN a.nodes = LevelSet /\ \A l \in LevelSet : a.nodes[l] \in Nat
    BY <1>1
  <2> QED BY ONLY <2>1, <2>2
<1>4. b = [d EXCEPT !.nodes = g]
  BY DEF SetPairs, SetFwd, PastSecond
<1> HIDE DEF f, g, d
<1>5. /\ c \in SkipArrays /\ c.height = a.height /\ c.nodes = a.nodes
      /\ SameNodes(a, c) /\ SameBacks(a, c)
      /\ \A m \in DOMAIN a.heap :
           /\ c.heap[m].pairs = IF m = n THEN u ELSE a.heap[m].pairs
           /\ c.heap[m].fwd = a.heap[m].fwd
  BY SetPairsEffect
<1> HIDE DEF c
<1>6. n \in DOMAIN c.heap /\ c.heap[n].height = hn /\ DOMAIN c.heap = DOMAIN a.heap
  BY <1>5 DEF SameNodes
<1>7. /\ d \in SkipArrays /\ d.height = c.height /\ d.nodes = c.nodes
      /\ SameNodes(c, d) /\ SamePairs(c, d) /\ SameBacks(c, d)
      /\ \A m \in DOMAIN c.heap : d.heap[m].fwd = IF m = n THEN f ELSE c.heap[m].fwd
  BY <1>2, <1>5, <1>6, SetFwdEffect DEF d
<1>8. b \in SkipArrays /\ b.height = d.height /\ b.nodes = g /\ b.heap = d.heap
  BY ONLY <1>3, <1>4, <1>7, NodesWith
<1>9. /\ SameNodes(a, b) /\ SameBacks(a, b)
      /\ \A m \in DOMAIN a.heap :
           /\ b.heap[m].pairs = IF m = n THEN u ELSE a.heap[m].pairs
           /\ b.heap[m].fwd = IF m = n THEN f ELSE a.heap[m].fwd
  BY <1>5, <1>6, <1>7, <1>8 DEF SameNodes, SameBacks, SamePairs
<1>10. ASSUME NEW l \in LevelSet, NEW q \in {NULL} \cup OnLevel(a, l)
       PROVE  After(b, q, l) =
                IF x \in OnLevel(a, l) /\ q = (IF n \in OnLevel(a, l) THEN n ELSE NULL)
                THEN After(a, x, l) ELSE After(a, q, l)
  <2>1. /\ l \in Nat
        /\ x \in OnLevel(a, l) <=> l < hx
        /\ n \in OnLevel(a, l) <=> l < hn
    BY <1>1, SMTT(30) DEF LevelSet, OnLevel
  <2>2. After(a, x, l) = a.heap[x].fwd[l]
    BY <1>1 DEF After
  <2>3. CASE q = NULL
    <3>1. After(b, q, l) = g[l] /\ After(a, q, l) = a.nodes[l]
      BY <1>8, <2>3 DEF After
    <3>2. l \in hn .. hx - 1 <=> x \in OnLevel(a, l) /\ n \notin OnLevel(a, l)
      BY <1>1, <2>1
    <3> QED BY <1>1, <1>3, <2>2, <2>3, <3>1, <3>2
  <2>4. CASE q = n
    <3>1. n \in OnLevel(a, l) /\ l \in 0 .. hn - 1
      BY <1>1, <2>1, <2>4
    <3>2. After(b, q, l) = f[l] /\ After(a, q, l) = a.heap[n].fwd[l]
      BY <1>1, <1>9, <2>4 DEF After
    <3> QED BY <1>2, <2>1, <2>2, <2>4, <3>1, <3>2
  <2>5. CASE q # NULL /\ q # n
    <3>1. After(b, q, l) = After(a, q, l)
      BY <1>9, <2>5 DEF After, OnLevel
    <3> QED BY <2>5, <3>1
  <2> QED BY <2>3, <2>4, <2>5
<1> QED BY <1>5, <1>7, <1>8, <1>9, <1>10

\* The pairs of the second node go to the first, and the second goes.
LEMMA absorb_secondSound ==
  ASSUME NEW a, NEW r, Formed(a, r), Ordered(a, r), NEW n, n = a.nodes[0],
         NEW x, x = After(a, n, 0), x # NULL,
         RestFilled(a, n), Count(a, n) + Count(a, x) <= NodeSize,
         NEW c, c = absorb_second(a, n, x)
  PROVE  Sound(c, r) /\ SameBindings(a, c) /\ Merged(a, c, n, x)
<1> DEFINE N == DOMAIN a.heap
           u == a.heap[n].pairs \o a.heap[x].pairs
           y == After(a, x, 0)
           s == PastSecond(a, n, x, u)
           e == SetBack(s, y, n)
           f == node_free(e, x)
<1>1. /\ a \in SkipArrays /\ OnLevel(a, 0) = N /\ 0 \in LevelSet /\ MaxLevel \in Nat
      /\ \A l \in LevelSet : OnLevel(a, l) \subseteq N
      /\ \A m \in N : m # NULL /\ m \in Nat
  BY FormedFacts, MaxLevelIs
<1>2. n \in N
  <2>1. Follows(r, N, NULL, n)
    BY <1>1, FormedFacts DEF After
  <2>2. N # {}
    <3>1. 0 < a.height
      BY FormedFacts
    <3> QED BY <1>1, <3>1 DEF Formed, Tall
  <2> QED BY <2>1, <2>2 DEF Follows, Behind
<1>3. Adjacent(a, r, n, x) /\ a.heap[x].back = n
  BY <1>2, NextIsAdjacent
<1>4. x \in N /\ n # x /\ x # NULL /\ n # NULL
  BY <1>1, <1>3, FormedFacts DEF Adjacent
<1>5. y \in {NULL} \cup N
  <2>1. Follows(r, N, x, y)
    BY <1>1, <1>4, FormedFacts
  <2> QED BY <2>1 DEF Follows
<1>6. c = lower_height(f)
  BY <1>1, <1>4 DEF absorb_second, After, PastSecond
<1>7. s = PastSecond(a, n, x, u)
  OBVIOUS
<1>8. u \in Seq(AllPairs)
  BY <1>2, <1>1, <1>4, PairsType, RowOfPairs
<1> HIDE DEF s, u, y
<1>9. /\ s \in SkipArrays /\ s.height = a.height
      /\ SameNodes(a, s) /\ SameBacks(a, s)
      /\ \A m \in N : s.heap[m].pairs = IF m = n THEN u ELSE a.heap[m].pairs
      /\ \A l \in LevelSet : \A q \in {NULL} \cup OnLevel(a, l) :
           After(s, q, l) =
             IF x \in OnLevel(a, l) /\ q = (IF n \in OnLevel(a, l) THEN n ELSE NULL)
             THEN After(a, x, l) ELSE After(a, q, l)
  BY ONLY <1>1, <1>2, <1>4, <1>7, <1>8, SkipSecond
<1>10. \A l \in LevelSet : \A q \in {NULL} \cup OnLevel(a, l) :
         After(s, q, l) = IF After(a, q, l) = x THEN After(a, x, l) ELSE After(a, q, l)
  BY <1>3, <1>9, HeadLevels
<1>11. DOMAIN s.heap = N
  BY <1>9 DEF SameNodes
<1>12. /\ e \in SkipArrays /\ e.height = s.height
       /\ SameNodes(s, e) /\ SamePairs(s, e) /\ SameLinks(s, e)
       /\ BackIs(s, e, y, n)
  <2>1. e = SetBack(s, y, n)
    OBVIOUS
  <2>2. y \in {NULL} \cup DOMAIN s.heap /\ n \in Nat
    BY <1>1, <1>2, <1>5, <1>11
  <2> HIDE DEF e
  <2> QED BY ONLY <1>9, <2>1, <2>2, SetBackEffect
<1> HIDE DEF e
<1>13. /\ f \in SkipArrays /\ f.height = e.height /\ f.nodes = e.nodes
       /\ DOMAIN f.heap = N \ {x} /\ \A m \in N \ {x} : f.heap[m] = e.heap[m]
  <2>1. DOMAIN e.heap = N
    BY <1>11, <1>12 DEF SameNodes
  <2> QED BY <1>12, <2>1, node_freeEffect
<1> HIDE DEF f
<1>14. \A l \in LevelSet : \A q \in {NULL} \cup (OnLevel(a, l) \ {x}) :
         After(f, q, l) = IF After(a, q, l) = x THEN After(a, x, l) ELSE After(a, q, l)
  <2>1. ASSUME NEW l \in LevelSet, NEW q \in {NULL} \cup (OnLevel(a, l) \ {x})
        PROVE  After(f, q, l) = IF After(a, q, l) = x THEN After(a, x, l) ELSE After(a, q, l)
    <3>1. After(f, q, l) = After(e, q, l)
      BY <1>1, <1>13 DEF After
    <3>2. OnLevel(s, l) = OnLevel(a, l)
      BY <1>9, OnLevelSame
    <3>3. After(e, q, l) = After(s, q, l)
      BY <1>12, <3>2 DEF SameLinks
    <3> QED BY <1>10, <3>1, <3>3
  <2> QED BY <2>1
<1> DEFINE b == HeadsPast(a, x)
<1>15. /\ \A l \in LevelSet : /\ b.nodes[l] = IF a.nodes[l] = x THEN After(a, x, l)
                                              ELSE a.nodes[l]
                              /\ b.nodes[l] # NULL <=> OnLevel(a, l) \ {x} # {}
       /\ b.nodes[0] # NULL
  <2>1. b = HeadsPast(a, x)
    OBVIOUS
  <2> HIDE DEF b
  <2>2. a.heap[x].back # NULL
    BY <1>3, <1>4
  <2> QED BY ONLY <1>4, <2>1, <2>2, Formed(a, r), HeadsSkip
<1> HIDE DEF b
<1>16. \A l \in LevelSet : f.nodes[l] = b.nodes[l]
  <2>1. ASSUME NEW l \in LevelSet PROVE f.nodes[l] = b.nodes[l]
    <3>1. /\ After(f, NULL, l) = f.nodes[l] /\ After(a, NULL, l) = a.nodes[l]
          /\ NULL \in {NULL} \cup (OnLevel(a, l) \ {x})
      BY DEF After
    <3>2. f.nodes[l] = IF a.nodes[l] = x THEN After(a, x, l) ELSE a.nodes[l]
      BY <1>14, <3>1
    <3> QED BY <1>15, <3>2
  <2> QED BY <2>1
<1>17. /\ c \in SkipArrays /\ c.nodes = f.nodes /\ c.heap = f.heap
       /\ \A l \in LevelSet : c.nodes[l] # NULL <=> l < c.height
  <2>1. \A k, l \in LevelSet : k <= l /\ f.nodes[l] # NULL => f.nodes[k] # NULL
    <3>1. ASSUME NEW k \in LevelSet, NEW l \in LevelSet, k <= l, f.nodes[l] # NULL
          PROVE  f.nodes[k] # NULL
      <4>1. OnLevel(a, l) \subseteq OnLevel(a, k)
        BY <1>1, <3>1, LevelsNest
      <4> QED BY <1>15, <1>16, <3>1, <4>1
    <3> QED BY <3>1
  <2>2. \A l \in LevelSet : f.nodes[l] # NULL => l < f.height
    <3>1. ASSUME NEW l \in LevelSet, f.nodes[l] # NULL PROVE l < a.height
      <4>1. OnLevel(a, l) # {}
        BY <1>15, <1>16, <3>1
      <4> QED BY <4>1 DEF Formed, Tall
    <3> QED BY <1>9, <1>12, <1>13, <3>1
  <2>3. f.nodes[0] # NULL
    BY <1>1, <1>15, <1>16
  <2> QED BY ONLY <1>6, <1>13, <2>1, <2>2, <2>3, lower_heightEffect
<1>18. Shrunk(a, c, x)
  BY <1>9, <1>11, <1>12, <1>13, <1>17 DEF Shrunk, SameNodes
<1>19. \A l \in LevelSet : Skips(a, c, x, l)
  <2>1. \A l \in LevelSet : \A q \in {NULL} \cup (OnLevel(a, l) \ {x}) : After(c, q, l) = After(f, q, l)
    BY <1>17 DEF After
  <2> QED BY <1>14, <2>1 DEF Skips
<1>20. SkipsBack(a, c, x)
  <2>1. \A m \in N \ {x} : a.heap[m].back = x <=> m = y
    BY <1>4, BackIsNext DEF y
  <2>2. \A m \in N \ {x} : c.heap[m].back = IF m = y THEN n ELSE a.heap[m].back
    BY <1>9, <1>11, <1>12, <1>13, <1>17 DEF BackIs, SameBacks
  <2> QED BY <1>3, <1>13, <1>17, <2>1, <2>2 DEF SkipsBack
<1>21. Formed(c, r)
  BY <1>4, <1>17, <1>18, <1>19, <1>20, ShrunkFormed
<1>22. Joined(a, c, n, x)
  <2>1. \A m \in N \ {x} : c.heap[m].pairs = s.heap[m].pairs
    BY <1>11, <1>12, <1>13, <1>17 DEF SamePairs
  <2> QED BY <1>2, <1>4, <1>9, <2>1 DEF Joined, u
<1>23. DOMAIN c.heap = N \ {x}
  BY <1>13, <1>17
<1>24. SameBindings(a, c)
  BY <1>1, <1>2, <1>4, <1>22, <1>23, JoinedBindings
<1>25. Merged(a, c, n, x)
  BY <1>22, <1>23 DEF Merged
<1> QED BY <1>3, <1>21, <1>22, <1>23, <1>24, <1>25, JoinedOrdered DEF Sound

\* A row of pairs, cut in two.
CutInTwo(s, k, low, high) ==
  /\ low \in Seq(AllPairs) /\ Len(low) = k
  /\ high \in Seq(AllPairs) /\ Len(high) = Len(s) - k
  /\ Ascending(low) /\ Ascending(high) /\ Below(low, high)
  /\ \A v : /\ Below(v, s) => Below(v, low) /\ Below(v, high)
            /\ Below(s, v) => Below(low, v) /\ Below(high, v)

\* Each part of a row that ascends does, too.
LEMMA CutPairs ==
  ASSUME NEW s \in Seq(AllPairs), NEW k \in 0 .. Len(s), Ascending(s),
         NEW low, low = SubSeq(s, 1, k), NEW high, high = SubSeq(s, k + 1, Len(s))
  PROVE  CutInTwo(s, k, low, high)
<1>1. /\ low \in Seq(AllPairs) /\ Len(low) = k
      /\ high \in Seq(AllPairs) /\ Len(high) = Len(s) - k
      /\ Len(s) \in Nat
  BY CutProperties, LenProperties
<1>2. /\ \A j \in 1 .. k : low[j] = s[j]
      /\ \A j \in 1 .. Len(s) - k : high[j] = s[k + j]
  BY CutElements
<1>3. /\ DOMAIN low = 1 .. k /\ DOMAIN high = 1 .. Len(s) - k /\ DOMAIN s = 1 .. Len(s)
      /\ k \in Nat /\ k <= Len(s)
  BY <1>1, LenProperties
<1>4. Len(s) \in Nat /\ k \in Nat /\ k <= Len(s)
  BY <1>1, <1>3
<1>5. ASSUME NEW j \in DOMAIN low
      PROVE  j \in DOMAIN s /\ j \in 1 .. k /\ low[j] = s[j]
  <2>1. j \in 1 .. k
    BY <1>3
  <2>2. j \in 1 .. Len(s)
    BY ONLY <1>4, <2>1
  <2>3. low[j] = s[j]
    BY ONLY <1>2, <2>1
  <2>4. j \in DOMAIN s
    BY ONLY <1>3, <2>2
  <2> QED BY ONLY <2>1, <2>3, <2>4
<1>6. ASSUME NEW j \in DOMAIN high
      PROVE  k + j \in DOMAIN s /\ j \in Nat \ {0} /\ high[j] = s[k + j]
  <2>1. j \in 1 .. Len(s) - k
    BY <1>3
  <2>2. k + j \in 1 .. Len(s) /\ j \in Nat \ {0}
    BY ONLY <1>4, <2>1
  <2>3. high[j] = s[k + j]
    BY ONLY <1>2, <2>1
  <2>4. k + j \in DOMAIN s
    BY ONLY <1>3, <2>2
  <2> QED BY ONLY <2>2, <2>3, <2>4
<1>7. Ascending(low)
  BY <1>5 DEF Ascending
<1>8. Ascending(high)
  <2>1. ASSUME NEW i \in DOMAIN high, NEW j \in DOMAIN high, i < j
        PROVE  high[i].key < high[j].key
    <3>1. k + i < k + j
      BY <1>6, <2>1
    <3> QED BY <1>6, <3>1 DEF Ascending
  <2> QED BY <2>1 DEF Ascending
<1>9. Below(low, high)
  <2>1. ASSUME NEW i \in DOMAIN low, NEW j \in DOMAIN high
        PROVE  low[i].key < high[j].key
    <3>1. i < k + j
      BY <1>5, <1>6
    <3> QED BY <1>5, <1>6, <3>1 DEF Ascending
  <2> QED BY <2>1 DEF Below
<1>10. ASSUME NEW v
      PROVE  /\ Below(v, s) => Below(v, low) /\ Below(v, high)
             /\ Below(s, v) => Below(low, v) /\ Below(high, v)
  BY <1>5, <1>6 DEF Below
<1> QED BY <1>1, <1>7, <1>8, <1>9, <1>10 DEF CutInTwo

\* n and x have the pairs u and v, the others what they had.
Shifted(a, b, n, x, u, v) ==
  \A m \in DOMAIN a.heap :
    b.heap[m].pairs = IF m = n THEN u ELSE IF m = x THEN v ELSE a.heap[m].pairs

\* low, the first k pairs of x, makes those of n u, and leaves x v.
Moves(a, n, x, k, u, v) ==
  /\ n \in DOMAIN a.heap /\ x \in DOMAIN a.heap /\ n # x
  /\ u \in Seq(AllPairs) /\ v \in Seq(AllPairs)
  /\ u = a.heap[n].pairs \o SubSeq(a.heap[x].pairs, 1, k)
  /\ v = SubSeq(a.heap[x].pairs, k + 1, Len(a.heap[x].pairs))

\* Pairs move between neighbours: nothing but the two rows changes.
LEMMA move_pairsEffect ==
  ASSUME NEW a, NEW r, Formed(a, r), NEW n, NEW x, NEW k, NEW u, NEW v,
         Moves(a, n, x, k, u, v), NEW c, c = move_pairs(a, n, x, k)
  PROVE  Formed(c, r) /\ DOMAIN c.heap = DOMAIN a.heap /\ Shifted(a, c, n, x, u, v)
<1> USE DEF Moves
<1> DEFINE b == SetPairs(a, n, u)
<1>1. a \in SkipArrays
  BY DEF Formed
<1>2. c = SetPairs(b, x, v)
  BY DEF move_pairs, SetPairs
<1>3. b = SetPairs(a, n, u)
  OBVIOUS
<1> HIDE DEF b
<1>4. /\ b \in SkipArrays /\ b.height = a.height /\ b.nodes = a.nodes
      /\ SameNodes(a, b) /\ SameLinks(a, b) /\ SameBacks(a, b)
      /\ \A m \in DOMAIN a.heap :
           /\ b.heap[m].pairs = IF m = n THEN u ELSE a.heap[m].pairs
           /\ b.heap[m].fwd = a.heap[m].fwd
  BY ONLY <1>1, <1>3, n \in DOMAIN a.heap, u \in Seq(AllPairs), SetPairsEffect
<1>5. DOMAIN b.heap = DOMAIN a.heap
  BY <1>4 DEF SameNodes
<1>6. Formed(b, r)
  BY <1>4, SameShape
<1>7. /\ c \in SkipArrays /\ c.height = b.height /\ c.nodes = b.nodes
      /\ SameNodes(b, c) /\ SameLinks(b, c) /\ SameBacks(b, c)
      /\ \A m \in DOMAIN b.heap :
           /\ c.heap[m].pairs = IF m = x THEN v ELSE b.heap[m].pairs
           /\ c.heap[m].fwd = b.heap[m].fwd
  <2>1. x \in DOMAIN b.heap
    BY <1>5
  <2> QED BY ONLY <1>2, <1>4, <2>1, v \in Seq(AllPairs), SetPairsEffect
<1>8. Formed(c, r) /\ DOMAIN c.heap = DOMAIN a.heap
  BY <1>5, <1>6, <1>7, SameShape DEF SameNodes
<1>9. Shifted(a, c, n, x, u, v)
  BY <1>4, <1>5, <1>7 DEF Shifted
<1> QED BY <1>8, <1>9

\* b is a with the first k pairs of x behind those of n.
Refilled(a, b, n, x, k) ==
  /\ DOMAIN b.heap = DOMAIN a.heap
  /\ b.heap[n].pairs = a.heap[n].pairs \o SubSeq(a.heap[x].pairs, 1, k)
  /\ b.heap[x].pairs = SubSeq(a.heap[x].pairs, k + 1, Len(a.heap[x].pairs))
  /\ \A m \in DOMAIN a.heap : m # n /\ m # x => b.heap[m].pairs = a.heap[m].pairs

\* The first pairs of x, but not all, go to the node in front of it.
LEMMA move_pairsSound ==
  ASSUME NEW a, NEW r, Formed(a, r), Ordered(a, r), NEW n, NEW x, Adjacent(a, r, n, x),
         RestFilled(a, n), NEW k \in Nat, 0 < k, k < Count(a, x), Count(a, n) + k <= NodeSize,
         NEW c, c = move_pairs(a, n, x, k)
  PROVE  Sound(c, r) /\ SameBindings(a, c) /\ Refilled(a, c, n, x, k)
<1> DEFINE N == DOMAIN a.heap
           s == a.heap[n].pairs
           t == a.heap[x].pairs
           low == SubSeq(t, 1, k)
           v == SubSeq(t, k + 1, Len(t))
           u == s \o low
<1>1. /\ a \in SkipArrays /\ n \in N /\ x \in N /\ n # x /\ r[n] < r[x]
      /\ \A m \in N : r[m] \in Nat
      /\ \A m, q \in N : r[m] = r[q] => m = q
      /\ \A m \in N : r[m] <= r[n] \/ r[x] <= r[m]
  BY FormedFacts DEF Adjacent
<1>2. /\ s \in Seq(AllPairs) /\ t \in Seq(AllPairs)
      /\ Len(s) = Count(a, n) /\ Len(t) = Count(a, x)
      /\ Len(s) \in Nat /\ Len(t) \in Nat /\ k \in 0 .. Len(t)
  BY <1>1, PairsType DEF Count
<1>3. Ascending(s) /\ Ascending(t) /\ Below(s, t) /\ Len(t) <= NodeSize
  <2>1. Ascending(s) /\ Ascending(t) /\ Count(a, x) <= NodeSize
    BY <1>1 DEF Ordered
  <2>2. Below(s, t)
    BY <1>1 DEF Ordered
  <2> QED BY <1>2, <2>1, <2>2
<1>4. low = SubSeq(t, 1, k) /\ v = SubSeq(t, k + 1, Len(t))
  OBVIOUS
<1> HIDE DEF s, t, low, v
<1>5. /\ low \in Seq(AllPairs) /\ Len(low) = k
      /\ v \in Seq(AllPairs) /\ Len(v) = Len(t) - k
      /\ Ascending(low) /\ Ascending(v) /\ Below(low, v)
      /\ \A w : /\ Below(w, t) => Below(w, low) /\ Below(w, v)
                /\ Below(t, w) => Below(low, w) /\ Below(v, w)
  <2>1. t \in Seq(AllPairs)
    BY <1>2
  <2>2. k \in 0 .. Len(t)
    BY <1>2
  <2>3. Ascending(t)
    BY <1>3
  <2>4. CutInTwo(t, k, low, v)
    BY ONLY <2>1, <2>2, <2>3, <1>4, CutPairs
  <2> QED BY ONLY <2>4 DEF CutInTwo
<1>6. Below(s, low) /\ Below(s, v)
  <2>1. Below(s, t)
    BY <1>3
  <2>2. Below(s, t) => Below(s, low) /\ Below(s, v)
    BY ONLY <1>5
  <2> QED BY <2>1, <2>2
<1>7. u = s \o low
  OBVIOUS
<1> HIDE DEF u
<1>8. /\ u \in Seq(AllPairs) /\ Len(u) = Len(s) + k /\ Ascending(u)
      /\ \A w : /\ Below(w, s) /\ Below(w, low) => Below(w, u)
                /\ Below(s, w) /\ Below(low, w) => Below(u, w)
  BY <1>2, <1>3, <1>5, <1>6, <1>7, RowOfPairs, RowAscends, ZenonT(60)
<1>9. Formed(c, r) /\ DOMAIN c.heap = N /\ Shifted(a, c, n, x, u, v)
  <2>1. /\ u = a.heap[n].pairs \o SubSeq(a.heap[x].pairs, 1, k)
        /\ v = SubSeq(a.heap[x].pairs, k + 1, Len(a.heap[x].pairs))
    BY ONLY <1>4, <1>7 DEF s, t
  <2>2. Moves(a, n, x, k, u, v)
    BY <1>1, <1>5, <1>8, <2>1 DEF Moves
  <2> QED BY ONLY <2>2, Formed(a, r), c = move_pairs(a, n, x, k), move_pairsEffect
<1>10. /\ c.heap[n].pairs = u /\ c.heap[x].pairs = v
       /\ \A m \in N : m # n /\ m # x => c.heap[m].pairs = a.heap[m].pairs
  BY <1>1, <1>9 DEF Shifted
<1>11. \A m \in N : Count(c, m) = IF m = n THEN Len(s) + k ELSE IF m = x THEN Len(t) - k
                                  ELSE Count(a, m)
  BY <1>5, <1>8, <1>10 DEF Count
<1>12. Filled(c)
  <2>1. \A m \in N : Count(c, m) # 0
    BY <1>1, <1>2, <1>11 DEF RestFilled
  <2> QED BY <1>9, <2>1 DEF Filled
<1>13. ASSUME NEW m \in N
       PROVE  Ascending(c.heap[m].pairs) /\ Count(c, m) <= NodeSize
  <2>1. CASE m = n
    BY <1>2, <1>8, <1>10, <1>11, <2>1
  <2>2. CASE m = x
    <3>1. Len(t) - k <= NodeSize
      BY <1>2, <1>3, SkipListAssumption
    <3> QED BY <1>1, <1>5, <1>10, <1>11, <2>2, <3>1
  <2>3. CASE m # n /\ m # x
    BY <1>10, <1>11, <2>3 DEF Ordered
  <2> QED BY <2>1, <2>2, <2>3
<1>14. ASSUME NEW m \in N, NEW q \in N, r[m] < r[q]
       PROVE  Below(c.heap[m].pairs, c.heap[q].pairs)
  <2> DEFINE P == a.heap[m].pairs
             Q == a.heap[q].pairs
  <2>1. Below(P, Q)
    BY <1>14 DEF Ordered
  <2>2. CASE m = n /\ q = x
    BY <1>5, <1>6, <1>8, <1>10, <2>2
  <2>3. CASE m = n /\ q # x
    <3>1. q # n /\ r[x] < r[q]
      BY <1>1, <1>14, <2>3
    <3>2. Below(s, Q) /\ Below(t, Q)
      BY <1>1, <1>14, <2>3, <3>1 DEF Ordered, s, t
    <3>3. Below(u, Q)
      BY <1>5, <1>8, <3>2
    <3> QED BY <1>10, <2>3, <3>1, <3>3
  <2>4. CASE m = x
    <3>1. q # n /\ q # x
      BY <1>1, <1>14, <2>4
    <3>2. Below(t, Q)
      BY <2>1, <2>4 DEF t
    <3> QED BY <1>5, <1>10, <2>4, <3>1, <3>2
  <2>5. CASE q = n
    <3>1. m # n /\ m # x /\ r[m] < r[x]
      BY <1>1, <1>14, <2>5
    <3>2. Below(P, s) /\ Below(P, t)
      BY <1>1, <1>14, <2>5, <3>1 DEF Ordered, s, t
    <3>3. Below(P, u)
      BY <1>5, <1>8, <3>2
    <3> QED BY <1>10, <2>5, <3>1, <3>3
  <2>6. CASE m # n /\ m # x /\ q = x
    <3>1. Below(P, t)
      BY <2>1, <2>6 DEF t
    <3>2. Below(P, v)
      BY <1>5, <3>1
    <3> QED BY <1>1, <1>10, <2>6, <3>2
  <2>7. CASE m # n /\ m # x /\ q # n /\ q # x
    BY <1>10, <2>1, <2>7
  <2> QED BY <2>2, <2>3, <2>4, <2>5, <2>6, <2>7
<1>15. Ordered(c, r)
  BY <1>9, <1>13, <1>14 DEF Ordered
<1>16. ASSUME NEW p
       PROVE  Binds(c, p) <=> Binds(a, p)
  <2>1. Contains(u, p) <=> Contains(s, p) \/ Contains(low, p)
    BY ONLY <1>2, <1>5, <1>7, ContainsRow
  <2>2. Contains(t, p) <=> Contains(low, p) \/ Contains(v, p)
    BY ONLY <1>2, <1>4, ContainsParts
  <2>3. /\ Contains(c.heap[n].pairs, p) <=> Contains(a.heap[n].pairs, p) \/ Contains(low, p)
        /\ Contains(a.heap[x].pairs, p) <=> Contains(low, p) \/ Contains(c.heap[x].pairs, p)
    BY <1>10, <2>1, <2>2 DEF s, t
  <2> QED BY <1>1, <1>9, <1>10, <2>3 DEF Binds
<1>17. Refilled(a, c, n, x, k)
  BY <1>4, <1>7, <1>9, <1>10 DEF Refilled, s, t
<1> QED BY <1>9, <1>12, <1>15, <1>16, <1>17 DEF Sound, SameBindings

\* shift_pairs leaves the giver half full and overfills nobody.
LEMMA ShiftCounts ==
  ASSUME NEW x \in Nat, NEW y \in Nat, x < Required, x + y > NodeSize, y <= NodeSize,
         NEW k, k = y - Required
  PROVE  k \in Nat /\ 0 < k /\ k < y /\ x + k <= NodeSize
<1>1. Required \in Nat /\ Required >= 1 /\ 2 * Required <= NodeSize
  BY SkipListAssumption DEF Required
<1> HIDE DEF Required
<1> QED BY <1>1, SkipListAssumption

\* What becomes of a node that may have too few pairs: it is merged with the
\* next one, refilled from that, merged with the one before it if it is the
\* last, or left.
Rebalanced(a, r, n, c) ==
  \/ c = a /\ (Count(a, n) < Required =>
                 /\ ~\E x : Adjacent(a, r, n, x)
                 /\ \A x : Adjacent(a, r, x, n) => ~fits(a, x, n))
  \/ \E x : /\ Adjacent(a, r, n, x) /\ Count(a, n) < Required
            /\ \/ fits(a, n, x) /\ Merged(a, c, n, x)
               \/ ~fits(a, n, x) /\ Refilled(a, c, n, x, Count(a, x) - Required)
  \/ \E x : /\ Adjacent(a, r, x, n) /\ Count(a, n) < Required
            /\ ~\E y : Adjacent(a, r, n, y)
            /\ fits(a, x, n) /\ Merged(a, c, x, n)

\* A node with too few pairs is shifted to, or merged with, a neighbour.
LEMMA shift_or_mergeSound ==
  ASSUME NEW a, NEW r, Formed(a, r), Ordered(a, r), NEW n \in DOMAIN a.heap,
         RestFilled(a, n), Count(a, n) < Required, NEW c, c = shift_or_merge(a, n)
  PROVE  Sound(c, r) /\ SameBindings(a, c) /\ Rebalanced(a, r, n, c)
<1> DEFINE next == a.heap[n].fwd[0]
           prev == a.heap[n].back
           k == Count(a, next) - Required
<1>1. /\ a \in SkipArrays /\ n # NULL /\ OnLevel(a, 0) = DOMAIN a.heap /\ 0 \in LevelSet
      /\ NULL \notin DOMAIN a.heap
      /\ \A m \in DOMAIN a.heap : r[m] \in Nat
      /\ \A m, q \in DOMAIN a.heap : r[m] = r[q] => m = q
      /\ \A p \in {NULL} \cup DOMAIN a.heap : Follows(r, DOMAIN a.heap, p, After(a, p, 0))
  BY FormedFacts
<1>2. next = After(a, n, 0)
  BY <1>1 DEF After
<1>3. \A m \in DOMAIN a.heap : Count(a, m) \in Nat /\ Count(a, m) <= NodeSize
  BY <1>1, PairsType DEF Ordered
<1>4. NodeSize \in Nat
  BY SkipListAssumption
<1>5. prev = NULL <=> n = a.nodes[0]
  BY HeadIsFirst
<1>6. prev # NULL => Adjacent(a, r, prev, n)
  BY BackIsAdjacent
<1>7. next # NULL => Adjacent(a, r, n, next) /\ a.heap[next].back = n
  BY <1>2, NextIsAdjacent
<1>8. c = IF n = a.nodes[0] /\ next = NULL THEN a
          ELSE IF next = NULL
               THEN IF fits(a, prev, n) THEN merge_next(a, prev, n) ELSE a
          ELSE IF fits(a, next, n) THEN merge_next(a, n, next)
          ELSE move_pairs(a, n, next, k)
  BY DEF shift_or_merge
<1>9. prev # NULL => prev \in DOMAIN a.heap
  BY <1>6 DEF Adjacent
<1>10. next # NULL => next \in DOMAIN a.heap
  BY <1>7 DEF Adjacent
<1>11. prev = a.heap[n].back
  OBVIOUS
<1>12. k = Count(a, next) - Required
  OBVIOUS
<1> HIDE DEF next, prev, k
<1>18. \A x : Adjacent(a, r, n, x) <=> x = next /\ next # NULL
  BY <1>1, <1>2, <1>7 DEF Adjacent, Follows, Behind
<1>19. \A x : Adjacent(a, r, x, n) <=> x = prev /\ prev # NULL
  <2>1. ASSUME NEW x, Adjacent(a, r, x, n) PROVE x = prev /\ prev # NULL
    <3>1. InFront(r, DOMAIN a.heap, prev, n)
      BY <1>11 DEF Formed, Backed
    <3> QED BY <1>1, <2>1, <3>1 DEF Adjacent, InFront, Behind
  <2> QED BY <1>6, <2>1
<1>20. next # NULL => (fits(a, n, next) <=> fits(a, next, n))
  BY <1>3, <1>10 DEF fits
<1>13. CASE n = a.nodes[0] /\ next = NULL
  <2>1. \A m \in DOMAIN a.heap : m = n
    <3>1. After(a, NULL, 0) = n /\ After(a, n, 0) = NULL
      BY <1>2, <1>13 DEF After
    <3>2. Follows(r, DOMAIN a.heap, NULL, n) /\ Follows(r, DOMAIN a.heap, n, NULL)
      BY <1>1, <3>1
    <3> QED BY <1>1, <3>2 DEF Follows, Behind
  <2>2. Filled(a)
    BY <2>1 DEF Filled
  <2>3. Rebalanced(a, r, n, c)
    BY <1>5, <1>8, <1>13, <1>18, <1>19 DEF Rebalanced
  <2> QED BY <1>8, <1>13, <2>2, <2>3 DEF Sound, SameBindings
<1>14. CASE ~(n = a.nodes[0]) /\ next = NULL /\ fits(a, prev, n)
  <2>1. Adjacent(a, r, prev, n)
    BY <1>5, <1>6, <1>14
  <2>2. c = merge_next(a, prev, n)
    BY <1>8, <1>14
  <2>3. Count(a, prev) + Count(a, n) <= NodeSize
    BY <1>14 DEF fits
  <2>4. a.heap[n].back = prev
    BY <1>11
  <2>5. Sound(c, r) /\ SameBindings(a, c) /\ Merged(a, c, prev, n)
    BY <2>1, <2>2, <2>3, <2>4, merge_nextSound
  <2>6. Rebalanced(a, r, n, c)
    BY <1>14, <1>18, <2>1, <2>5 DEF Rebalanced
  <2> QED BY <2>5, <2>6
<1>15. CASE ~(n = a.nodes[0]) /\ next = NULL /\ ~fits(a, prev, n)
  <2>1. Count(a, n) # 0
    BY <1>3, <1>4, <1>5, <1>9, <1>15 DEF fits
  <2>2. Filled(a)
    BY <2>1 DEF Filled, RestFilled
  <2>3. Rebalanced(a, r, n, c)
    BY <1>8, <1>15, <1>18, <1>19 DEF Rebalanced
  <2> QED BY <1>8, <1>15, <2>2, <2>3 DEF Sound, SameBindings
<1>16. CASE next # NULL /\ fits(a, next, n)
  <2>1. c = merge_next(a, n, next)
    BY <1>8, <1>16
  <2>2. Count(a, n) + Count(a, next) <= NodeSize
    BY <1>3, <1>10, <1>16 DEF fits
  <2>3. Sound(c, r) /\ SameBindings(a, c) /\ Merged(a, c, n, next)
    BY <1>7, <1>16, <2>1, <2>2, merge_nextSound
  <2>4. Rebalanced(a, r, n, c)
    BY <1>16, <1>18, <1>20, <2>3 DEF Rebalanced
  <2> QED BY <2>3, <2>4
<1>17. CASE next # NULL /\ ~fits(a, next, n)
  <2>1. c = move_pairs(a, n, next, k)
    BY <1>8, <1>17
  <2>2. Count(a, n) + Count(a, next) > NodeSize
    BY <1>3, <1>4, <1>10, <1>17 DEF fits
  <2>3. /\ Count(a, n) \in Nat /\ Count(a, next) \in Nat /\ Count(a, next) <= NodeSize
        /\ Adjacent(a, r, n, next)
    BY <1>3, <1>7, <1>10, <1>17
  <2>4. k \in Nat /\ 0 < k /\ k < Count(a, next) /\ Count(a, n) + k <= NodeSize
    BY ONLY <1>12, <2>2, <2>3, Count(a, n) < Required, ShiftCounts
  <2>5. Sound(c, r) /\ SameBindings(a, c) /\ Refilled(a, c, n, next, k)
    BY <2>1, <2>3, <2>4, move_pairsSound
  <2>6. Rebalanced(a, r, n, c)
    BY <1>12, <1>17, <1>18, <1>20, <2>5 DEF Rebalanced
  <2> QED BY <2>5, <2>6
<1> QED BY <1>13, <1>14, <1>15, <1>16, <1>17

\* The head gets pairs from, or absorbs, the second node.
LEMMA refill_headSound ==
  ASSUME NEW a, NEW r, Formed(a, r), Ordered(a, r), RestFilled(a, a.nodes[0]),
         NEW c, c = refill_head(a)
  PROVE  Sound(c, r) /\ SameBindings(a, c) /\ Rebalanced(a, r, a.nodes[0], c)
<1> DEFINE n == a.nodes[0]
           next == a.heap[n].fwd[0]
           k == Count(a, next) - Required
<1>1. /\ a \in SkipArrays /\ OnLevel(a, 0) = DOMAIN a.heap /\ 0 \in LevelSet
      /\ NULL \notin DOMAIN a.heap
      /\ \A m \in DOMAIN a.heap : r[m] \in Nat
      /\ \A m, q \in DOMAIN a.heap : r[m] = r[q] => m = q
      /\ \A p \in {NULL} \cup DOMAIN a.heap : Follows(r, DOMAIN a.heap, p, After(a, p, 0))
  BY FormedFacts
<1>2. n = After(a, NULL, 0)
  BY DEF After
<1>3. n \in DOMAIN a.heap
  <2>1. a.height \in 1 .. MaxLevel
    BY <1>1, ArrayParts
  <2>2. OnLevel(a, 0) # {}
    BY <1>1, <2>1 DEF Formed, Tall
  <2> QED BY <1>1, <1>2, <2>2 DEF Follows, Behind
<1>4. next = After(a, n, 0)
  BY <1>1, <1>3 DEF After
<1>5. c = IF Count(a, n) >= Required \/ next = NULL THEN a
          ELSE IF fits(a, n, next) THEN absorb_second(a, n, next)
          ELSE move_pairs(a, n, next, k)
  BY DEF refill_head
<1>6. k = Count(a, next) - Required /\ n = a.nodes[0]
  OBVIOUS
<1>7. RestFilled(a, n)
  OBVIOUS
<1> HIDE DEF n, next, k
<1>8. \A m \in DOMAIN a.heap : Count(a, m) \in Nat /\ Count(a, m) <= NodeSize
  BY <1>1, PairsType DEF Ordered
<1>9. NodeSize \in Nat /\ Required \in Nat /\ Required >= 1
  BY SkipListAssumption DEF Required
<1>10. next # NULL => Adjacent(a, r, n, next)
  BY <1>3, <1>4, NextIsAdjacent
<1>11. next # NULL => next \in DOMAIN a.heap
  BY <1>10 DEF Adjacent
<1>16. \A x : Adjacent(a, r, n, x) <=> x = next /\ next # NULL
  BY <1>1, <1>3, <1>4, <1>10 DEF Adjacent, Follows, Behind
<1>17. SUFFICES Sound(c, r) /\ SameBindings(a, c) /\ Rebalanced(a, r, n, c)
  BY <1>6
<1>12. CASE Count(a, n) >= Required
  <2>1. Count(a, n) # 0
    BY <1>3, <1>8, <1>9, <1>12
  <2>2. Filled(a)
    BY <1>7, <2>1 DEF Filled, RestFilled
  <2>3. ~(Count(a, n) < Required)
    BY <1>3, <1>8, <1>9, <1>12
  <2>4. Rebalanced(a, r, n, c)
    BY <1>5, <1>12, <2>3 DEF Rebalanced
  <2> QED BY <1>5, <1>12, <2>2, <2>4 DEF Sound, SameBindings
<1>13. CASE next = NULL
  <2>1. \A m \in DOMAIN a.heap : m = n
    <3>1. Follows(r, DOMAIN a.heap, NULL, n) /\ Follows(r, DOMAIN a.heap, n, NULL)
      BY <1>1, <1>2, <1>3, <1>4, <1>13
    <3> QED BY <1>1, <1>3, <3>1 DEF Follows, Behind
  <2>2. Filled(a)
    BY <2>1 DEF Filled
  <2>3. Rebalanced(a, r, n, c)
    BY <1>1, <1>5, <1>13, <1>16, <2>1 DEF Rebalanced, Adjacent
  <2> QED BY <1>5, <1>13, <2>2, <2>3 DEF Sound, SameBindings
<1>14. CASE ~(Count(a, n) >= Required) /\ next # NULL /\ fits(a, n, next)
  <2>1. c = absorb_second(a, n, next)
    BY <1>5, <1>14
  <2>2. Count(a, n) + Count(a, next) <= NodeSize
    BY <1>14 DEF fits
  <2>3. next # NULL
    BY <1>14
  <2>4. Sound(c, r) /\ SameBindings(a, c) /\ Merged(a, c, n, next)
    BY <1>4, <1>6, <1>7, <2>1, <2>2, <2>3, absorb_secondSound
  <2>5. Count(a, n) < Required
    BY <1>3, <1>8, <1>9, <1>14
  <2>6. Rebalanced(a, r, n, c)
    BY <1>14, <1>16, <2>4, <2>5 DEF Rebalanced
  <2> QED BY <2>4, <2>6
<1>15. CASE ~(Count(a, n) >= Required) /\ next # NULL /\ ~fits(a, n, next)
  <2>1. c = move_pairs(a, n, next, k)
    BY <1>5, <1>15
  <2>2. Count(a, n) + Count(a, next) > NodeSize /\ Count(a, n) < Required
    BY <1>3, <1>8, <1>9, <1>11, <1>15 DEF fits
  <2>3. /\ Count(a, n) \in Nat /\ Count(a, next) \in Nat /\ Count(a, next) <= NodeSize
        /\ Adjacent(a, r, n, next)
    BY <1>3, <1>8, <1>10, <1>11, <1>15
  <2>4. k \in Nat /\ 0 < k /\ k < Count(a, next) /\ Count(a, n) + k <= NodeSize
    BY ONLY <1>6, <2>2, <2>3, ShiftCounts
  <2>5. Sound(c, r) /\ SameBindings(a, c) /\ Refilled(a, c, n, next, k)
    BY <1>7, <2>1, <2>3, <2>4, move_pairsSound
  <2>6. Rebalanced(a, r, n, c)
    BY <1>6, <1>15, <1>16, <2>2, <2>5 DEF Rebalanced
  <2> QED BY <2>5, <2>6
<1> QED BY <1>12, <1>13, <1>14, <1>15

\* A pair is removed, and its node merged or refilled if it is too small,
LEMMA remove_atSound ==
  ASSUME NEW a, NEW r, Sound(a, r), NEW n \in DOMAIN a.heap,
         NEW index \in 0 .. Count(a, n) - 1, NEW c, c = remove_at(a, n, index)
  PROVE  /\ Sound(c, r) /\ Loses(a, c, a.heap[n].pairs[index + 1])
         /\ Rebalanced(remove_pair(a, n, index), r, n, c)
<1> DEFINE b == remove_pair(a, n, index)
<1>1. b = remove_pair(a, n, index)
  OBVIOUS
<1>2. c = IF Count(b, n) < Required THEN shift_or_merge(b, n) ELSE b
  BY DEF remove_at
<1> HIDE DEF b
<1>3. /\ Formed(b, r) /\ Ordered(b, r) /\ DOMAIN b.heap = DOMAIN a.heap
      /\ \A m \in DOMAIN a.heap : m # n => Count(b, m) \in Nat /\ Count(b, m) > 0
      /\ Loses(a, b, a.heap[n].pairs[index + 1])
  BY <1>1, RemovedOrdered
<1>4. RestFilled(b, n)
  BY <1>3 DEF RestFilled
<1>5. CASE Count(b, n) < Required
  <2>1. c = shift_or_merge(b, n) /\ n \in DOMAIN b.heap
    BY <1>2, <1>3, <1>5
  <2>2. Sound(c, r) /\ SameBindings(b, c) /\ Rebalanced(b, r, n, c)
    BY <1>3, <1>4, <1>5, <2>1, shift_or_mergeSound
  <2> QED BY <1>1, <1>3, <2>2 DEF SameBindings, Loses
<1>6. CASE ~(Count(b, n) < Required)
  <2>1. Required \in Nat /\ Required >= 1
    BY SkipListAssumption DEF Required
  <2>2. Count(b, n) # 0
    BY <1>6, <2>1
  <2>3. Filled(b)
    BY <1>4, <2>2 DEF RestFilled, Filled
  <2>4. c = b /\ Rebalanced(b, r, n, c)
    BY <1>2, <1>6 DEF Rebalanced
  <2> QED BY <1>1, <1>3, <2>3, <2>4 DEF Sound
<1> QED BY <1>5, <1>6

\* in the first node by the rules for that one,
LEMMA remove_firstSound ==
  ASSUME NEW a, NEW r, Sound(a, r), NEW n, n = a.nodes[0], n \in DOMAIN a.heap,
         Count(a, n) > 0, NEW c, c = remove_first(a)
  PROVE  /\ Sound(c, r) /\ Loses(a, c, a.heap[n].pairs[1])
         /\ Rebalanced(remove_pair(a, n, 0), r, n, c)
<1> DEFINE b == remove_pair(a, n, 0)
<1>1. b = remove_pair(a, n, 0)
  OBVIOUS
<1>2. c = refill_head(b)
  BY DEF remove_first
<1> HIDE DEF b
<1>3. 0 \in 0 .. Count(a, n) - 1
  <2>1. Count(a, n) \in Nat
    BY PairsType DEF Sound, Formed
  <2> QED BY <2>1
<1>4. /\ Formed(b, r) /\ Ordered(b, r) /\ DOMAIN b.heap = DOMAIN a.heap /\ b.nodes = a.nodes
      /\ \A m \in DOMAIN a.heap : m # n => Count(b, m) \in Nat /\ Count(b, m) > 0
      /\ Loses(a, b, a.heap[n].pairs[1])
  <2>1. 0 + 1 = 1
    OBVIOUS
  <2> QED BY <1>1, <1>3, <2>1, RemovedOrdered
<1>5. RestFilled(b, b.nodes[0])
  BY <1>4 DEF RestFilled
<1>6. Sound(c, r) /\ SameBindings(b, c) /\ Rebalanced(b, r, b.nodes[0], c)
  BY <1>2, <1>4, <1>5, refill_headSound
<1> QED BY <1>1, <1>4, <1>6 DEF SameBindings, Loses

-----------------------------------------------------------------------------
(* The last node. *)

\* p is the last node of a level.
EndOf(a, r, l, p) == p \in OnLevel(a, l) /\ \A m \in OnLevel(a, l) : r[m] <= r[p]

\* The last node of a level is where following it ends.
LEMMA LevelEnd ==
  ASSUME NEW a, NEW r, Formed(a, r), NEW l \in LevelSet, l < a.height,
         NEW start \in OnLevel(a, l),
         NEW p, p = Advance(a, start, l, DOMAIN a.heap)
  PROVE  EndOf(a, r, l, p)
<1> DEFINE T == OnLevel(a, l)
           H == DOMAIN a.heap
<1>1. /\ Ranks(r, H) /\ T \subseteq H /\ NULL \notin H
      /\ \A q \in {NULL} \cup T : Follows(r, T, q, After(a, q, l))
  BY FormedFacts DEF Formed
<1>2. \A q \in {NULL} \cup T : After(a, q, l) \in H =>
        After(a, q, l) \in T /\ Behind(r, q, After(a, q, l))
  BY <1>1 DEF Follows
<1>3. \A q \in {NULL} \cup T : After(a, q, l) \notin H =>
        \A m \in T : Behind(r, q, m) => m \notin H
  BY <1>1 DEF Follows
<1>4. start \in {NULL} \cup (T \cap H) /\ T \in SUBSET OnLevel(a, l)
  BY <1>1
<1>5. T = OnLevel(a, l) /\ H = DOMAIN a.heap
  OBVIOUS
<1> HIDE DEF T, H
<1>6. LastPassed(r, T, p, H)
  BY <1>1, <1>2, <1>3, <1>4, <1>5, AdvanceFinds
<1>7. T \cap H = T
  BY <1>1
<1> QED BY <1>5, <1>6, <1>7 DEF LastPassed, EndOf

\* The walk down the levels ends at the last node of all.
LEMMA last_nodeIsLast ==
  ASSUME NEW a, NEW r, Formed(a, r), NEW p, p = last_node(a)
  PROVE  p \in DOMAIN a.heap /\ \A m \in DOMAIN a.heap : r[m] <= r[p]
<1> DEFINE top == a.height - 1
           H == DOMAIN a.heap
           walk(q, l) == Advance(a, q, l, H)
           G == [l \in 0 .. top |-> {q \in Nat : EndOf(a, r, l, q)}]
           base == walk(a.nodes[top], top)
           step == [u \in (0 .. top) \X Nat |-> walk(u[2], u[1])]
           Body(f) == [l \in 0 .. top |->
                         walk(IF l = top THEN a.nodes[l] ELSE f[l + 1], l)]
           at == CHOOSE f : f = Body(f)
<1>1. /\ a \in SkipArrays /\ a.height \in 1 .. MaxLevel /\ MaxLevel \in Nat
      /\ top \in Int /\ 0 <= top /\ 0 \in 0 .. top /\ top \in 0 .. top
      /\ \A l \in 0 .. top : l \in LevelSet /\ l < a.height
  BY FormedFacts, MaxLevelIs DEF LevelSet
<1>2. /\ H \subseteq Nat /\ NULL \notin H
      /\ \A l \in LevelSet : OnLevel(a, l) \subseteq H
      /\ OnLevel(a, 0) = H
      /\ \A l \in LevelSet : Follows(r, OnLevel(a, l), NULL, After(a, NULL, l))
  BY FormedFacts
<1>3. p = at[0]
  BY DEF last_node
<1>4. ASSUME NEW l \in 0 .. top, NEW q \in OnLevel(a, l)
      PROVE  walk(q, l) \in G[l]
  <2> DEFINE u == walk(q, l)
  <2>1. u = Advance(a, q, l, DOMAIN a.heap)
    OBVIOUS
  <2> HIDE DEF u
  <2>2. EndOf(a, r, l, u)
    BY <1>1, <2>1, LevelEnd
  <2>3. u \in Nat
    BY <1>1, <1>2, <2>2 DEF EndOf
  <2>4. u \in G[l]
    BY <2>2, <2>3
  <2> QED BY <2>4 DEF u
<1>5. base \in G[top]
  <2>1. OnLevel(a, top) # {}
    BY <1>1 DEF Formed, Tall
  <2>2. Follows(r, OnLevel(a, top), NULL, a.nodes[top])
    BY <1>1, <1>2 DEF After
  <2>3. a.nodes[top] \in OnLevel(a, top)
    BY <2>1, <2>2 DEF Follows, Behind
  <2> QED BY <1>1, <1>4, <2>3
<1>6. \A l \in 0 .. top - 1 : \A u \in G[l + 1] : u \in Nat /\ walk(u, l) \in G[l]
  <2>1. ASSUME NEW l \in 0 .. top - 1, NEW u \in G[l + 1]
        PROVE  u \in Nat /\ walk(u, l) \in G[l]
    <3>1. l \in 0 .. top /\ l + 1 \in 0 .. top /\ l \in LevelSet /\ l + 1 \in LevelSet
      BY <1>1
    <3>2. u \in Nat /\ u \in OnLevel(a, l + 1)
      BY <3>1 DEF EndOf
    <3>3. u \in OnLevel(a, l)
      <4>1. OnLevel(a, l + 1) \subseteq OnLevel(a, l)
        BY <1>1, <3>1, LevelsNest
      <4> QED BY <3>2, <4>1
    <3> HIDE DEF walk, G
    <3> QED BY <1>4, <3>1, <3>2, <3>3
  <2> QED BY <2>1
<1>7. G \in [0 .. top -> SUBSET Nat]
  OBVIOUS
<1>8. \A l \in 0 .. top - 1 : \A u \in G[l + 1] : step[<<l, u>>] = walk(u, l)
  <2>1. ASSUME NEW l \in 0 .. top - 1, NEW u \in G[l + 1]
        PROVE  step[<<l, u>>] = walk(u, l)
    <3>1. l \in 0 .. top /\ u \in Nat
      BY <1>1, <1>6
    <3>2. <<l, u>> \in (0 .. top) \X Nat
      BY <3>1
    <3> HIDE DEF G, walk
    <3> QED BY <3>2
  <2> QED BY <2>1
<1>9. at = CHOOSE f : f = Body(f)
  OBVIOUS
<1> HIDE DEF at
<1>10. \A f : Body(f) = [l \in 0 .. top |-> IF l = top THEN base ELSE walk(f[l + 1], l)]
  <2>1. ASSUME NEW f
        PROVE  Body(f) = [l \in 0 .. top |-> IF l = top THEN base ELSE walk(f[l + 1], l)]
    <3>1. \A l \in 0 .. top : walk(IF l = top THEN a.nodes[l] ELSE f[l + 1], l)
                              = IF l = top THEN base ELSE walk(f[l + 1], l)
      <4> HIDE DEF top
      <4> QED OBVIOUS
    <3> HIDE DEF walk, base, top
    <3> QED BY <3>1
  <2> QED BY <2>1
<1> HIDE DEF G, step, base, walk, Body
<1>11. \A l \in 0 .. top - 1 : \A u \in G[l + 1] : step[<<l, u>>] \in G[l]
  BY <1>6, <1>8
<1>12. PICK f \in [0 .. top -> Nat] : /\ Descends(f, 0, top, base, step)
                                      /\ \A l \in 0 .. top : f[l] \in G[l]
  <2>1. 0 \in Int
    OBVIOUS
  <2> HIDE DEF top
  <2> QED BY ONLY <1>1, <1>5, <1>7, <1>11, <2>1, DownwardGood
<1>13. f = Body(f)
  <2>1. \A l \in 0 .. top : f[l] = IF l = top THEN base ELSE step[<<l, f[l + 1]>>]
    BY <1>12 DEF Descends
  <2>2. ASSUME NEW l \in 0 .. top, l # top
        PROVE  step[<<l, f[l + 1]>>] = walk(f[l + 1], l)
    <3>1. l \in 0 .. top - 1 /\ l + 1 \in 0 .. top
      BY <1>1, <2>2
    <3> QED BY <1>8, <1>12, <3>1
  <2>3. f = [l \in 0 .. top |-> f[l]]
    BY <1>12
  <2>4. \A l \in 0 .. top : f[l] = IF l = top THEN base ELSE walk(f[l + 1], l)
    BY <2>1, <2>2
  <2> QED BY <1>10, <2>3, <2>4
<1>14. at = Body(at)
  BY <1>9, <1>13
<1>15. \A l \in 0 .. top : at[l] = IF l = top THEN base ELSE walk(at[l + 1], l)
  <2>1. at = [l \in 0 .. top |-> IF l = top THEN base ELSE walk(at[l + 1], l)]
    BY <1>10, <1>14
  <2> HIDE DEF top
  <2> QED BY <2>1
<1>16. at[top] \in G[top]
  BY <1>1, <1>5, <1>15
<1>17. ASSUME NEW l \in 0 .. top - 1, at[l + 1] \in G[l + 1]
       PROVE  at[l] \in G[l]
  <2>1. l \in 0 .. top /\ l # top
    BY <1>1
  <2> QED BY <1>6, <1>15, <1>17, <2>1
<1>18. at[0] \in G[0]
  <2>1. \A l \in 0 .. top : at[l] \in G[l]
    <3>1. 0 \in Int
      OBVIOUS
    <3> HIDE DEF top
    <3> QED BY ONLY <1>1, <1>16, <1>17, <3>1, DownwardHolds
  <2> QED BY <1>1, <2>1
<1> QED BY <1>1, <1>2, <1>3, <1>18 DEF G, EndOf

\* The last node x goes if it is empty and not the only one.
Trimmed(b, x, c) ==
  IF Count(b, x) > 0 \/ x = b.nodes[0] THEN c = b
  ELSE /\ DOMAIN c.heap = DOMAIN b.heap \ {x}
       /\ \A m \in DOMAIN c.heap : c.heap[m].pairs = b.heap[m].pairs

\* The last pair goes, and the last node with it if it is empty and not the
\* only one.
LEMMA remove_lastSound ==
  ASSUME NEW a, NEW r, Sound(a, r), NEW x, x = last_node(a), Count(a, x) > 0,
         NEW c, c = remove_last(a)
  PROVE  /\ Sound(c, r) /\ Loses(a, c, a.heap[x].pairs[Count(a, x)])
         /\ Trimmed(remove_pair(a, x, Count(a, x) - 1), x, c)
<1> DEFINE b == remove_pair(a, x, Count(a, x) - 1)
           n == b.heap[x].back
<1>1. b = remove_pair(a, x, Count(a, x) - 1)
  OBVIOUS
<1>2. c = IF Count(b, x) > 0 \/ x = a.nodes[0] THEN b ELSE unlink_node(b, x)
  BY DEF remove_last
<1> HIDE DEF b
<1>3. x \in DOMAIN a.heap /\ \A m \in DOMAIN a.heap : r[m] <= r[x]
  BY last_nodeIsLast DEF Sound
<1>4. Count(a, x) - 1 \in 0 .. Count(a, x) - 1
  <2>1. Count(a, x) \in Nat
    BY <1>3, PairsType DEF Sound, Formed
  <2> QED BY <2>1
<1>5. /\ Formed(b, r) /\ Ordered(b, r) /\ DOMAIN b.heap = DOMAIN a.heap /\ b.nodes = a.nodes
      /\ \A m \in DOMAIN a.heap : m # x => Count(b, m) \in Nat /\ Count(b, m) > 0
      /\ Loses(a, b, a.heap[x].pairs[Count(a, x)]) /\ Count(b, x) \in Nat
  <2>1. Count(a, x) \in Nat /\ Count(a, x) - 1 + 1 = Count(a, x)
    BY <1>3, PairsType DEF Sound, Formed
  <2>2. /\ Formed(b, r) /\ Ordered(b, r) /\ DOMAIN b.heap = DOMAIN a.heap /\ b.nodes = a.nodes
        /\ \A m \in DOMAIN a.heap : m # x => Count(b, m) \in Nat /\ Count(b, m) > 0
        /\ Loses(a, b, a.heap[x].pairs[Count(a, x) - 1 + 1])
    BY <1>1, <1>3, <1>4, RemovedOrdered
  <2>3. Count(b, x) \in Nat
    BY <1>3, <2>2, PairsType DEF Formed
  <2> QED BY <2>1, <2>2, <2>3
<1>6. /\ \A m \in DOMAIN b.heap : r[m] \in Nat
      /\ \A m, q \in DOMAIN b.heap : r[m] = r[q] => m = q
      /\ b \in SkipArrays
  BY <1>5, FormedFacts
<1>7. n = b.heap[x].back
  OBVIOUS
<1> HIDE DEF n
<1>8. n = NULL <=> x = a.nodes[0]
  BY <1>3, <1>5, <1>7, HeadIsFirst
<1>9. CASE Count(b, x) > 0
  <2>1. Filled(b)
    BY <1>5, <1>9 DEF Filled
  <2>2. c = b /\ Trimmed(b, x, c)
    BY <1>2, <1>9 DEF Trimmed
  <2> QED BY <1>1, <1>5, <2>1, <2>2 DEF Sound
<1>10. CASE x = a.nodes[0]
  <2>1. InFront(r, DOMAIN b.heap, NULL, x)
    <3>1. b.heap[x].back = NULL
      BY <1>7, <1>8, <1>10
    <3> QED BY <1>3, <1>5, <3>1 DEF Formed, Backed
  <2>2. DOMAIN b.heap = {x}
    BY <1>3, <1>5, <1>6, <2>1 DEF InFront
  <2>3. Filled(b)
    BY <2>2 DEF Filled
  <2>4. c = b /\ Trimmed(b, x, c)
    BY <1>2, <1>5, <1>10 DEF Trimmed
  <2> QED BY <1>1, <1>5, <2>3, <2>4 DEF Sound
<1>11. CASE ~(Count(b, x) > 0) /\ x # a.nodes[0]
  <2>1. n # NULL /\ Adjacent(b, r, n, x)
    BY <1>3, <1>5, <1>7, <1>8, <1>11, BackIsAdjacent
  <2>2. n \in DOMAIN b.heap /\ n # x
    BY <1>6, <2>1 DEF Adjacent
  <2>3. EndTells(r, b, x, LastKey(b, n))
    <3>1. ASSUME NEW m \in DOMAIN b.heap \ {x}
          PROVE  LastKey(b, m) <= LastKey(b, n) /\ r[m] < r[x]
      <4>1. r[m] < r[x]
        BY <1>3, <1>5, <1>6
      <4>2. Count(b, m) > 0 /\ Count(b, n) > 0
        BY <1>5, <2>2
      <4>3. /\ LastKey(b, n) \in Nat /\ LastKey(b, m) \in Nat
            /\ Count(b, m) \in DOMAIN b.heap[m].pairs
            /\ b.heap[m].pairs[Count(b, m)].key = LastKey(b, m)
        BY <1>5, <1>6, <2>2, <4>2, LastKeys
      <4>4. \A q \in DOMAIN b.heap : r[q] < r[n] =>
              \A i \in DOMAIN b.heap[q].pairs : b.heap[q].pairs[i].key < LastKey(b, n)
        BY <1>5, <1>6, <2>2, <4>2, LastKeys
      <4>5. r[m] <= r[n]
        BY <1>3, <1>6, <2>1, <4>1 DEF Adjacent
      <4>6. CASE m = n
        BY <4>1, <4>3, <4>6
      <4>7. CASE m # n
        <5>1. r[m] < r[n]
          BY <1>6, <2>2, <4>5, <4>7
        <5>2. LastKey(b, m) < LastKey(b, n)
          BY <4>3, <4>4, <5>1
        <5> QED BY <4>1, <4>3, <5>2
      <4> QED BY <4>6, <4>7
    <3> QED BY <3>1 DEF EndTells
  <2>4. c = unlink_node(b, x)
    BY <1>2, <1>11
  <2>5. /\ Formed(c, r) /\ DOMAIN c.heap = DOMAIN b.heap \ {x}
        /\ \A m \in DOMAIN c.heap : c.heap[m].pairs = b.heap[m].pairs
    BY <1>3, <1>5, <1>7, <2>1, <2>3, <2>4, unlink_nodeFormed
  <2>6. Ordered(c, r)
    <3>1. \A m \in DOMAIN c.heap : m \in DOMAIN b.heap /\ Count(c, m) = Count(b, m)
      BY <2>5 DEF Count
    <3> QED BY <1>5, <2>5, <3>1 DEF Ordered
  <2>7. Filled(c)
    <3>1. \A m \in DOMAIN c.heap : Count(c, m) = Count(b, m) /\ m # x /\ m \in DOMAIN a.heap
      BY <1>5, <2>5 DEF Count
    <3>2. \A m \in DOMAIN c.heap : Count(c, m) # 0
      BY <1>5, <3>1
    <3> QED BY <3>2 DEF Filled
  <2>8. Loses(a, c, a.heap[x].pairs[Count(a, x)])
    <3>1. \A p : ~Contains(b.heap[x].pairs, p)
      BY <1>5, <1>11 DEF Count, Contains
    <3>2. SameBindings(b, c)
      BY <2>5, <3>1 DEF Binds, SameBindings
    <3> QED BY <1>5, <3>2 DEF SameBindings, Loses
  <2>9. Trimmed(b, x, c)
    BY <1>5, <1>11, <2>5 DEF Trimmed
  <2> QED BY <1>1, <2>5, <2>6, <2>7, <2>8, <2>9 DEF Sound
<1> QED BY <1>9, <1>10, <1>11

=============================================================================
