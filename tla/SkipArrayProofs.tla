-------------------------- MODULE SkipArrayProofs ---------------------------
(***************************************************************************)
(* The theorems about SkipArray, SkipArrayBuilder and SkipArrayIter, for   *)
(* any number of nodes, levels, pairs and iterators.                       *)
(*                                                                         *)
(* IsSound is inductive (AlwaysSound), and says of the links what          *)
(* LevelsExact and BackLinksExact do.  BuiltInv adds to it where a builder *)
(* puts the next pair: its trail is at the last node of every level.       *)
(* The list of live iterators stays the doubly linked list of exactly the  *)
(* live ones, and as long as there is one the map is locked.  Each of them *)
(* stands on a pair or right behind the last one (SpotInv).                *)
(* On top of these, the pairs in the nodes are a map to the client         *)
(* (IsOrderedMap), search answers as a look at all of them would, what a   *)
(* builder appends comes last, and the iterators are cursors over the keys *)
(* of that map (IteratorsAreCursors).  What has been built has no node but *)
(* the last less than half full (BuiltStaysHalfFull).                      *)
(***************************************************************************)
EXTENDS SkipListProofs, SkipArrayBuilder, SkipArrayIter

-----------------------------------------------------------------------------
(* The calls. *)

\* The pairs of the client, and their keys.
LEMMA PairKeys ==
  /\ Pair \subseteq AllPairs
  /\ \A pair \in AllPairs : pair.key \in Nat
  /\ \A key \in Keys : key \in Nat
<1>1. Pair \subseteq AllPairs
  BY DEF AllPairs
<1> QED BY <1>1, KeysAreNumbers DEF Keys

\* node_height stays in the levels.
LEMMA HeightsDrawn ==
  ASSUME NEW lvl \in Levels
  PROVE  /\ node_height(lvl) \in 1 .. MaxLevel
         /\ (IF lvl + 1 >= MaxLevel THEN MaxLevel ELSE lvl + 1) \in 1 .. MaxLevel
BY MaxLevelIs DEF node_height, Levels

\* A new skiparray.
LEMMA skiparray_newSound ==
  ASSUME NEW lvl \in Levels, NEW a, a = skiparray_new(lvl)
  PROVE  \E r : Sound(a, r) /\ DOMAIN a.heap = {1} /\ a.heap[1].pairs = << >>
                /\ a.nodes[0] = 1 /\ a.heap[1].height = a.height
<1> DEFINE h == IF lvl + 1 >= MaxLevel THEN MaxLevel ELSE lvl + 1
           f == [l \in 0 .. h - 1 |-> NULL]
           g == [l \in LevelSet |-> IF l < h THEN 1 ELSE NULL]
           x == [height |-> h, pairs |-> << >>, back |-> NULL, fwd |-> f]
           heap == [n \in {1} |-> x]
           r == [n \in {1} |-> 0]
<1>1. h \in 1 .. MaxLevel /\ MaxLevel \in Nat
  BY HeightsDrawn, MaxLevelIs
<1>2. a = [height |-> h, nodes |-> g, heap |-> heap]
  BY DEF skiparray_new, LevelSet
<1> HIDE DEF h
<1>3. << >> \in Seq(AllPairs)
  OBVIOUS
<1>4. f \in [0 .. h - 1 -> Nat] /\ g \in [LevelSet -> Nat]
  BY DEF NULL
<1>5. x \in NodeRecords
  <2> HIDE DEF f
  <2>1. NULL \in Nat
    BY DEF NULL
  <2> QED BY <1>1, <1>3, <1>4, <2>1, NodeMade
<1>6. x.height = h /\ x.pairs = << >> /\ x.back = NULL /\ x.fwd = f
  OBVIOUS
<1> HIDE DEF x
<1>7. heap \in [{1} -> NodeRecords] /\ heap[1] = x /\ {1} \in SUBSET (Nat \ {NULL})
  BY <1>5 DEF NULL
<1>8. IsFiniteSet({1})
  BY FS_Singleton
<1>9. a \in SkipArrays
  <2> HIDE DEF heap, g
  <2> QED BY <1>1, <1>2, <1>4, <1>7, <1>8, ArrayMade
<1>10. a.height = h /\ a.nodes = g /\ a.heap = heap /\ DOMAIN heap = {1}
  BY <1>2
<1> HIDE DEF heap
<1>11. Ranks(r, DOMAIN a.heap)
  <2>1. \A n \in {1} : r[n] \in Nat /\ r[n] <= 0
    OBVIOUS
  <2>2. \A m, n \in {1} : r[m] = r[n] => m = n
    OBVIOUS
  <2> HIDE DEF r
  <2> QED BY <1>7, <1>10, <2>1, <2>2 DEF Ranks
<1>12. \A l \in LevelSet : OnLevel(a, l) = IF l < h THEN {1} ELSE {}
  BY <1>6, <1>7, <1>10 DEF OnLevel
<1>13. Linked(a, r)
  <2>1. ASSUME NEW l \in LevelSet, NEW p \in {NULL} \cup OnLevel(a, l)
        PROVE  Follows(r, OnLevel(a, l), p, After(a, p, l))
    <3>1. CASE ~(l < h)
      <4>1. p = NULL /\ OnLevel(a, l) = {} /\ After(a, p, l) = NULL
        BY <1>10, <1>12, <3>1 DEF After
      <4> QED BY <4>1 DEF Follows
    <3>2. CASE l < h /\ p = NULL
      <4>1. OnLevel(a, l) = {1} /\ After(a, p, l) = 1
        BY <1>10, <1>12, <3>2 DEF After
      <4> QED BY <3>2, <4>1 DEF Follows, Behind
    <3>3. CASE l < h /\ p # NULL
      <4>1. OnLevel(a, l) = {1} /\ p = 1
        BY <1>12, <3>3
      <4>2. l \in 0 .. h - 1
        BY <1>1, <3>3 DEF LevelSet
      <4>3. After(a, p, l) = NULL
        BY <1>6, <1>7, <1>10, <3>3, <4>1, <4>2 DEF After
      <4> QED BY <3>3, <4>1, <4>3 DEF Follows, Behind
    <3> QED BY <3>1, <3>2, <3>3
  <2> QED BY <2>1 DEF Linked, Chained, Hops
<1>14. Backed(a, r)
  BY <1>6, <1>7, <1>10 DEF Backed, InFront, Behind
<1>15. Tall(a)
  BY <1>10, <1>12 DEF Tall
<1>16. Ordered(a, r)
  <2>1. Len(<< >>) <= NodeSize
    BY SkipListAssumption
  <2> QED BY <1>6, <1>7, <1>10, <2>1 DEF Ordered, Ascending, Below, Count
<1>17. Filled(a)
  BY <1>10 DEF Filled
<1>18. a.nodes[0] = 1
  BY <1>1, <1>10 DEF LevelSet
<1> QED BY <1>6, <1>7, <1>9, <1>10, <1>11, <1>13, <1>14, <1>15, <1>16, <1>17, <1>18
       DEF Sound, Formed

\* A pair that takes the value of another.
LEMMA ValueOfAnother ==
  ASSUME NEW p \in Pair, NEW q \in Pair, NEW x, x = [p EXCEPT !.val = q.val]
  PROVE  x \in AllPairs
<1> DEFINE F(u, v) == [u EXCEPT !.val = v.val]
<1>1. AllPairs = Pair \cup {F(u, v) : u, v \in Pair}
  BY DEF AllPairs
<1>2. x = F(p, q)
  OBVIOUS
<1> HIDE DEF F
<1>3. x \in {F(u, v) : u, v \in Pair}
  BY <1>2, SMT
<1> QED BY <1>1, <1>3

\* set_found replaces a pair by one with its key,
LEMMA NewValue ==
  ASSUME NEW old \in AllPairs, NEW pair \in Pair
  PROVE  /\ [old EXCEPT !.val = pair.val] \in AllPairs
         /\ [old EXCEPT !.val = pair.val].key = old.key
<1>1. CASE old \in Pair
  <2>1. [old EXCEPT !.val = pair.val] \in AllPairs
    BY <1>1, ValueOfAnother
  <2>2. DOMAIN old = {"key", "inst", "val"}
    BY <1>1, SkipArrayAssumption
  <2> QED BY <2>1, <2>2
<1>2. CASE ~(old \in Pair)
  <2>1. PICK p \in Pair, q \in Pair : old = [p EXCEPT !.val = q.val]
    BY <1>2 DEF AllPairs
  <2>2. DOMAIN p = {"key", "inst", "val"}
    BY SkipArrayAssumption
  <2>3. [old EXCEPT !.val = pair.val] = [p EXCEPT !.val = pair.val]
    BY <2>1, <2>2
  <2>4. [p EXCEPT !.val = pair.val] \in AllPairs
    BY ValueOfAnother
  <2>5. DOMAIN old = {"key", "inst", "val"}
    BY <2>1, <2>2
  <2>6. [old EXCEPT !.val = pair.val].key = old.key
    BY <2>5
  <2> QED BY <2>3, <2>4, <2>6
<1> QED BY <1>1, <1>2

\* Whatever a call does, a sound skiparray stays sound.
IsSound(a) == \E r : Sound(a, r)

\* The first node is there, as pop_first and pop_last assume.
LEMMA HeadIsThere ==
  ASSUME NEW a, NEW r, Formed(a, r)
  PROVE  a.nodes[0] \in DOMAIN a.heap
<1>1. OnLevel(a, 0) = DOMAIN a.heap /\ 0 \in LevelSet
      /\ Follows(r, OnLevel(a, 0), NULL, After(a, NULL, 0)) /\ a.height \in 1 .. MaxLevel
  BY FormedFacts
<1>2. OnLevel(a, 0) # {}
  BY <1>1 DEF Formed, Tall
<1> QED BY <1>1, <1>2 DEF Follows, Behind, After

\* and leaves the rest alone.
LEMMA set_foundSound ==
  ASSUME NEW r, Sound(sa, r), NEW pair \in Pair, NEW at, at.n \in DOMAIN sa.heap,
         KeyAt(sa, pair.key, at.n, at.index), NEW replace_key \in BOOLEAN,
         NEW old, old = PairAt(at.n, at.index),
         NEW new, new = IF replace_key THEN pair ELSE [old EXCEPT !.val = pair.val],
         NEW b, b = set_found(at, pair, replace_key)
  PROVE  Sound(b, r) /\ Swaps(sa, b, old, new) /\ new.key = old.key
<1> DEFINE i == at.index + 1
<1>1. /\ i \in DOMAIN sa.heap[at.n].pairs /\ old.key = pair.key
      /\ old = sa.heap[at.n].pairs[i]
  BY DEF KeyAt, PairAt
<1>2. old \in AllPairs
  <2>1. sa.heap[at.n].pairs \in Seq(AllPairs)
    BY PairsType DEF Sound, Formed
  <2> QED BY <1>1, <2>1
<1>3. new \in AllPairs /\ new.key = old.key
  <2>1. CASE replace_key
    BY <1>1, <2>1, PairKeys
  <2>2. CASE ~replace_key
    BY <1>2, <2>2, NewValue
  <2> QED BY <2>1, <2>2
<1>4. b = Rebound(sa, at.n, i, new)
  BY DEF set_found, PairAt, Rebound
<1>5. new.key = sa.heap[at.n].pairs[i].key
  BY <1>1, <1>3
<1> HIDE DEF i
<1> QED BY <1>1, <1>3, <1>4, <1>5, ReplacedSound

\* skiparray_set_with_pair: replaced, bound, split or refused.
LEMMA SetSound ==
  ASSUME NEW r, Sound(sa, r), NEW pair \in Pair, NEW replace_key \in BOOLEAN,
         Set(pair, replace_key)
  PROVE  IsSound(sa')
<1> DEFINE at == search(sa, pair.key)
<1>1. pair \in AllPairs /\ pair.key \in Nat
  BY PairKeys
<1>2. Answer(sa, r, pair.key, at.n, at.index, at.found)
  BY <1>1, SearchFinds
<1>3. \/ sa' = sa
      \/ at.found /\ sa' = set_found(at, pair, replace_key)
      \/ /\ ~at.found /\ ~(Count(sa, at.n) = NodeSize)
         /\ sa' = insert_pair(sa, at.n, at.index, pair)
      \/ /\ ~at.found /\ Count(sa, at.n) = NodeSize
         /\ \E lvl \in Levels :
              sa' = split_and_insert(sa, at.n, at.index, node_height(lvl), pair)
  BY DEF Set, Refuse, Look, Reshape
<1> HIDE DEF at
<1>4. at.n \in DOMAIN sa.heap
  BY <1>2 DEF Answer
<1>5. at.found => KeyAt(sa, pair.key, at.n, at.index)
  BY <1>2 DEF Answer
<1>6. ~at.found => GapAt(sa, r, pair.key, at.n, at.index)
  BY <1>2 DEF Answer
<1>7. CASE sa' = sa
  BY <1>7 DEF IsSound
<1>8. CASE at.found /\ sa' = set_found(at, pair, replace_key)
  BY <1>4, <1>5, <1>8, set_foundSound DEF IsSound
<1>9. CASE /\ ~at.found /\ ~(Count(sa, at.n) = NodeSize)
           /\ sa' = insert_pair(sa, at.n, at.index, pair)
  <2>1. Count(sa, at.n) < NodeSize
    <3>1. Count(sa, at.n) <= NodeSize
      BY <1>4 DEF Sound, Ordered
    <3>2. Count(sa, at.n) \in Nat
      BY <1>4, PairsType DEF Sound, Formed
    <3> QED BY <1>9, <3>1, <3>2, SkipListAssumption
  <2> QED BY <1>1, <1>4, <1>6, <1>9, <2>1, InsertedSound DEF IsSound
<1>10. CASE /\ ~at.found /\ Count(sa, at.n) = NodeSize
           /\ \E lvl \in Levels :
                sa' = split_and_insert(sa, at.n, at.index, node_height(lvl), pair)
  <2>1. PICK lvl \in Levels :
          sa' = split_and_insert(sa, at.n, at.index, node_height(lvl), pair)
    BY <1>10
  <2>2. node_height(lvl) \in 1 .. MaxLevel
    BY HeightsDrawn
  <2> QED BY <1>1, <1>4, <1>6, <1>10, <2>1, <2>2, split_and_insertSound DEF IsSound
<1> QED BY <1>3, <1>7, <1>8, <1>9, <1>10

\* skiparray_forget.
LEMMA ForgetSound ==
  ASSUME NEW r, Sound(sa, r), NEW key \in Keys, Forget(key)
  PROVE  IsSound(sa')
<1> DEFINE at == search(sa, key)
<1>1. Answer(sa, r, key, at.n, at.index, at.found)
  BY PairKeys, SearchFinds
<1>2. sa' = sa \/ (at.found /\ sa' = remove_at(sa, at.n, at.index))
  BY DEF Forget, Refuse, Look, Reshape
<1> HIDE DEF at
<1>3. CASE sa' = sa
  BY <1>3 DEF IsSound
<1>4. CASE at.found /\ sa' = remove_at(sa, at.n, at.index)
  <2>1. at.n \in DOMAIN sa.heap /\ at.index \in Nat /\ KeyAt(sa, key, at.n, at.index)
    BY <1>1, <1>4 DEF Answer
  <2>2. at.index + 1 \in 1 .. Count(sa, at.n) /\ Count(sa, at.n) \in Nat
    BY <2>1, PairsType DEF KeyAt, Sound, Formed
  <2>3. at.index \in 0 .. Count(sa, at.n) - 1
    BY <2>1, <2>2
  <2> QED BY <1>4, <2>1, <2>3, remove_atSound DEF IsSound
<1> QED BY <1>2, <1>3, <1>4

\* skiparray_pop_first.
LEMMA PopFirstSound ==
  ASSUME NEW r, Sound(sa, r), PopFirst
  PROVE  IsSound(sa')
<1>1. sa' = sa \/ (Count(sa, sa.nodes[0]) > 0 /\ sa' = remove_first(sa))
  BY DEF PopFirst, Refuse, Look, Reshape
<1>2. sa.nodes[0] \in DOMAIN sa.heap
  BY HeadIsThere DEF Sound
<1> QED BY <1>1, <1>2, remove_firstSound DEF IsSound

\* skiparray_pop_last.
LEMMA PopLastSound ==
  ASSUME NEW r, Sound(sa, r), PopLast
  PROVE  IsSound(sa')
<1> DEFINE x == last_node(sa)
<1>1. sa' = sa \/ (Count(sa, sa.nodes[0]) > 0 /\ sa' = remove_last(sa))
  BY DEF PopLast, Refuse, Look, Reshape
<1>2. sa.nodes[0] \in DOMAIN sa.heap
  BY HeadIsThere DEF Sound
<1>3. x = last_node(sa)
  OBVIOUS
<1> HIDE DEF x
<1>4. x \in DOMAIN sa.heap
  BY <1>3, last_nodeIsLast DEF Sound
<1>5. Count(sa, sa.nodes[0]) > 0 => Count(sa, x) > 0
  <2>1. Count(sa, x) \in Nat /\ Count(sa, sa.nodes[0]) \in Nat
    BY <1>2, <1>4, PairsType DEF Sound, Formed
  <2>2. CASE Count(sa, x) = 0
    <3>1. DOMAIN sa.heap = {x}
      BY <1>4, <2>2 DEF Sound, Filled
    <3> QED BY <1>2, <2>2, <3>1
  <2> QED BY <2>1, <2>2
<1> QED BY <1>1, <1>3, <1>5, remove_lastSound DEF IsSound

\* So every step, the queries among them.
LEMMA NextSound ==
  ASSUME IsSound(sa), Next
  PROVE  IsSound(sa')
<1>1. PICK r : Sound(sa, r)
  BY DEF IsSound
<1>2. ASSUME NEW pair \in Pair, NEW replace_key \in BOOLEAN, Set(pair, replace_key)
      PROVE  IsSound(sa')
  BY <1>1, <1>2, SetSound
<1>3. ASSUME NEW key \in Keys, Forget(key)
      PROVE  IsSound(sa')
  BY <1>1, <1>3, ForgetSound
<1>4. CASE PopFirst
  BY <1>1, <1>4, PopFirstSound
<1>5. CASE PopLast
  BY <1>1, <1>5, PopLastSound
<1>6. CASE (\E key \in Keys : Get(key)) \/ CountPairs \/ FirstPair \/ LastPair
  <2>1. sa' = sa
    BY <1>6 DEF Get, CountPairs, FirstPair, LastPair, Look
  <2> QED BY <2>1
<1> QED BY <1>2, <1>3, <1>4, <1>5, <1>6 DEF Next

\* What IsSound says of the links is what the properties say.
LEMMA SoundIsExact ==
  ASSUME IsSound(sa)
  PROVE  LevelsExact /\ BackLinksExact
BY FormedIsExact DEF IsSound, Sound

\* No call of src/skiparray.c, whatever the levels it draws and whether or not
\* it gets memory, leaves a node off a level it belongs on, a pointer to a node
\* that is gone, or a key out of order.
THEOREM AlwaysSound == Spec => []IsSound(sa)
<1>1. Init => IsSound(sa)
  BY skiparray_newSound DEF Init, IsSound
<1>2. IsSound(sa) /\ [Next]_vars => IsSound(sa)'
  <2> SUFFICES ASSUME IsSound(sa), [Next]_vars
               PROVE  IsSound(sa')
    OBVIOUS
  <2>1. CASE Next
    BY <2>1, NextSound
  <2>2. CASE UNCHANGED vars
    BY <2>2 DEF vars
  <2> QED BY <2>1, <2>2
<1> QED BY <1>1, <1>2, PTL DEF Spec

\* The level lists that split_node and unlink_node patch are always right.
THEOREM LevelsStayExact == Spec => []LevelsExact
<1>1. IsSound(sa) => LevelsExact
  BY SoundIsExact
<1> QED BY <1>1, AlwaysSound, PTL

\* So are the back pointers that unlink_node and iter_prev follow.
THEOREM BackLinksStayExact == Spec => []BackLinksExact
<1>1. IsSound(sa) => BackLinksExact
  BY SoundIsExact
<1> QED BY <1>1, AlwaysSound, PTL

-----------------------------------------------------------------------------
(* The builder. *)

\* n is the last of all nodes, and trail the last ones of the levels.
LastIs(a, r, n) == n \in DOMAIN a.heap /\ \A m \in DOMAIN a.heap : r[m] <= r[n]

TrailIs(a, r, trail) ==
  /\ trail \in [LevelSet -> Nat]
  /\ \A l \in LevelSet : IF OnLevel(a, l) = {} THEN trail[l] = NULL
                         ELSE EndOf(a, r, l, trail[l])

\* The last node points to the new one.
LEMMA link_lastEffect ==
  ASSUME NEW a \in SkipArrays, NEW n \in DOMAIN a.heap, NEW new \in DOMAIN a.heap,
         NEW h, h = a.heap[new].height, NEW b, b = link_last(a, n, new)
  PROVE  /\ b \in SkipArrays /\ b.height = a.height
         /\ SameNodes(a, b) /\ SamePairs(a, b) /\ SameBacks(a, b)
         /\ \A l \in LevelSet : \A q \in {NULL} \cup OnLevel(a, l) :
              After(b, q, l) = IF q = n /\ l < h THEN new ELSE After(a, q, l)
<1> DEFINE old == a.heap[n].fwd
           f == [l \in 0 .. a.heap[n].height - 1 |-> IF l < h THEN new ELSE old[l]]
<1>1. /\ n # NULL /\ new \in Nat /\ MaxLevel \in Nat
      /\ \A m \in DOMAIN a.heap : /\ a.heap[m].height \in 1 .. MaxLevel
                                  /\ a.heap[m].fwd \in [0 .. a.heap[m].height - 1 -> Nat]
  BY ArrayParts, NodeParts, MaxLevelIs
<1>2. f \in [0 .. a.heap[n].height - 1 -> Nat]
  BY <1>1
<1>3. b = SetFwd(a, n, f)
  <2>1. DOMAIN old = 0 .. a.heap[n].height - 1
    BY <1>1
  <2> QED BY <2>1 DEF link_last, SetFwd
<1>4. \A l \in 0 .. a.heap[n].height - 1 : f[l] = IF l < h THEN new ELSE old[l]
  OBVIOUS
<1> HIDE DEF f
<1>5. /\ b \in SkipArrays /\ b.height = a.height /\ b.nodes = a.nodes
      /\ SameNodes(a, b) /\ SamePairs(a, b) /\ SameBacks(a, b)
      /\ \A m \in DOMAIN a.heap : b.heap[m].fwd = IF m = n THEN f ELSE a.heap[m].fwd
  BY ONLY <1>2, <1>3, a \in SkipArrays, n \in DOMAIN a.heap, SetFwdEffect
<1>6. ASSUME NEW l \in LevelSet, NEW q \in {NULL} \cup OnLevel(a, l)
      PROVE  After(b, q, l) = IF q = n /\ l < h THEN new ELSE After(a, q, l)
  <2>1. CASE q = NULL
    BY <1>1, <1>5, <2>1 DEF After
  <2>2. CASE q # NULL
    <3>1. q \in DOMAIN a.heap /\ l \in 0 .. a.heap[q].height - 1
      BY <1>1, <2>2 DEF OnLevel, LevelSet
    <3>2. After(b, q, l) = b.heap[q].fwd[l] /\ After(a, q, l) = a.heap[q].fwd[l]
      BY <2>2 DEF After
    <3> QED BY <1>4, <1>5, <3>1, <3>2
  <2> QED BY <2>1, <2>2
<1> QED BY <1>5, <1>6

\* On each level of the new node the trail points to it.
LEMMA link_trailEffect ==
  ASSUME NEW a \in SkipArrays, NEW trail, NEW new \in DOMAIN a.heap,
         NEW h, h = a.heap[new].height, NEW b, b = link_trail(a, trail, new)
  PROVE  /\ b \in SkipArrays /\ b.height = a.height
         /\ SameNodes(a, b) /\ SamePairs(a, b) /\ SameBacks(a, b)
         /\ \A l \in LevelSet : \A q \in {NULL} \cup OnLevel(a, l) :
              After(b, q, l) = IF q # NULL /\ q = trail[l] /\ l < h THEN new
                               ELSE After(a, q, l)
<1> DEFINE N == DOMAIN a.heap
           f(n) == [l \in DOMAIN a.heap[n].fwd |->
                      IF l < h /\ trail[l] = n THEN new ELSE a.heap[n].fwd[l]]
           x(n) == [a.heap[n] EXCEPT !.fwd = f(n)]
           g == [n \in N |-> x(n)]
<1>1. /\ N \in SUBSET (Nat \ {NULL}) /\ IsFiniteSet(N) /\ new \in Nat /\ MaxLevel \in Nat
      /\ \A m \in N : /\ a.heap[m] \in NodeRecords /\ a.heap[m].height \in 1 .. MaxLevel
                      /\ a.heap[m].fwd \in [0 .. a.heap[m].height - 1 -> Nat]
  BY ArrayParts, NodeParts, MaxLevelIs
<1>2. b = [a EXCEPT !.heap = g]
  BY DEF link_trail
<1>3. \A m \in N : f(m) \in [0 .. a.heap[m].height - 1 -> Nat]
  BY <1>1
<1>4. \A m \in N : \A l \in 0 .. a.heap[m].height - 1 :
        f(m)[l] = IF l < h /\ trail[l] = m THEN new ELSE a.heap[m].fwd[l]
  BY <1>1
<1> HIDE DEF f
<1>5. ASSUME NEW m \in N
      PROVE  /\ x(m) \in NodeRecords /\ x(m).height = a.heap[m].height
             /\ x(m).pairs = a.heap[m].pairs /\ x(m).back = a.heap[m].back
             /\ x(m).fwd = f(m)
  <2> DEFINE fm == f(m)
  <2>1. a.heap[m] \in NodeRecords /\ fm \in [0 .. a.heap[m].height - 1 -> Nat]
    BY <1>1, <1>3
  <2> HIDE DEF fm
  <2>2. LET y == [a.heap[m] EXCEPT !.fwd = fm]
        IN  /\ y \in NodeRecords /\ y.height = a.heap[m].height
            /\ y.pairs = a.heap[m].pairs /\ y.back = a.heap[m].back /\ y.fwd = fm
    BY <2>1, NodeWith
  <2> QED BY <2>2 DEF fm
<1> HIDE DEF x
<1>6. g \in [N -> NodeRecords] /\ \A m \in N : g[m] = x(m)
  BY <1>5
<1> HIDE DEF g, N
<1>7. b \in SkipArrays /\ b.height = a.height /\ b.nodes = a.nodes /\ b.heap = g
  BY <1>1, <1>2, <1>6, HeapWith
<1>8. SameNodes(a, b) /\ SamePairs(a, b) /\ SameBacks(a, b)
  <2>1. DOMAIN g = N
    BY <1>6
  <2> QED BY <1>5, <1>6, <1>7, <2>1 DEF SameNodes, SamePairs, SameBacks, N
<1>9. ASSUME NEW l \in LevelSet, NEW q \in {NULL} \cup OnLevel(a, l)
      PROVE  After(b, q, l) = IF q # NULL /\ q = trail[l] /\ l < h THEN new
                              ELSE After(a, q, l)
  <2>1. CASE q = NULL
    BY <1>7, <2>1 DEF After
  <2>2. CASE q # NULL
    <3>1. q \in N /\ l \in 0 .. a.heap[q].height - 1
      BY <1>1, <2>2 DEF OnLevel, LevelSet, N
    <3>2. After(b, q, l) = f(q)[l] /\ After(a, q, l) = a.heap[q].fwd[l]
      BY <1>5, <1>6, <1>7, <2>2, <3>1 DEF After
    <3> QED BY <1>4, <2>2, <3>1, <3>2
  <2> QED BY <2>1, <2>2
<1> QED BY <1>7, <1>8, <1>9

\* The skiparray of a builder with the node x at the address new.
Extended(a, last, trail, new, x) ==
  raise_height(link_trail(link_last(node_alloc(a, new, x), last, new), trail, new), new)

EmptyLast(h, last) ==
  [height |-> h, pairs |-> << >>, back |-> last, fwd |-> [l \in 0 .. h - 1 |-> NULL]]

\* All of extend: the new node is the last one of all its levels.
LEMMA ExtendedFormed ==
  ASSUME NEW a, NEW r, Formed(a, r), NEW last, LastIs(a, r, last),
         NEW new, Beside(a, r, last, new), NEW trail, TrailIs(a, r, trail),
         NEW h \in 1 .. MaxLevel,
         NEW c, c = Extended(a, last, trail, new, EmptyLast(h, last))
  PROVE  /\ Formed(c, r) /\ DOMAIN c.heap = DOMAIN a.heap \cup {new}
         /\ \A m \in DOMAIN a.heap : c.heap[m].pairs = a.heap[m].pairs
         /\ c.heap[new].pairs = << >>
         /\ LastIs(c, r, new) /\ TrailIs(c, r, advance_trail(trail, new, h))
<1> DEFINE N == DOMAIN a.heap
           x == EmptyLast(h, last)
           g == node_alloc(a, new, x)
           d == link_last(g, last, new)
           e == link_trail(d, trail, new)
           f == [l \in 0 .. h - 1 |-> NULL]
<1>1. /\ a \in SkipArrays /\ Ranks(r, N) /\ last \in N /\ new \in Nat \ {NULL} /\ new \notin N
      /\ MaxLevel \in Nat /\ a.height \in 1 .. MaxLevel /\ NULL \notin N
      /\ \A m \in N : r[m] \in Nat /\ r[m] <= r[last] /\ m \in Nat
      /\ \A m, q \in N : r[m] = r[q] => m = q
      /\ r[last] < r[new] /\ r[new] \in Nat
      /\ \A l \in LevelSet : OnLevel(a, l) \subseteq N
      /\ \A l \in LevelSet : \A p \in {NULL} \cup OnLevel(a, l) :
           Follows(r, OnLevel(a, l), p, After(a, p, l))
  BY FormedFacts, MaxLevelIs DEF LastIs, Beside, Formed, Ranks
<1>2. x \in NodeRecords /\ x.height = h /\ x.pairs = << >> /\ x.back = last /\ x.fwd = f
  <2>1. << >> \in Seq(AllPairs) /\ last \in Nat /\ f \in [0 .. h - 1 -> Nat]
    BY <1>1 DEF NULL
  <2>2. x = [height |-> h, pairs |-> << >>, back |-> last, fwd |-> f]
    BY DEF EmptyLast
  <2> HIDE DEF x, f
  <2> QED BY <2>1, <2>2, NodeMade
<1>3. \A l \in 0 .. h - 1 : f[l] = NULL
  OBVIOUS
<1>4. c = raise_height(e, new)
  BY DEF Extended
<1>5. g = node_alloc(a, new, x) /\ d = link_last(g, last, new) /\ e = link_trail(d, trail, new)
  OBVIOUS
<1> HIDE DEF x, g, d, e, f
<1>6. /\ g \in SkipArrays /\ g.height = a.height /\ g.nodes = a.nodes
      /\ DOMAIN g.heap = N \cup {new} /\ g.heap[new] = x
      /\ \A m \in N : g.heap[m] = a.heap[m]
  BY <1>1, <1>2, <1>5, node_allocEffect
<1>7. Grown(a, g, new, h)
  BY <1>2, <1>6 DEF Grown
<1>8. /\ d \in SkipArrays /\ d.height = g.height
      /\ SameNodes(g, d) /\ SamePairs(g, d) /\ SameBacks(g, d)
      /\ \A l \in LevelSet : \A q \in {NULL} \cup OnLevel(g, l) :
           After(d, q, l) = IF q = last /\ l < h THEN new ELSE After(g, q, l)
  <2>1. last \in DOMAIN g.heap /\ new \in DOMAIN g.heap /\ h = g.heap[new].height
    BY <1>1, <1>2, <1>6
  <2> QED BY <1>5, <1>6, <2>1, link_lastEffect
<1>9. /\ e \in SkipArrays /\ e.height = d.height
      /\ SameNodes(d, e) /\ SamePairs(d, e) /\ SameBacks(d, e)
      /\ \A l \in LevelSet : \A q \in {NULL} \cup OnLevel(d, l) :
           After(e, q, l) = IF q # NULL /\ q = trail[l] /\ l < h THEN new
                            ELSE After(d, q, l)
  <2>1. new \in DOMAIN d.heap /\ h = d.heap[new].height
    BY <1>2, <1>6, <1>8 DEF SameNodes
  <2> QED BY <1>5, <1>8, <2>1, link_trailEffect
<1>10. /\ c \in SkipArrays /\ c.height = IF h > e.height THEN h ELSE e.height
       /\ SameNodes(e, c) /\ SamePairs(e, c) /\ SameBacks(e, c)
       /\ \A l \in LevelSet : \A q \in {NULL} \cup OnLevel(e, l) :
            After(c, q, l) = IF q = NULL /\ e.height <= l /\ l < h THEN new
                             ELSE After(e, q, l)
  <2>1. new \in DOMAIN e.heap /\ h = e.heap[new].height
    BY <1>2, <1>6, <1>8, <1>9 DEF SameNodes
  <2> QED BY <1>4, <1>9, <2>1, raise_heightEffect
<1>11. SameNodes(g, c) /\ SamePairs(g, c) /\ SameBacks(g, c)
  BY <1>8, <1>9, <1>10 DEF SameNodes, SamePairs, SameBacks
<1>12. Grown(a, c, new, h)
  BY <1>7, <1>10, <1>11 DEF Grown, SameNodes
<1>13. \A l \in LevelSet : /\ OnLevel(d, l) = OnLevel(g, l) /\ OnLevel(e, l) = OnLevel(g, l)
                           /\ OnLevel(g, l) = OnLevel(a, l) \cup (IF l < h THEN {new} ELSE {})
  BY <1>1, <1>7, <1>8, <1>9, OnLevelSame, GrownLevels
<1>14. ASSUME NEW l \in LevelSet, NEW q \in {NULL} \cup OnLevel(g, l)
       PROVE  After(c, q, l) =
                IF q = NULL /\ a.height <= l /\ l < h THEN new
                ELSE IF q # NULL /\ q = trail[l] /\ l < h THEN new
                ELSE IF q = last /\ l < h THEN new ELSE After(g, q, l)
  <2>1. e.height = a.height
    BY <1>6, <1>8, <1>9
  <2> QED BY <1>8, <1>9, <1>10, <1>13, <2>1
<1>15. ASSUME NEW l \in LevelSet, NEW q \in {NULL} \cup OnLevel(a, l)
       PROVE  After(g, q, l) = After(a, q, l)
  BY <1>1, <1>6 DEF After, OnLevel
<1>16. ASSUME NEW l \in LevelSet, l < h
       PROVE  After(g, new, l) = NULL
  <2>1. l \in 0 .. h - 1
    BY <1>16 DEF LevelSet
  <2> QED BY <1>1, <1>2, <1>3, <1>6, <2>1 DEF After
<1>17. ASSUME NEW l \in LevelSet, OnLevel(a, l) # {}
       PROVE  /\ trail[l] \in OnLevel(a, l) /\ \A m \in OnLevel(a, l) : r[m] <= r[trail[l]]
              /\ l < a.height /\ (last \in OnLevel(a, l) => trail[l] = last)
              /\ After(a, trail[l], l) = NULL
  <2>1. EndOf(a, r, l, trail[l])
    BY <1>17 DEF TrailIs
  <2>2. trail[l] \in OnLevel(a, l) /\ \A m \in OnLevel(a, l) : r[m] <= r[trail[l]]
    BY <2>1 DEF EndOf
  <2>3. trail[l] \in N
    BY <1>1, <2>2
  <2>4. last \in OnLevel(a, l) => trail[l] = last
    BY <1>1, <2>2, <2>3
  <2>5. Follows(r, OnLevel(a, l), trail[l], After(a, trail[l], l))
    BY <1>1, <2>2
  <2>6. After(a, trail[l], l) = NULL
    <3>1. ASSUME NEW m \in OnLevel(a, l), Behind(r, trail[l], m)
          PROVE  FALSE
      <4>1. r[trail[l]] < r[m] /\ r[m] <= r[trail[l]]
        BY <1>1, <2>2, <2>3, <3>1 DEF Behind
      <4>2. r[trail[l]] \in Nat /\ r[m] \in Nat
        BY <1>1, <2>3
      <4> QED BY <4>1, <4>2
    <3> QED BY <2>5, <3>1 DEF Follows
  <2>7. l < a.height
    BY <1>17 DEF Formed, Tall
  <2> QED BY <2>2, <2>4, <2>6, <2>7
<1>18. ASSUME NEW l \in LevelSet, OnLevel(a, l) = {}
       PROVE  trail[l] = NULL /\ a.height <= l /\ After(a, NULL, l) = NULL
  <2>1. trail[l] = NULL
    BY <1>18 DEF TrailIs
  <2>2. a.height <= l
    BY <1>1, <1>18 DEF Formed, Tall, LevelSet
  <2>3. Follows(r, OnLevel(a, l), NULL, After(a, NULL, l))
    BY <1>1
  <2> QED BY <1>18, <2>1, <2>2, <2>3 DEF Follows
<1>19. ASSUME NEW l \in LevelSet, l < h
       PROVE  Spliced(a, r, c, new, l)
  <2> DEFINE p == trail[l]
  <2>1. CASE OnLevel(a, l) # {}
    <3>1. /\ p \in OnLevel(a, l) /\ p # NULL /\ p \in N /\ l < a.height
          /\ After(a, p, l) = NULL
      BY <1>1, <1>17, <2>1
    <3>2. InFront(r, OnLevel(a, l), p, new)
      <4>1. r[p] < r[new]
        BY <1>1, <3>1
      <4>2. \A m \in OnLevel(a, l) : r[m] <= r[p]
        BY <1>17, <2>1
      <4> QED BY <3>1, <4>1, <4>2 DEF InFront, Behind
    <3>3. After(c, p, l) = new
      BY <1>13, <1>14, <1>19, <3>1
    <3>4. After(c, new, l) = After(a, p, l)
      <4>1. new \in OnLevel(g, l) /\ new # p /\ new # last /\ new # NULL
        BY <1>1, <1>13, <1>19, <3>1
      <4> QED BY <1>14, <1>16, <1>19, <3>1, <4>1
    <3>5. ASSUME NEW q \in {NULL} \cup OnLevel(a, l), q # p
          PROVE  After(c, q, l) = After(a, q, l)
      <4>1. q # last
        BY <1>1, <1>17, <2>1, <3>5
      <4>2. ~(a.height <= l)
        BY <1>1, <3>1 DEF LevelSet
      <4>3. q \in {NULL} \cup OnLevel(g, l)
        BY <1>13
      <4> QED BY <1>14, <1>15, <3>5, <4>1, <4>2, <4>3
    <3> QED BY <3>2, <3>3, <3>4, <3>5 DEF Spliced
  <2>2. CASE OnLevel(a, l) = {}
    <3>1. p = NULL /\ a.height <= l /\ After(a, NULL, l) = NULL
      BY <1>18, <2>2
    <3>2. InFront(r, OnLevel(a, l), NULL, new)
      BY <2>2 DEF InFront, Behind
    <3>3. After(c, NULL, l) = new
      BY <1>14, <1>19, <3>1
    <3>4. After(c, new, l) = NULL
      <4>1. new \in OnLevel(g, l) /\ new # last /\ new # NULL
        BY <1>1, <1>13, <1>19
      <4> QED BY <1>14, <1>16, <1>19, <3>1, <4>1
    <3> QED BY <2>2, <3>1, <3>2, <3>3, <3>4 DEF Spliced
  <2> QED BY <2>1, <2>2
<1>20. ASSUME NEW l \in LevelSet, ~(l < h)
       PROVE  Untouched(a, c, l)
  BY <1>13, <1>14, <1>15, <1>20 DEF Untouched
<1>21. /\ \A m \in N : /\ c.heap[m].back = a.heap[m].back
                       /\ c.heap[m].pairs = a.heap[m].pairs
       /\ c.heap[new].back = last /\ c.heap[new].pairs = << >>
  BY <1>2, <1>6, <1>11 DEF SameBacks, SamePairs
<1>22. \A m \in N : m # After(a, last, 0)
  <2>1. OnLevel(a, 0) = N /\ 0 \in LevelSet
    BY FormedFacts
  <2>2. After(a, last, 0) = NULL
    BY <1>1, <1>17, <2>1
  <2> QED BY <1>1, <2>2
<1>23. Formed(c, r)
  <2>1. c.height = IF h > a.height THEN h ELSE a.height
    BY <1>6, <1>8, <1>9, <1>10
  <2> QED BY <1>12, <1>19, <1>20, <1>21, <1>22, <2>1, GrownFormed
<1>24. DOMAIN c.heap = N \cup {new}
  BY <1>12 DEF Grown
<1>25. LastIs(c, r, new)
  BY <1>1, <1>24 DEF LastIs
<1>26. TrailIs(c, r, advance_trail(trail, new, h))
  <2> DEFINE t == advance_trail(trail, new, h)
  <2>1. t \in [LevelSet -> Nat] /\ \A l \in LevelSet : t[l] = IF l < h THEN new ELSE trail[l]
    BY <1>1 DEF TrailIs, advance_trail
  <2> HIDE DEF t
  <2>2. ASSUME NEW l \in LevelSet
        PROVE  IF OnLevel(c, l) = {} THEN t[l] = NULL ELSE EndOf(c, r, l, t[l])
    <3>1. OnLevel(c, l) = OnLevel(a, l) \cup (IF l < h THEN {new} ELSE {})
      BY <1>1, <1>12, GrownLevels
    <3>2. CASE l < h
      <4>1. new \in OnLevel(c, l) /\ \A m \in OnLevel(c, l) : r[m] <= r[new]
        BY <1>1, <3>1, <3>2
      <4> QED BY <2>1, <3>2, <4>1 DEF EndOf
    <3>3. CASE ~(l < h)
      <4>1. OnLevel(c, l) = OnLevel(a, l) /\ t[l] = trail[l]
        BY <2>1, <3>1, <3>3
      <4>2. IF OnLevel(a, l) = {} THEN trail[l] = NULL ELSE EndOf(a, r, l, trail[l])
        BY DEF TrailIs
      <4> QED BY <4>1, <4>2 DEF EndOf
    <3> QED BY <3>2, <3>3
  <2>3. TrailIs(c, r, t)
    BY <2>1, <2>2 DEF TrailIs
  <2> QED BY <2>3 DEF t
<1> QED BY <1>21, <1>23, <1>24, <1>25, <1>26

Builders ==
  [sa : SkipArrays, last : Nat, trail : [LevelSet -> Nat], check : BOOLEAN, prev : Nat]

\* Where the next pair goes.
AtEnd(b, r) ==
  /\ b \in Builders /\ Formed(b.sa, r) /\ Ordered(b.sa, r)
  /\ LastIs(b.sa, r, b.last) /\ TrailIs(b.sa, r, b.trail)

\* A checking builder has the last key.
KeyKept(b) ==
  b.check => LET pairs == b.sa.heap[b.last].pairs
             IN  \A i \in DOMAIN pairs : b.prev # NULL /\ pairs[i].key <= b.prev

BuilderOK(b, r) == AtEnd(b, r) /\ Filled(b.sa) /\ KeyKept(b)

\* Only the last node grows; a node that is no longer the last is full.
OthersStay(b, c) ==
  \A m \in DOMAIN c.sa.heap : m # c.last =>
    /\ m \in DOMAIN b.sa.heap
    /\ Count(c.sa, m) = Count(b.sa, m)
    /\ m = b.last => Count(c.sa, m) = NodeSize

\* key is above all keys.
AllBelow(a, key) ==
  \A m \in DOMAIN a.heap : \A i \in DOMAIN a.heap[m].pairs : a.heap[m].pairs[i].key < key

\* skiparray_builder_new.
LEMMA builder_newOK ==
  ASSUME NEW lvl \in Levels, NEW check \in BOOLEAN, NEW b, b = builder_new(lvl, check)
  PROVE  \E r : BuilderOK(b, r)
<1> DEFINE a == skiparray_new(lvl)
           trail == [l \in LevelSet |-> IF l < a.heap[a.nodes[0]].height THEN a.nodes[0] ELSE NULL]
<1>1. PICK r : /\ Sound(a, r) /\ DOMAIN a.heap = {1} /\ a.heap[1].pairs = << >>
               /\ a.nodes[0] = 1 /\ a.heap[1].height = a.height
  BY skiparray_newSound
<1>2. b = [sa |-> a, last |-> a.nodes[0], trail |-> trail, check |-> check, prev |-> NULL]
  BY DEF builder_new, LevelSet
<1> HIDE DEF a
<1>3. trail \in [LevelSet -> Nat]
      /\ \A l \in LevelSet : trail[l] = IF l < a.height THEN 1 ELSE NULL
  BY <1>1 DEF NULL
<1> HIDE DEF trail
<1>4. b \in Builders /\ b.sa = a /\ b.last = 1 /\ b.trail = trail
  BY <1>1, <1>2, <1>3 DEF Builders, Sound, Formed, NULL
<1>5. LastIs(a, r, 1)
  <2>1. r[1] \in Nat
    BY <1>1, FormedFacts DEF Sound
  <2> QED BY <1>1, <2>1 DEF LastIs
<1>6. TrailIs(a, r, trail)
  <2>1. \A l \in LevelSet : OnLevel(a, l) = IF l < a.height THEN {1} ELSE {}
    BY <1>1 DEF OnLevel
  <2>2. r[1] \in Nat
    BY <1>1, FormedFacts DEF Sound
  <2> QED BY <1>3, <2>1, <2>2 DEF TrailIs, EndOf
<1>7. KeyKept(b)
  BY <1>1, <1>4 DEF KeyKept
<1> QED BY <1>1, <1>4, <1>5, <1>6, <1>7 DEF BuilderOK, AtEnd, Sound

\* A pair above all others goes behind them.
LEMMA putOK ==
  ASSUME NEW b, NEW r, AtEnd(b, r), RestFilled(b.sa, b.last), Count(b.sa, b.last) < NodeSize,
         NEW pair \in Pair, AllBelow(b.sa, pair.key), NEW c, c = put(b, pair)
  PROVE  BuilderOK(c, r) /\ Gains(b.sa, c.sa, pair) /\ OthersStay(b, c) /\ c.last = b.last
<1> DEFINE a == b.sa
           n == b.last
           p == a.heap[n].pairs
           k == Count(a, n)
           s == InsertAt(p, k + 1, pair)
           d == insert_pair(a, n, k, pair)
<1>1. /\ a \in SkipArrays /\ n \in DOMAIN a.heap /\ Formed(a, r) /\ Ordered(a, r)
      /\ LastIs(a, r, n) /\ TrailIs(a, r, b.trail) /\ b \in Builders
      /\ \A m \in DOMAIN a.heap : r[m] \in Nat
  BY FormedFacts DEF AtEnd, LastIs
<1>2. pair \in AllPairs /\ pair.key \in Nat /\ pair.key # NULL
  BY PairKeys, SkipArrayAssumption DEF NULL
<1>3. p \in Seq(AllPairs) /\ k \in Nat /\ DOMAIN p = 1 .. k /\ Len(p) = k
  BY <1>1, PairsType DEF Count
<1>4. GapAt(a, r, pair.key, n, k)
  <2>1. Splits(p, pair.key, k)
    BY <1>1, <1>3, SMTT(30) DEF Splits, AllBelow
  <2>2. ASSUME NEW m \in DOMAIN a.heap
        PROVE  ~(r[m] > r[n])
    BY <1>1 DEF LastIs
  <2> QED BY <2>1, <2>2 DEF GapAt, AllBelow
<1>5. RestFilled(a, n) /\ k < NodeSize
  OBVIOUS
<1>6. d = insert_pair(a, n, k, pair) /\ d = SetPairs(a, n, s)
  BY DEF insert_pair, SetPairs
<1>7. c = [b EXCEPT !.sa = d, !.prev = IF b.check THEN pair.key ELSE b.prev]
  BY DEF put
<1>8. /\ s \in Seq(AllPairs)
      /\ \A j \in DOMAIN s : s[j] = pair \/ \E i \in DOMAIN p : s[j] = p[i]
  <2> DEFINE at == k + 1
  <2>1. p \in Seq(AllPairs) /\ at \in 1 .. Len(p) + 1 /\ pair \in AllPairs
    BY <1>2, <1>3
  <2>2. s = InsertAt(p, at, pair)
    OBVIOUS
  <2> HIDE DEF p, at, s
  <2>3. s \in Seq(AllPairs) /\ PutIn(s, p, at, pair)
    BY ONLY <2>1, <2>2, PairPutIn, Zenon
  <2>4. s \in Seq(AllPairs) /\ DOMAIN s = 1 .. Len(p) + 1
    BY <2>3 DEF PutIn
  <2>5. \A j \in 1 .. Len(p) + 1 : s[j] = IF j < at THEN p[j]
                                          ELSE IF j = at THEN pair ELSE p[j - 1]
    BY <2>3 DEF PutIn
  <2>6. ASSUME NEW j \in 1 .. Len(p) + 1
        PROVE  s[j] = pair \/ \E i \in DOMAIN p : s[j] = p[i]
    <3>1. at = Len(p) + 1 /\ Len(p) \in Nat
      BY <1>3 DEF at
    <3>2. CASE j = at
      BY <2>5, <3>2
    <3>3. CASE j # at
      <4>1. j < at /\ j \in 1 .. k
        BY <1>3, <3>1, <3>3
      <4> QED BY <1>3, <2>5, <4>1
    <3> QED BY <3>2, <3>3
  <2> QED BY <2>4, <2>6
<1> HIDE DEF s, d
<1>9. /\ SameNodes(a, d) /\ d.heap[n].pairs = s
      /\ \A m \in DOMAIN a.heap : m # n => d.heap[m].pairs = a.heap[m].pairs
  <2>1. n \in DOMAIN a.heap /\ s \in Seq(AllPairs)
    BY <1>1, <1>8
  <2> QED BY <1>1, <1>6, <2>1, SetPairsEffect
<1>10. Sound(d, r) /\ DOMAIN d.heap = DOMAIN a.heap /\ Gains(a, d, pair)
  <2>1. Formed(a, r) /\ Ordered(a, r) /\ n \in DOMAIN a.heap /\ RestFilled(a, n)
    BY <1>1, <1>5
  <2>2. pair \in AllPairs /\ GapAt(a, r, pair.key, n, k) /\ Count(a, n) < NodeSize
    BY <1>2, <1>4
  <2>3. d = insert_pair(a, n, k, pair)
    BY <1>6
  <2> HIDE DEF k, n, a, p
  <2> QED BY ONLY <2>1, <2>2, <2>3, InsertedInGap
<1>11. /\ c.sa = d /\ c.last = n /\ c.trail = b.trail /\ c.check = b.check
       /\ c.prev = IF b.check THEN pair.key ELSE b.prev
       /\ c \in Builders
  BY <1>1, <1>2, <1>7, <1>10 DEF Builders, Sound, Formed
<1>12. LastIs(d, r, n)
  BY <1>1, <1>10 DEF LastIs
<1>13. TrailIs(d, r, b.trail)
  <2>1. \A l \in LevelSet : OnLevel(d, l) = OnLevel(a, l)
    BY <1>9, OnLevelSame
  <2> QED BY <1>1, <2>1 DEF TrailIs, EndOf
<1>14. KeyKept(c)
  <2>1. ASSUME NEW j \in DOMAIN s
        PROVE  s[j].key <= pair.key
    <3>1. \A i \in DOMAIN p : p[i].key < pair.key /\ p[i].key \in Nat
      BY <1>1, <1>3, PairsType DEF AllBelow
    <3> QED BY <1>2, <1>8, <3>1
  <2> QED BY <1>2, <1>9, <1>11, <2>1 DEF KeyKept
<1>15. OthersStay(b, c)
  BY <1>9, <1>10, <1>11 DEF OthersStay, Count
<1> QED BY <1>10, <1>11, <1>12, <1>13, <1>14, <1>15 DEF BuilderOK, AtEnd, Sound

\* A new last node.
LEMMA extendOK ==
  ASSUME NEW b, NEW r, BuilderOK(b, r), last_is_full(b), NEW h \in 1 .. MaxLevel,
         NEW key, AllBelow(b.sa, key), NEW c, c = extend(b, h)
  PROVE  /\ \E s : AtEnd(c, s) /\ RestFilled(c.sa, c.last) /\ Count(c.sa, c.last) < NodeSize
         /\ AllBelow(c.sa, key) /\ SameBindings(b.sa, c.sa) /\ OthersStay(b, c)
<1> DEFINE a == b.sa
           N == DOMAIN a.heap
           n == b.last
           new == FreshNode(a)
           t == b.trail
           d == Extended(a, n, t, new, EmptyLast(h, n))
<1>1. /\ a \in SkipArrays /\ Formed(a, r) /\ Ordered(a, r) /\ Filled(a)
      /\ LastIs(a, r, n) /\ TrailIs(a, r, t) /\ n \in N /\ Ranks(r, N) /\ b \in Builders
      /\ Sound(a, r)
  BY DEF BuilderOK, AtEnd, LastIs, Formed, Sound
<1>2. new \in Nat \ {NULL} /\ new \notin N
  BY <1>1, FreshNodeIsNew
<1>3. c = [b EXCEPT !.sa = d, !.last = new, !.trail = advance_trail(t, new, h)]
  BY DEF extend, Extended, EmptyLast, new_last
<1>4. d = Extended(a, n, t, new, EmptyLast(h, n))
  OBVIOUS
<1> HIDE DEF new, d
<1>5. PICK s : RoomBehind(r, s, N, n, new)
  <2>1. n \in N /\ Ranks(r, N)
    BY <1>1
  <2> HIDE DEF N, n
  <2> QED BY ONLY <1>2, <2>1, RanksMakeRoom
<1>6. Sound(a, s)
  BY <1>1, <1>5, SoundByOrder DEF RoomBehind
<1>7. /\ \A m, q \in N : s[m] < s[q] <=> r[m] < r[q]
      /\ \A m \in N : s[m] \in Nat /\ r[m] \in Nat
  BY <1>1, <1>5 DEF RoomBehind, Ranks
<1>8. \A m, q \in N : s[m] <= s[q] <=> r[m] <= r[q]
  <2>1. ASSUME NEW m \in N, NEW q \in N
        PROVE  s[m] <= s[q] <=> r[m] <= r[q]
    <3>1. s[q] < s[m] <=> r[q] < r[m]
      BY <1>7
    <3>2. s[m] \in Nat /\ s[q] \in Nat /\ r[m] \in Nat /\ r[q] \in Nat
      BY <1>7
    <3> QED BY <3>1, <3>2
  <2> QED BY <2>1
<1>9. LastIs(a, s, n)
  BY <1>1, <1>8 DEF LastIs
<1>10. TrailIs(a, s, t)
  <2>1. ASSUME NEW l \in LevelSet, NEW p, EndOf(a, r, l, p)
        PROVE  EndOf(a, s, l, p)
    BY <1>8, <2>1 DEF EndOf, OnLevel
  <2> QED BY <1>1, <2>1 DEF TrailIs
<1>11. Beside(a, s, n, new) /\ Formed(a, s)
  BY <1>1, <1>2, <1>5, <1>6 DEF Beside, RoomBehind, Sound
<1>12. /\ Formed(d, s) /\ DOMAIN d.heap = N \cup {new}
       /\ \A m \in N : d.heap[m].pairs = a.heap[m].pairs
       /\ d.heap[new].pairs = << >>
       /\ LastIs(d, s, new) /\ TrailIs(d, s, advance_trail(t, new, h))
  BY <1>4, <1>9, <1>10, <1>11, ExtendedFormed
<1>13. /\ c.sa = d /\ c.last = new /\ c.trail = advance_trail(t, new, h)
       /\ c \in Builders
  <2>1. d \in SkipArrays /\ new \in Nat /\ advance_trail(t, new, h) \in [LevelSet -> Nat]
    BY <1>2, <1>12 DEF Formed, TrailIs
  <2> QED BY <1>1, <1>3, <2>1 DEF Builders
<1>14. NodeSize \in Nat /\ NodeSize >= 2
  BY SkipListAssumption
<1>15. Ordered(d, s)
  <2>1. \A m \in DOMAIN d.heap : Ascending(d.heap[m].pairs) /\ Count(d, m) <= NodeSize
    BY <1>1, <1>12, <1>14 DEF Ordered, Count, Ascending
  <2>2. \A m, q \in DOMAIN d.heap : s[m] < s[q] => Below(d.heap[m].pairs, d.heap[q].pairs)
    BY <1>6, <1>12 DEF Sound, Ordered, Below
  <2> QED BY <2>1, <2>2 DEF Ordered
<1>16. RestFilled(d, new)
  <2>1. Count(a, n) = NodeSize
    BY DEF last_is_full
  <2>2. \A m \in N : Count(a, m) # 0
    BY <1>1, <1>14, <2>1 DEF Filled
  <2> QED BY <1>12, <2>2 DEF RestFilled, Count
<1>17. Count(d, new) < NodeSize
  BY <1>12, <1>14 DEF Count
<1>18. AllBelow(d, key)
  BY <1>12 DEF AllBelow
<1>19. SameBindings(a, d)
  <2>1. \A x : ~Contains(<< >>, x)
    BY DEF Contains
  <2> QED BY <1>12, <2>1 DEF SameBindings, Binds
<1>20. OthersStay(b, c)
  <2>1. Count(a, n) = NodeSize
    BY DEF last_is_full
  <2>2. \A m \in N : Count(d, m) = Count(a, m)
    BY <1>12 DEF Count
  <2> QED BY <1>12, <1>13, <2>1, <2>2 DEF OthersStay
<1> QED BY <1>12, <1>13, <1>15, <1>16, <1>17, <1>18, <1>19, <1>20 DEF AtEnd

\* skiparray_builder_append, when it accepts the pair.
LEMMA appendOK ==
  ASSUME NEW b, NEW r, BuilderOK(b, r), NEW pair \in Pair, NEW lvl \in Levels,
         ClientMayAppend(b, pair.key), ~rejects(b, pair.key), NEW c, c = append(b, pair, lvl)
  PROVE  /\ \E s : BuilderOK(c, s)
         /\ AllBelow(b.sa, pair.key) /\ Gains(b.sa, c.sa, pair) /\ OthersStay(b, c)
<1> DEFINE a == b.sa
           n == b.last
           p == a.heap[n].pairs
<1>1. /\ a \in SkipArrays /\ Formed(a, r) /\ Ordered(a, r) /\ Filled(a) /\ n \in DOMAIN a.heap
      /\ \A m \in DOMAIN a.heap : r[m] \in Nat /\ r[m] <= r[n]
      /\ \A m, q \in DOMAIN a.heap : r[m] = r[q] => m = q
      /\ b.prev \in Nat /\ b.check \in BOOLEAN
  BY FormedFacts DEF BuilderOK, AtEnd, LastIs, Builders
<1>2. pair.key \in Nat
  BY PairKeys
<1>3. \A i \in DOMAIN p : p[i].key < pair.key
  <2>1. ASSUME NEW i \in DOMAIN p
        PROVE  p[i].key < pair.key
    <3>1. p[i].key \in Nat
      BY <1>1, PairsType
    <3>2. CASE b.check
      <4>1. b.prev # NULL /\ p[i].key <= b.prev
        BY <3>2 DEF BuilderOK, KeyKept
      <4>2. b.prev < pair.key
        BY <1>1, <1>2, <4>1 DEF rejects
      <4> QED BY <1>1, <1>2, <3>1, <4>1, <4>2
    <3>3. CASE ~b.check
      <4>1. p[i] \in ToSet(p)
        BY DEF ToSet
      <4> QED BY <3>3, <4>1 DEF ClientMayAppend
    <3> QED BY <1>1, <3>2, <3>3
  <2> QED BY <2>1
<1>4. Count(a, n) \in Nat /\ Count(a, n) <= NodeSize /\ NodeSize \in Nat
  BY <1>1, PairsType, SkipListAssumption DEF Ordered
<1>5. AllBelow(a, pair.key)
  <2>1. ASSUME NEW m \in DOMAIN a.heap, NEW i \in DOMAIN a.heap[m].pairs
        PROVE  a.heap[m].pairs[i].key < pair.key
    <3>1. CASE m = n
      BY <1>3, <3>1
    <3>2. CASE m # n
      <4>1. r[m] < r[n]
        BY <1>1, <3>2
      <4>2. Count(a, n) # 0
        BY <1>1, <3>2 DEF Filled
      <4>3. Count(a, n) > 0
        BY <1>4, <4>2
      <4>4. /\ Count(a, n) \in DOMAIN p /\ p[Count(a, n)].key = LastKey(a, n)
            /\ a.heap[m].pairs[i].key < LastKey(a, n) /\ LastKey(a, n) \in Nat
        BY <1>1, <4>1, <4>3, LastKeys
      <4>5. a.heap[m].pairs[i].key \in Nat
        BY <1>1, PairsType
      <4>6. LastKey(a, n) < pair.key
        BY <1>3, <4>4
      <4> QED BY <1>2, <4>4, <4>5, <4>6
    <3> QED BY <3>1, <3>2
  <2> QED BY <2>1 DEF AllBelow
<1>6. CASE last_is_full(b)
  <2> DEFINE d == extend(b, node_height(lvl))
  <2>1. node_height(lvl) \in 1 .. MaxLevel
    BY HeightsDrawn
  <2>2. c = put(d, pair)
    BY <1>6 DEF append
  <2>3. d = extend(b, node_height(lvl))
    OBVIOUS
  <2> HIDE DEF d
  <2>4. /\ \E s : AtEnd(d, s) /\ RestFilled(d.sa, d.last) /\ Count(d.sa, d.last) < NodeSize
        /\ AllBelow(d.sa, pair.key) /\ SameBindings(a, d.sa) /\ OthersStay(b, d)
    BY <1>5, <1>6, <2>1, <2>3, extendOK
  <2>5. /\ \E s : BuilderOK(c, s)
        /\ Gains(d.sa, c.sa, pair) /\ OthersStay(d, c) /\ c.last = d.last
    BY <2>2, <2>4, putOK
  <2>6. OthersStay(b, c)
    BY <2>4, <2>5 DEF OthersStay
  <2> QED BY <1>5, <2>4, <2>5, <2>6 DEF SameBindings, Gains
<1>7. CASE ~last_is_full(b)
  <2>1. c = put(b, pair)
    BY <1>7 DEF append
  <2>2. RestFilled(b.sa, b.last)
    BY <1>1 DEF Filled, RestFilled
  <2>3. Count(b.sa, b.last) < NodeSize
    BY <1>4, <1>7 DEF last_is_full
  <2>4. AtEnd(b, r)
    BY DEF BuilderOK
  <2> QED BY <1>5, <2>1, <2>2, <2>3, <2>4, putOK
<1> QED BY <1>6, <1>7

-----------------------------------------------------------------------------

\* sa is sound, and while it is built the builder is at its end.
BuiltInv ==
  /\ IsSound(sa)
  /\ \A b \in builder : sa = b.sa /\ \E r : BuilderOK(b, r)

\* What a builder hands over is sound.
LEMMA BuilderIsSound ==
  ASSUME NEW b, NEW r, BuilderOK(b, r)
  PROVE  IsSound(b.sa)
BY DEF BuilderOK, AtEnd, IsSound, Sound

\* From skiparray_builder_new on, through any appends, finish, and any calls
\* after it, the skiparray is sound and the builder knows its end.
THEOREM BuiltStaysSound == BuiltSpec => []BuiltInv
<1>1. BuilderNew => BuiltInv
  <2> SUFFICES ASSUME BuilderNew
               PROVE  BuiltInv
    OBVIOUS
  <2>1. PICK lvl \in Levels, check \in BOOLEAN : builder = {builder_new(lvl, check)}
    BY DEF BuilderNew
  <2> DEFINE b == builder_new(lvl, check)
  <2>2. builder = {b} /\ sa = b.sa
    BY <2>1 DEF BuilderNew
  <2>3. \E r : BuilderOK(b, r)
    BY builder_newOK
  <2> HIDE DEF b
  <2> QED BY <2>2, <2>3, BuilderIsSound DEF BuiltInv
<1>2. BuiltInv /\ [BuiltNext]_BuiltVars => BuiltInv'
  <2> SUFFICES ASSUME BuiltInv, [BuiltNext]_BuiltVars
               PROVE  BuiltInv'
    OBVIOUS
  <2>1. CASE sa' = sa /\ builder' \subseteq builder
    BY <2>1 DEF BuiltInv
  <2>2. ASSUME NEW b \in builder, NEW pair \in Pair, BuilderAppend(b, pair)
        PROVE  BuiltInv'
    <3>1. CASE sa' = sa /\ builder' = builder
      BY <2>1, <3>1
    <3>2. CASE ~(sa' = sa /\ builder' = builder)
      <4>1. /\ ClientMayAppend(b, pair.key) /\ ~rejects(b, pair.key)
            /\ \E lvl \in IF last_is_full(b) THEN Levels ELSE {0} :
                 builder' = {append(b, pair, lvl)}
            /\ \A grown \in builder' : sa' = grown.sa
        BY <2>2, <3>2 DEF BuilderAppend, BuilderRefuse, Refuse, Look
      <4>2. PICK lvl \in Levels : builder' = {append(b, pair, lvl)}
        <5>1. 0 \in Levels
          BY MaxLevelIs DEF Levels
        <5> QED BY <4>1, <5>1
      <4> DEFINE c == append(b, pair, lvl)
      <4>3. builder' = {c} /\ sa' = c.sa
        BY <4>1, <4>2
      <4>4. PICK r : BuilderOK(b, r)
        BY DEF BuiltInv
      <4>5. \E s : BuilderOK(c, s)
        BY <4>1, <4>4, appendOK
      <4> HIDE DEF c
      <4> QED BY <4>3, <4>5, BuilderIsSound DEF BuiltInv
    <3> QED BY <3>1, <3>2
  <2>3. CASE BuilderFinish
    BY <2>1, <2>3 DEF BuilderFinish
  <2>4. CASE Use
    <3>1. IsSound(sa')
      BY <2>4, NextSound DEF Use, BuiltInv
    <3>2. builder' = {}
      BY <2>4 DEF Use, Building
    <3> QED BY <3>1, <3>2 DEF BuiltInv
  <2>5. CASE UNCHANGED BuiltVars
    BY <2>1, <2>5 DEF BuiltVars
  <2> QED BY <2>2, <2>3, <2>4, <2>5 DEF BuiltNext
<1> QED BY <1>1, <1>2, PTL DEF BuiltSpec

\* The last node that Chain reads.
LEMMA ChainEnd ==
  ASSUME NEW a, NEW r, Formed(a, r), NEW trail, TrailIs(a, r, trail), NEW l \in LevelSet,
         NEW c, c = Chain(a, l)
  PROVE  trail[l] = IF c = << >> THEN NULL ELSE c[Len(c)]
<1> DEFINE T == OnLevel(a, l)
<1>1. Lists(r, c, T)
  BY ChainLists
<1>2. /\ c \in Seq(T) /\ Len(c) \in Nat /\ DOMAIN c = 1 .. Len(c) /\ \A i \in DOMAIN c : c[i] \in T
      /\ \A x \in T : \E i \in DOMAIN c : c[i] = x
      /\ \A i, j \in DOMAIN c : i < j => r[c[i]] < r[c[j]]
  BY <1>1 DEF Lists
<1>3. T \subseteq DOMAIN a.heap /\ \A m \in DOMAIN a.heap : r[m] \in Nat
  BY FormedFacts
<1>4. CASE T = {}
  <2>1. c = << >>
    BY <1>2, <1>4
  <2> QED BY <1>4, <2>1 DEF TrailIs
<1>5. CASE T # {}
  <2>1. trail[l] \in T /\ \A m \in T : r[m] <= r[trail[l]]
    BY <1>5 DEF TrailIs, EndOf
  <2>2. PICK i \in DOMAIN c : c[i] = trail[l]
    BY <1>2, <2>1
  <2>3. c # << >> /\ Len(c) \in DOMAIN c
    BY <1>2, <2>2
  <2>4. i = Len(c)
    <3>1. CASE i < Len(c)
      <4>1. r[trail[l]] < r[c[Len(c)]] /\ c[Len(c)] \in T
        BY <1>2, <2>2, <2>3, <3>1
      <4> QED BY <1>3, <2>1, <4>1
    <3> QED BY <1>2, <2>2, <3>1
  <2> QED BY <2>2, <2>3, <2>4
<1> QED BY <1>4, <1>5

\* What BuiltInv says is what the properties say.
LEMMA InvIsExact == BuiltInv => TrailExact /\ LevelsExact /\ BackLinksExact
<1> SUFFICES ASSUME BuiltInv
             PROVE  TrailExact /\ LevelsExact /\ BackLinksExact
  OBVIOUS
<1>1. LevelsExact /\ BackLinksExact
  BY SoundIsExact DEF BuiltInv
<1>2. ASSUME NEW b \in builder, NEW l \in LevelSet
      PROVE  LET chain == Chain(sa, l)
             IN  b.trail[l] = IF chain = << >> THEN NULL ELSE chain[Len(chain)]
  <2>1. PICK r : sa = b.sa /\ BuilderOK(b, r)
    BY DEF BuiltInv
  <2> QED BY <2>1, ChainEnd DEF BuilderOK, AtEnd
<1> QED BY <1>1, <1>2 DEF TrailExact, LevelSet

\* append links a new last node behind the last one of each of its levels,
\* because the trail that it follows is always at that one.
THEOREM TrailStaysExact == BuiltSpec => []TrailExact
<1>1. BuiltInv => TrailExact
  BY InvIsExact
<1> QED BY <1>1, BuiltStaysSound, PTL

\* A skiparray that is being built, or was, has the same shape as any other.
THEOREM BuiltLinksStayExact == BuiltSpec => [](LevelsExact /\ BackLinksExact)
<1>1. BuiltInv => LevelsExact /\ BackLinksExact
  BY InvIsExact
<1> QED BY <1>1, BuiltStaysSound, PTL

-----------------------------------------------------------------------------
(* The list of live iterators. *)

\* An iterator has the fields of struct skiparray_iter, whatever they hold.
IsIter(it) == it = [prev |-> it.prev, next |-> it.next, n |-> it.n, index |-> it.index]

\* list is the live iterators in the order of their next fields, from head.
Strung(live, head, list, m) ==
  /\ m \in Nat
  /\ list \in [1 .. m -> DOMAIN live]
  /\ \A x, y \in 1 .. m : list[x] = list[y] => x = y
  /\ \A i \in DOMAIN live : \E x \in 1 .. m : list[x] = i
  /\ head = IF m = 0 THEN NULL ELSE list[1]
  /\ \A x \in 1 .. m :
       /\ live[list[x]].prev = IF x = 1 THEN NULL ELSE list[x - 1]
       /\ live[list[x]].next = IF x = m THEN NULL ELSE list[x + 1]

\* The live iterators with their shape.
Live(live) ==
  /\ live = [i \in DOMAIN live |-> live[i]]
  /\ DOMAIN live \subseteq IterIds
  /\ \A i \in DOMAIN live : IsIter(live[i])

\* The inductive invariant: the live iterators hang on one list.
ListInv ==
  /\ Live(its)
  /\ \E m \in Nat : \E list \in [1 .. m -> DOMAIN its] : Strung(its, iter, list, m)

-----------------------------------------------------------------------------
(* What the calls that write prev and next do to them.                     *)

\* Writing one field of an iterator leaves the others.
WithPrev(it, q) == [it EXCEPT !.prev = q]
WithNext(it, q) == [it EXCEPT !.next = q]

WithPlace(it, n, index) == [it EXCEPT !.n = n, !.index = index]

\* What iter_link and iter_unlink write keeps the other fields.
LEMMA WriteField ==
  ASSUME NEW it, IsIter(it), NEW q
  PROVE  /\ IsIter(WithPrev(it, q))
         /\ WithPrev(it, q).prev = q /\ WithPrev(it, q).next = it.next
         /\ IsIter(WithNext(it, q))
         /\ WithNext(it, q).next = q /\ WithNext(it, q).prev = it.prev
BY DEF IsIter, WithPrev, WithNext

\* And so does a move of an iterator to another pair.
LEMMA WritePlace ==
  ASSUME NEW it, IsIter(it), NEW n, NEW index
  PROVE  /\ IsIter(WithPlace(it, n, index))
         /\ WithPlace(it, n, index).prev = it.prev
         /\ WithPlace(it, n, index).next = it.next
<1> DEFINE v == [it EXCEPT !.n = n]
           w == [v EXCEPT !.index = index]
<1>1. IsIter(v) /\ v.prev = it.prev /\ v.next = it.next
  BY DEF IsIter
<1>2. WithPlace(it, n, index) = w
  BY Zenon DEF WithPlace
<1> HIDE DEF v
<1>3. IsIter(w) /\ w.prev = v.prev /\ w.next = v.next
  BY <1>1 DEF IsIter
<1> HIDE DEF w
<1> QED BY <1>1, <1>2, <1>3

\* if (i != NULL) i->prev = q: only that field of that iterator changes.
LEMMA ListPrev ==
  ASSUME NEW live, Live(live), NEW i \in DOMAIN live \cup {NULL}, NEW q
  PROVE  LET w == list_prev(live, i, q)
         IN  /\ Live(w) /\ DOMAIN w = DOMAIN live
             /\ \A j \in DOMAIN live :
                  /\ w[j].prev = IF j = i THEN q ELSE live[j].prev
                  /\ w[j].next = live[j].next
<1>1. NULL \notin DOMAIN live
  BY SkipArrayIterAssumption DEF Live
<1>2. CASE i = NULL
  BY <1>1, <1>2 DEF list_prev
<1>3. CASE i # NULL
  <2> DEFINE w == [live EXCEPT ![i].prev = q]
  <2>1. i \in DOMAIN live /\ list_prev(live, i, q) = w
    BY <1>3 DEF list_prev
  <2>2. DOMAIN w = DOMAIN live /\ w = [j \in DOMAIN w |-> w[j]]
    BY DEF Live
  <2>3. \A j \in DOMAIN live : j # i => w[j] = live[j]
    BY DEF Live
  <2>4. w[i] = WithPrev(live[i], q)
    BY <2>1 DEF WithPrev
  <2>5. IsIter(w[i]) /\ w[i].prev = q /\ w[i].next = live[i].next
    <3>1. IsIter(live[i])
      BY <2>1 DEF Live
    <3> HIDE DEF w
    <3> QED BY <2>4, <3>1, WriteField
  <2> HIDE DEF w
  <2> QED BY <2>1, <2>2, <2>3, <2>5 DEF Live
<1> QED BY <1>2, <1>3

\* The same for next.
LEMMA ListNext ==
  ASSUME NEW live, Live(live), NEW i \in DOMAIN live \cup {NULL}, NEW q
  PROVE  LET w == list_next(live, i, q)
         IN  /\ Live(w) /\ DOMAIN w = DOMAIN live
             /\ \A j \in DOMAIN live :
                  /\ w[j].next = IF j = i THEN q ELSE live[j].next
                  /\ w[j].prev = live[j].prev
<1>1. NULL \notin DOMAIN live
  BY SkipArrayIterAssumption DEF Live
<1>2. CASE i = NULL
  BY <1>1, <1>2 DEF list_next
<1>3. CASE i # NULL
  <2> DEFINE w == [live EXCEPT ![i].next = q]
  <2>1. i \in DOMAIN live /\ list_next(live, i, q) = w
    BY <1>3 DEF list_next
  <2>2. DOMAIN w = DOMAIN live /\ w = [j \in DOMAIN w |-> w[j]]
    BY DEF Live
  <2>3. \A j \in DOMAIN live : j # i => w[j] = live[j]
    BY DEF Live
  <2>4. w[i] = WithNext(live[i], q)
    BY <2>1 DEF WithNext
  <2>5. IsIter(w[i]) /\ w[i].next = q /\ w[i].prev = live[i].prev
    <3>1. IsIter(live[i])
      BY <2>1 DEF Live
    <3> HIDE DEF w
    <3> QED BY <2>4, <3>1, WriteField
  <2> HIDE DEF w
  <2> QED BY <2>1, <2>2, <2>3, <2>5 DEF Live
<1> QED BY <1>2, <1>3

\* iter_new puts the new iterator in front of the list.
LEMMA LinkFields ==
  ASSUME Live(its), NEW i \in IterIds, i \notin DOMAIN its,
         iter \in DOMAIN its \cup {NULL}
  PROVE  LET w == iter_link(its, i)
         IN  /\ Live(w) /\ DOMAIN w = DOMAIN its \cup {i}
             /\ w[i].prev = NULL /\ w[i].next = iter
             /\ \A j \in DOMAIN its :
                  /\ w[j].prev = IF j = iter THEN i ELSE its[j].prev
                  /\ w[j].next = its[j].next
<1> DEFINE v == list_prev(its, iter, i)
           new == [prev |-> NULL, next |-> iter, n |-> sa.nodes[0], index |-> 0]
           w == [j \in DOMAIN its \cup {i} |-> IF j = i THEN new ELSE v[j]]
<1>1. /\ Live(v) /\ DOMAIN v = DOMAIN its
      /\ \A j \in DOMAIN its :
           /\ v[j].prev = IF j = iter THEN i ELSE its[j].prev
           /\ v[j].next = its[j].next
  BY ListPrev
<1>2. IsIter(new) /\ new.prev = NULL /\ new.next = iter
  BY DEF IsIter
<1>3. iter_link(its, i) = w
  <2>1. v = list_prev(its, iter, i)
    OBVIOUS
  <2> HIDE DEF v
  <2> QED BY <2>1, <1>1 DEF iter_link
<1> HIDE DEF new, v
<1>4. DOMAIN w = DOMAIN its \cup {i} /\ w[i] = new /\ \A j \in DOMAIN its : w[j] = v[j]
  OBVIOUS
<1>5. w = [j \in DOMAIN w |-> w[j]]
  OBVIOUS
<1> HIDE DEF w
<1> QED BY <1>1, <1>2, <1>3, <1>4, <1>5 DEF Live

\* iter_free joins its neighbours.
LEMMA UnlinkFields ==
  ASSUME Live(its), NEW i \in DOMAIN its,
         its[i].prev \in DOMAIN its \cup {NULL},
         its[i].next \in DOMAIN its \cup {NULL}
  PROVE  LET w == iter_unlink(its, i)
         IN  /\ Live(w) /\ DOMAIN w = DOMAIN its \ {i}
             /\ \A j \in DOMAIN its \ {i} :
                  /\ w[j].prev = IF j = its[i].next THEN its[i].prev ELSE its[j].prev
                  /\ w[j].next = IF j = its[i].prev THEN its[i].next ELSE its[j].next
<1> DEFINE prev == its[i].prev
           next == its[i].next
           u == list_next(its, prev, next)
           v == list_prev(u, next, prev)
           w == [j \in DOMAIN its \ {i} |-> v[j]]
<1>1. /\ Live(u) /\ DOMAIN u = DOMAIN its
      /\ \A j \in DOMAIN its :
           /\ u[j].next = IF j = prev THEN next ELSE its[j].next
           /\ u[j].prev = its[j].prev
  <2>1. prev \in DOMAIN its \cup {NULL}
    OBVIOUS
  <2> HIDE DEF prev, next
  <2> QED BY <2>1, ListNext
<1>2. /\ Live(v) /\ DOMAIN v = DOMAIN its
      /\ \A j \in DOMAIN its :
           /\ v[j].prev = IF j = next THEN prev ELSE u[j].prev
           /\ v[j].next = u[j].next
  <2>1. next \in DOMAIN u \cup {NULL}
    BY <1>1
  <2>2. Live(u)
    BY <1>1
  <2> HIDE DEF u, prev, next
  <2>3. /\ Live(list_prev(u, next, prev)) /\ DOMAIN list_prev(u, next, prev) = DOMAIN u
        /\ \A j \in DOMAIN u :
             /\ list_prev(u, next, prev)[j].prev = IF j = next THEN prev ELSE u[j].prev
             /\ list_prev(u, next, prev)[j].next = u[j].next
    BY ONLY <2>1, <2>2, ListPrev
  <2> QED BY <1>1, <2>3
<1>3. iter_unlink(its, i) = w
  BY DEF iter_unlink, Restrict
<1> HIDE DEF u, v
<1>4. DOMAIN w = DOMAIN its \ {i} /\ \A j \in DOMAIN its \ {i} : w[j] = v[j]
  OBVIOUS
<1>5. w = [j \in DOMAIN w |-> w[j]]
  OBVIOUS
<1> HIDE DEF w
<1> QED BY <1>1, <1>2, <1>3, <1>4, <1>5 DEF Live

\* The moves of an iterator leave the list alone.
Placed(live, i, n, index) == [live EXCEPT ![i].n = n, ![i].index = index]

\* Whichever iterator moves, prev and next of all stay as they were.
LEMMA MoveFields ==
  ASSUME Live(its), NEW i \in DOMAIN its, NEW n, NEW index
  PROVE  LET w == Placed(its, i, n, index)
         IN  /\ Live(w) /\ DOMAIN w = DOMAIN its
             /\ \A j \in DOMAIN its :
                  w[j].prev = its[j].prev /\ w[j].next = its[j].next
<1> DEFINE w == [its EXCEPT ![i].n = n, ![i].index = index]
<1>1. DOMAIN w = DOMAIN its /\ w = [j \in DOMAIN w |-> w[j]]
  BY DEF Live
<1>2. \A j \in DOMAIN its : j # i => w[j] = its[j]
  BY DEF Live
<1>3. w[i] = WithPlace(its[i], n, index)
  BY DEF WithPlace
<1>4. IsIter(its[i])
  BY DEF Live
<1>5. /\ IsIter(w[i])
      /\ w[i].prev = its[i].prev /\ w[i].next = its[i].next
  <2> HIDE DEF w
  <2> QED BY <1>3, <1>4, WritePlace
<1> HIDE DEF w
<1>6. Live(w)
  BY <1>1, <1>2, <1>5 DEF Live
<1>7. \A j \in DOMAIN its : w[j].prev = its[j].prev /\ w[j].next = its[j].next
  BY <1>2, <1>5
<1> QED BY <1>1, <1>6, <1>7 DEF w, Placed

-----------------------------------------------------------------------------
(* The list.                                                               *)

\* The neighbours an iterator names are live, or NULL.
LEMMA Neighbours ==
  ASSUME ListInv
  PROVE  /\ NULL \notin DOMAIN its
         /\ iter \in DOMAIN its \cup {NULL}
         /\ (iter = NULL) = (DOMAIN its = {})
         /\ \A i \in DOMAIN its :
              /\ its[i].prev \in DOMAIN its \cup {NULL}
              /\ its[i].next \in DOMAIN its \cup {NULL}
<1>1. PICK m \in Nat : \E list \in [1 .. m -> DOMAIN its] : Strung(its, iter, list, m)
  BY DEF ListInv
<1>2. PICK list \in [1 .. m -> DOMAIN its] : Strung(its, iter, list, m)
  BY <1>1
<1>3. NULL \notin DOMAIN its
  BY SkipArrayIterAssumption DEF ListInv, Live
<1>4. iter \in DOMAIN its \cup {NULL} /\ (iter = NULL) = (DOMAIN its = {})
  <2>1. CASE m = 0
    <3>1. iter = NULL /\ \A i \in DOMAIN its : \E x \in 1 .. m : list[x] = i
      BY <1>2, <2>1 DEF Strung
    <3>2. DOMAIN its = {}
      BY <2>1, <3>1
    <3> QED BY <3>1, <3>2
  <2>2. CASE m # 0
    <3>1. iter = list[1] /\ 1 \in 1 .. m
      BY <1>2, <2>2 DEF Strung
    <3>2. iter \in DOMAIN its
      BY <1>2, <3>1
    <3> QED BY <1>3, <3>2
  <2> QED BY <2>1, <2>2
<1>5. ASSUME NEW i \in DOMAIN its
      PROVE  /\ its[i].prev \in DOMAIN its \cup {NULL}
             /\ its[i].next \in DOMAIN its \cup {NULL}
  <2>1. PICK x \in 1 .. m : list[x] = i
    BY <1>2 DEF Strung
  <2>2. /\ its[i].prev = IF x = 1 THEN NULL ELSE list[x - 1]
        /\ its[i].next = IF x = m THEN NULL ELSE list[x + 1]
    BY <1>2, <2>1 DEF Strung
  <2>3. (x # 1 => x - 1 \in 1 .. m) /\ (x # m => x + 1 \in 1 .. m)
    OBVIOUS
  <2> QED BY <2>2, <2>3
<1> QED BY <1>3, <1>4, <1>5

\* Iterators that only moved hang on the same list.
LEMMA StrungSame ==
  ASSUME ListInv, NEW w, Live(w), DOMAIN w = DOMAIN its,
         \A j \in DOMAIN its : w[j].prev = its[j].prev /\ w[j].next = its[j].next
  PROVE  \E m \in Nat : \E list \in [1 .. m -> DOMAIN w] : Strung(w, iter, list, m)
<1>1. PICK m \in Nat : \E list \in [1 .. m -> DOMAIN its] : Strung(its, iter, list, m)
  BY DEF ListInv
<1>2. PICK list \in [1 .. m -> DOMAIN its] : Strung(its, iter, list, m)
  BY <1>1
<1>3. Strung(w, iter, list, m)
  BY <1>2 DEF Strung
<1> QED BY <1>3

\* A new iterator comes first,
LEMMA StrungNew ==
  ASSUME ListInv, NEW i \in IterIds, i \notin DOMAIN its
  PROVE  LET w == iter_link(its, i)
         IN  \E m \in Nat : \E list \in [1 .. m -> DOMAIN w] : Strung(w, i, list, m)
<1>1. PICK m \in Nat : \E list \in [1 .. m -> DOMAIN its] : Strung(its, iter, list, m)
  BY DEF ListInv
<1>2. PICK list \in [1 .. m -> DOMAIN its] : Strung(its, iter, list, m)
  BY <1>1
<1> DEFINE w == iter_link(its, i)
           longer == [x \in 1 .. m + 1 |-> IF x = 1 THEN i ELSE list[x - 1]]
<1>3. /\ DOMAIN w = DOMAIN its \cup {i}
      /\ w[i].prev = NULL /\ w[i].next = iter
      /\ \A j \in DOMAIN its :
           /\ w[j].prev = IF j = iter THEN i ELSE its[j].prev
           /\ w[j].next = its[j].next
  BY Neighbours, LinkFields DEF ListInv
<1> HIDE DEF w
<1>4. longer \in [1 .. m + 1 -> DOMAIN w]
  BY <1>2, <1>3
<1>5. \A x \in 2 .. m + 1 : x - 1 \in 1 .. m /\ longer[x] = list[x - 1]
  OBVIOUS
<1>6. longer[1] = i
  OBVIOUS
<1> HIDE DEF longer
<1>7. ASSUME NEW x \in 1 .. m + 1, NEW y \in 1 .. m + 1, longer[x] = longer[y]
      PROVE  x = y
  <2>1. \A z \in 2 .. m + 1 : longer[z] # i
    BY <1>2, <1>5
  <2>2. CASE x = 1 \/ y = 1
    BY <1>6, <1>7, <2>1, <2>2
  <2>3. CASE x # 1 /\ y # 1
    <3>1. x - 1 \in 1 .. m /\ y - 1 \in 1 .. m /\ list[x - 1] = list[y - 1]
      BY <1>5, <1>7, <2>3
    <3>2. x - 1 = y - 1
      BY <1>2, <3>1 DEF Strung
    <3> QED BY <3>2
  <2> QED BY <2>2, <2>3
<1>8. ASSUME NEW j \in DOMAIN w
      PROVE  \E x \in 1 .. m + 1 : longer[x] = j
  <2>1. CASE j = i
    BY <1>6, <2>1
  <2>2. CASE j # i
    <3>1. PICK x \in 1 .. m : list[x] = j
      BY <1>2, <1>3, <2>2 DEF Strung
    <3>2. x + 1 \in 2 .. m + 1 /\ (x + 1) - 1 = x
      OBVIOUS
    <3>3. longer[x + 1] = j
      BY <1>5, <3>1, <3>2
    <3> QED BY <3>2, <3>3
  <2> QED BY <2>1, <2>2
<1>9. ASSUME NEW x \in 1 .. m + 1
      PROVE  /\ w[longer[x]].prev = IF x = 1 THEN NULL ELSE longer[x - 1]
             /\ w[longer[x]].next = IF x = m + 1 THEN NULL ELSE longer[x + 1]
  <2>1. CASE x = 1
    <3>1. w[longer[x]].prev = NULL /\ w[longer[x]].next = iter
      BY <1>3, <1>6, <2>1
    <3>2. iter = IF m = 0 THEN NULL ELSE longer[2]
      BY <1>2, <1>5 DEF Strung
    <3> QED BY <2>1, <3>1, <3>2
  <2>2. CASE x # 1
    <3>1. x - 1 \in 1 .. m /\ longer[x] = list[x - 1] /\ list[x - 1] \in DOMAIN its
      BY <1>2, <1>5, <2>2
    <3>2. /\ its[longer[x]].prev = IF x - 1 = 1 THEN NULL ELSE list[(x - 1) - 1]
          /\ its[longer[x]].next = IF x - 1 = m THEN NULL ELSE list[(x - 1) + 1]
      BY <1>2, <3>1 DEF Strung
    <3>3. longer[x] = iter <=> x = 2
      BY <1>2, <3>1 DEF Strung
    <3>4. CASE x = 2
      BY <1>3, <1>5, <1>6, <3>1, <3>2, <3>3, <3>4
    <3>5. CASE x # 2
      <4>1. x - 1 \in 2 .. m + 1
        BY <2>2, <3>5
      <4> QED BY <1>3, <1>5, <3>1, <3>2, <3>3, <3>5, <4>1
    <3> QED BY <3>4, <3>5
  <2> QED BY <2>1, <2>2
<1>10. Strung(w, i, longer, m + 1)
  BY <1>4, <1>6, <1>7, <1>8, <1>9 DEF Strung
<1> QED BY <1>4, <1>10 DEF w

\* and a freed one closes the gap it leaves, from wherever it is.
LEMMA StrungFree ==
  ASSUME ListInv, NEW i \in DOMAIN its
  PROVE  LET w == iter_unlink(its, i)
         IN  \E m \in Nat : \E list \in [1 .. m -> DOMAIN w] :
               Strung(w, iter_head(its, i), list, m)
<1>1. PICK m \in Nat : \E list \in [1 .. m -> DOMAIN its] : Strung(its, iter, list, m)
  BY DEF ListInv
<1>2. PICK list \in [1 .. m -> DOMAIN its] : Strung(its, iter, list, m)
  BY <1>1
<1>3. PICK p \in 1 .. m : list[p] = i
  BY <1>2 DEF Strung
<1> DEFINE w == iter_unlink(its, i)
           old(x) == IF x < p THEN x ELSE x + 1
           shorter == [x \in 1 .. m - 1 |-> list[old(x)]]
<1>4. /\ DOMAIN w = DOMAIN its \ {i}
      /\ \A j \in DOMAIN its \ {i} :
           /\ w[j].prev = IF j = its[i].next THEN its[i].prev ELSE its[j].prev
           /\ w[j].next = IF j = its[i].prev THEN its[i].next ELSE its[j].next
  BY Neighbours, UnlinkFields DEF ListInv
<1> HIDE DEF w
<1>5. /\ its[i].prev = IF p = 1 THEN NULL ELSE list[p - 1]
      /\ its[i].next = IF p = m THEN NULL ELSE list[p + 1]
  BY <1>2, <1>3 DEF Strung
<1>6. NULL \notin DOMAIN its
  BY Neighbours
<1>7. \A x, y \in 1 .. m : (list[x] = list[y]) = (x = y)
  BY <1>2 DEF Strung
<1>8. \A x \in 1 .. m - 1 : old(x) \in 1 .. m /\ old(x) # p
  OBVIOUS
<1>9. \A x, y \in 1 .. m - 1 : old(x) = old(y) => x = y
  OBVIOUS
<1>10. \A y \in 1 .. m : y # p => \E x \in 1 .. m - 1 : old(x) = y
  <2>1. ASSUME NEW y \in 1 .. m, y # p
        PROVE  \E x \in 1 .. m - 1 : old(x) = y
    <3>1. CASE y < p
      <4>1. y \in 1 .. m - 1 /\ old(y) = y
        BY <3>1
      <4> QED BY <4>1
    <3>2. CASE y > p
      <4>1. y - 1 \in 1 .. m - 1 /\ old(y - 1) = y
        BY <3>2
      <4> QED BY <4>1
    <3> QED BY <2>1, <3>1, <3>2
  <2> QED BY <2>1
<1>11. \A x \in 1 .. m - 1 : shorter[x] = list[old(x)]
  OBVIOUS
<1>12. \A x \in 1 .. m - 1 : shorter[x] \in DOMAIN w
  <2> HIDE DEF old, shorter
  <2> QED BY <1>2, <1>3, <1>4, <1>7, <1>8, <1>11
<1>13. shorter \in [1 .. m - 1 -> DOMAIN w]
  <2> HIDE DEF old
  <2> QED BY <1>12
<1>14. \A x, y \in 1 .. m - 1 : shorter[x] = shorter[y] => x = y
  <2> HIDE DEF old, shorter
  <2> QED BY <1>7, <1>8, <1>9, <1>11
<1>15. \A j \in DOMAIN w : \E x \in 1 .. m - 1 : shorter[x] = j
  <2>1. ASSUME NEW j \in DOMAIN w
        PROVE  \E x \in 1 .. m - 1 : shorter[x] = j
    <3>1. PICK y \in 1 .. m : list[y] = j
      BY <1>2, <1>4 DEF Strung
    <3>2. y # p
      BY <1>3, <1>4, <3>1
    <3> HIDE DEF old, shorter
    <3>3. PICK x \in 1 .. m - 1 : old(x) = y
      BY <1>10, <3>2
    <3> QED BY <1>11, <3>1, <3>3
  <2> QED BY <2>1
<1> HIDE DEF shorter
<1>16. iter_head(its, i) = IF m - 1 = 0 THEN NULL ELSE shorter[1]
  <2>1. CASE p = 1
    <3>1. iter_head(its, i) = IF p = m THEN NULL ELSE list[p + 1]
      BY <1>5, <2>1 DEF iter_head
    <3>2. p # m => 1 \in 1 .. m - 1 /\ shorter[1] = list[2]
      BY <1>11, <2>1
    <3> QED BY <2>1, <3>1, <3>2
  <2>2. CASE p # 1
    <3>1. p - 1 \in 1 .. m /\ list[p - 1] \in DOMAIN its
      BY <1>2, <2>2
    <3>2. iter_head(its, i) = iter
      BY <1>5, <1>6, <2>2, <3>1 DEF iter_head
    <3>3. iter = list[1]
      BY <1>2 DEF Strung
    <3>4. m - 1 # 0 /\ shorter[1] = list[1]
      BY <1>11, <2>2
    <3> QED BY <3>2, <3>3, <3>4
  <2> QED BY <2>1, <2>2
<1>17. ASSUME NEW x \in 1 .. m - 1
       PROVE  /\ w[shorter[x]].prev = IF x = 1 THEN NULL ELSE shorter[x - 1]
              /\ w[shorter[x]].next = IF x = m - 1 THEN NULL ELSE shorter[x + 1]
  <2> DEFINE y == old(x)
             j == list[y]
  <2>1. y \in 1 .. m /\ y # p /\ j = shorter[x] /\ j \in DOMAIN its \ {i}
    BY <1>2, <1>3, <1>7, <1>8, <1>11
  <2>2. /\ its[j].prev = IF y = 1 THEN NULL ELSE list[y - 1]
        /\ its[j].next = IF y = m THEN NULL ELSE list[y + 1]
    <3> HIDE DEF y
    <3> QED BY <1>2, <2>1 DEF Strung
  <2>3. (j = its[i].next) = (y = p + 1)
    <3> HIDE DEF y
    <3>1. CASE p = m
      BY <1>5, <1>6, <2>1, <3>1
    <3>2. CASE p # m
      BY <1>5, <1>7, <2>1, <3>2
    <3> QED BY <3>1, <3>2
  <2>4. (j = its[i].prev) = (y = p - 1)
    <3> HIDE DEF y
    <3>1. CASE p = 1
      BY <1>5, <1>6, <2>1, <3>1
    <3>2. CASE p # 1
      BY <1>5, <1>7, <2>1, <3>2
    <3> QED BY <3>1, <3>2
  <2>5. w[j].prev = IF x = 1 THEN NULL ELSE shorter[x - 1]
    <3>1. x # 1 => x - 1 \in 1 .. m - 1 /\ shorter[x - 1] = list[old(x - 1)]
      BY <1>11
    <3>2. CASE y = p + 1
      <4>1. x = p
        BY <3>2
      <4>2. w[j].prev = IF p = 1 THEN NULL ELSE list[p - 1]
        BY <1>4, <1>5, <2>1, <2>3, <3>2
      <4>3. x # 1 => old(x - 1) = p - 1
        BY <4>1
      <4> QED BY <3>1, <4>1, <4>2, <4>3
    <3>3. CASE y # p + 1
      <4>1. w[j].prev = IF y = 1 THEN NULL ELSE list[y - 1]
        BY <1>4, <2>1, <2>2, <2>3, <3>3
      <4>2. (x = 1) = (y = 1) /\ (x # 1 => old(x - 1) = y - 1)
        BY <2>1, <3>3
      <4> QED BY <3>1, <4>1, <4>2
    <3> QED BY <3>2, <3>3
  <2>6. w[j].next = IF x = m - 1 THEN NULL ELSE shorter[x + 1]
    <3>1. x # m - 1 => x + 1 \in 1 .. m - 1 /\ shorter[x + 1] = list[old(x + 1)]
      BY <1>11
    <3>2. CASE y = p - 1
      <4>1. x = p - 1
        BY <3>2
      <4>2. w[j].next = IF p = m THEN NULL ELSE list[p + 1]
        BY <1>4, <1>5, <2>1, <2>4, <3>2
      <4>3. x # m - 1 => old(x + 1) = p + 1
        BY <4>1
      <4> QED BY <3>1, <4>1, <4>2, <4>3
    <3>3. CASE y # p - 1
      <4>1. w[j].next = IF y = m THEN NULL ELSE list[y + 1]
        BY <1>4, <2>1, <2>2, <2>4, <3>3
      <4>2. (x = m - 1) = (y = m) /\ (x # m - 1 => old(x + 1) = y + 1)
        BY <2>1, <3>3
      <4> QED BY <3>1, <4>1, <4>2
    <3> QED BY <3>2, <3>3
  <2> QED BY <2>1, <2>5, <2>6
<1>18. m - 1 \in Nat
  OBVIOUS
<1>19. Strung(w, iter_head(its, i), shorter, m - 1)
  BY <1>13, <1>14, <1>15, <1>16, <1>17, <1>18 DEF Strung
<1> QED BY <1>13, <1>18, <1>19 DEF w

-----------------------------------------------------------------------------
(* The calls.                                                              *)

\* No call of SkipArray touches the list of iterators, and none changes a
\* node while there is one: it looks, or it has seen that sa->iter is NULL.
LEMMA CallsKeepList ==
  ASSUME Next
  PROVE  UNCHANGED iter /\ (iter # NULL => UNCHANGED sa)
<1>1. /\ \A shape, res, pair : Reshape(shape, res, pair) => iter = NULL /\ UNCHANGED iter
      /\ \A res, pair : Look(res, pair) => UNCHANGED <<sa, iter>>
      /\ \A res : Refuse(res) => UNCHANGED <<sa, iter>>
  BY DEF Reshape, Look, Refuse, has_iterators
<1>2. CASE \E pair \in Pair, replace_key \in BOOLEAN : Set(pair, replace_key)
  BY <1>1, <1>2 DEF Set
<1>3. CASE \E key \in Keys : Forget(key)
  BY <1>1, <1>3 DEF Forget
<1>4. CASE PopFirst
  BY <1>1, <1>4 DEF PopFirst
<1>5. CASE PopLast
  BY <1>1, <1>5 DEF PopLast
<1>6. CASE \E key \in Keys : Get(key)
  BY <1>1, <1>6 DEF Get
<1>7. CASE CountPairs \/ FirstPair \/ LastPair
  BY <1>1, <1>7 DEF CountPairs, FirstPair, LastPair
<1> QED BY <1>2, <1>3, <1>4, <1>5, <1>6, <1>7 DEF Next

\* What the step of an iterator does to the iterators and the list: it links,
\* unlinks or moves one, or leaves all alone; it never changes a node.
LEMMA IterCalls ==
  ASSUME IterStep
  PROVE  /\ UNCHANGED sa
         /\ \/ UNCHANGED <<its, iter>>
            \/ \E i \in IterIds : /\ i \notin DOMAIN its
                                  /\ its' = iter_link(its, i) /\ iter' = i
            \/ \E i \in DOMAIN its : /\ its' = iter_unlink(its, i)
                                     /\ iter' = iter_head(its, i)
            \/ /\ UNCHANGED iter
               /\ \E i \in DOMAIN its : \E n, index :
                    its' = [its EXCEPT ![i].n = n, ![i].index = index]
<1> DEFINE moves(i) ==
             /\ UNCHANGED <<sa, iter>>
             /\ \E n, index : its' = [its EXCEPT ![i].n = n, ![i].index = index]
           still == UNCHANGED <<sa, iter, its>>
<1>1. /\ \A i, n, index, res : Move(i, n, index, res) => moves(i)
      /\ \A res, pair : Look(res, pair) => UNCHANGED <<sa, iter>>
      /\ \A res : Refuse(res) => UNCHANGED <<sa, iter>>
  BY DEF Move, Refuse, Look
<1>2. ASSUME NEW i \in IterIds, IterNew(i)
      PROVE  \/ still
             \/ /\ i \notin DOMAIN its /\ UNCHANGED sa
                /\ its' = iter_link(its, i) /\ iter' = i
  BY <1>1, <1>2 DEF IterNew
<1>3. ASSUME NEW i \in DOMAIN its, IterFree(i)
      PROVE  its' = iter_unlink(its, i) /\ iter' = iter_head(its, i) /\ UNCHANGED sa
  BY <1>3 DEF IterFree
<1>4. ASSUME NEW i \in DOMAIN its,
             \/ \E end \in {"FIRST", "LAST"} : IterSeekEndpoint(i, end)
             \/ \E key \in Keys : IterSeek(i, key)
             \/ IterNext(i)
             \/ IterPrev(i)
             \/ IterGet(i)
      PROVE  moves(i) \/ still
  <2> HIDE DEF moves
  <2>1. CASE \E end \in {"FIRST", "LAST"} : IterSeekEndpoint(i, end)
    BY <1>1, <2>1 DEF IterSeekEndpoint
  <2>2. CASE \E key \in Keys : IterSeek(i, key)
    BY <1>1, <2>2 DEF IterSeek, SeekBehind
  <2>3. CASE IterNext(i)
    BY <1>1, <2>3 DEF IterNext
  <2>4. CASE IterPrev(i)
    BY <1>1, <2>4 DEF IterPrev
  <2>5. CASE IterGet(i)
    BY <1>1, <2>5 DEF IterGet
  <2> QED BY <1>4, <2>1, <2>2, <2>3, <2>4, <2>5
<1>5. CASE \E i \in IterIds : IterNew(i)
  BY <1>2, <1>5
<1>6. CASE \E i \in DOMAIN its : IterFree(i)
  BY <1>3, <1>6
<1>7. CASE \E i \in DOMAIN its : moves(i) \/ still
  BY <1>7
<1> QED BY <1>4, <1>5, <1>6, <1>7 DEF IterStep

\* Every step leaves the live iterators on one list.
LEMMA ListStep ==
  ASSUME ListInv, [IterNextState]_iterVars
  PROVE  ListInv'
<1> DEFINE Hangs(live, head) ==
             \E m \in Nat : \E list \in [1 .. m -> DOMAIN live] :
               Strung(live, head, list, m)
<1>1. Live(its) /\ Hangs(its, iter)
  BY DEF ListInv
<1>2. SUFFICES Live(its') /\ Hangs(its', iter')
  BY DEF ListInv, Live
<1>3. CASE UNCHANGED <<its, iter>>
  BY <1>1, <1>3
<1>4. ASSUME NEW i \in IterIds, i \notin DOMAIN its,
             its' = iter_link(its, i), iter' = i
      PROVE  Live(its') /\ Hangs(its', iter')
  <2>1. Live(iter_link(its, i))
    BY <1>1, <1>4, LinkFields, Neighbours
  <2>2. Hangs(iter_link(its, i), i)
    BY <1>4, StrungNew
  <2> HIDE DEF Hangs
  <2> QED BY <1>4, <2>1, <2>2
<1>5. ASSUME NEW i \in DOMAIN its,
             its' = iter_unlink(its, i), iter' = iter_head(its, i)
      PROVE  Live(its') /\ Hangs(its', iter')
  <2>1. Live(iter_unlink(its, i))
    BY <1>1, <1>5, UnlinkFields, Neighbours
  <2>2. Hangs(iter_unlink(its, i), iter_head(its, i))
    BY <1>5, StrungFree
  <2> HIDE DEF Hangs
  <2> QED BY <1>5, <2>1, <2>2
<1>6. ASSUME UNCHANGED iter, NEW i \in DOMAIN its, NEW n, NEW index,
             its' = [its EXCEPT ![i].n = n, ![i].index = index]
      PROVE  Live(its') /\ Hangs(its', iter')
  <2> DEFINE w == Placed(its, i, n, index)
  <2>1. /\ Live(w) /\ DOMAIN w = DOMAIN its
        /\ \A j \in DOMAIN its : w[j].prev = its[j].prev /\ w[j].next = its[j].next
    BY <1>1, MoveFields
  <2>2. its' = w
    BY <1>6 DEF Placed
  <2> HIDE DEF w
  <2>3. Hangs(w, iter)
    BY <2>1, StrungSame
  <2> HIDE DEF Hangs
  <2> QED BY <1>6, <2>1, <2>2, <2>3
<1>7. CASE Next /\ UNCHANGED its
  BY <1>3, <1>7, CallsKeepList
<1>8. CASE IterStep
  <2> HIDE DEF Hangs
  <2> QED BY <1>3, <1>4, <1>5, <1>6, <1>8, IterCalls
<1>9. CASE UNCHANGED iterVars
  BY <1>3, <1>9 DEF iterVars
<1> QED BY <1>7, <1>8, <1>9 DEF IterNextState

\* A map starts with no iterator.
LEMMA ListInit == IterInit => ListInv
<1> SUFFICES ASSUME IterInit PROVE ListInv
  OBVIOUS
<1>1. its = [i \in {} |-> 0] /\ iter = NULL
  BY DEF IterInit, Init
<1>2. Live(its) /\ DOMAIN its = {}
  BY <1>1 DEF Live
<1> DEFINE list == [x \in 1 .. 0 |-> 0]
<1>3. list \in [1 .. 0 -> DOMAIN its] /\ 0 \in Nat
  OBVIOUS
<1>4. Strung(its, iter, list, 0)
  BY <1>1, <1>2, <1>3 DEF Strung
<1> QED BY <1>2, <1>3, <1>4 DEF ListInv

\* The list is well formed after any number of calls.
LEMMA ListAlways == IterSpec => []ListInv
<1>1. ListInv /\ [IterNextState]_iterVars => ListInv'
  BY ListStep
<1> QED BY <1>1, ListInit, PTL DEF IterSpec

\* While any iterator is live, no call of any kind changes a node: the calls
\* of the map that would have seen sa->iter, and those of the iterators never
\* do.
THEOREM IteratorsLockTheMap == IterSpec => LockHolds
<1>1. ListInv /\ [IterNextState]_iterVars
        => [DOMAIN its # {} => sa' = sa]_iterVars
  <2> SUFFICES ASSUME ListInv, IterNextState, DOMAIN its # {}
               PROVE  sa' = sa
    BY DEF iterVars
  <2>1. iter # NULL
    BY Neighbours
  <2>2. CASE Next
    BY <2>1, <2>2, CallsKeepList
  <2>3. CASE IterStep
    BY <2>3, IterCalls
  <2> QED BY <2>2, <2>3 DEF IterNextState
<1> QED BY <1>1, ListAlways, PTL DEF IterSpec, LockHolds

-----------------------------------------------------------------------------
(* Following the list from sa->iter.                                       *)

\* One step of IterList: i itself, and what follows it if it is live.
ListedAfter(from, i, left) ==
  from[<<i, left>>] =
    IF i = NULL \/ left = 0 THEN << >>
    ELSE <<i>> \o (IF i \in DOMAIN its THEN from[<<its[i].next, left - 1>>]
                                       ELSE << >>)

\* The recursion that IterList follows has an answer everywhere, and IterList
\* is what it answers at sa->iter.
LEMMA IterListUnfolds ==
  ASSUME ListInv
  PROVE  \E from : /\ IterList = from[<<iter, Cardinality(DOMAIN its) + 1>>]
                   /\ \A i \in Nat, left \in Nat : ListedAfter(from, i, left)
<1> DEFINE body(f) == [at \in Nat \X Nat |->
             IF at[1] = NULL \/ at[2] = 0 THEN << >>
             ELSE <<at[1]>> \o (IF at[1] \in DOMAIN its
                                THEN f[<<its[at[1]].next, at[2] - 1>>]
                                ELSE << >>)]
           Is(f) == f = body(f)
<1>1. \E f : Is(f)
  <2> DEFINE S == [Nat -> Seq(Nat)]
             base == [i \in Nat |-> << >>]
             next(g, i) == IF i \in DOMAIN its THEN g[its[i].next] ELSE << >>
             row(g) == [i \in Nat |-> IF i = NULL THEN << >> ELSE <<i>> \o next(g, i)]
             step == [p \in Nat \X S |-> row(p[2])]
  <2>1. \A i \in DOMAIN its : its[i].next \in Nat
    BY Neighbours, SkipArrayIterAssumption DEF ListInv, Live, NULL
  <2>2. base \in S
    OBVIOUS
  <2>3. \A g \in S : row(g) \in S
    <3>1. ASSUME NEW g \in S, NEW i \in Nat
          PROVE  (IF i = NULL THEN << >> ELSE <<i>> \o next(g, i)) \in Seq(Nat)
      <4>1. next(g, i) \in Seq(Nat) /\ <<i>> \in Seq(Nat) /\ << >> \in Seq(Nat)
        BY <2>1
      <4> HIDE DEF next
      <4> QED BY <4>1, ConcatProperties
    <3> HIDE DEF next
    <3> QED BY <3>1
  <2>4. step \in [Nat \X S -> S]
    <3> HIDE DEF row, S
    <3> QED BY <2>3
  <2>5. PICK f \in [Nat -> S] : \A m \in Nat : Recurs(f, m, base, step)
    <3> HIDE DEF step, base, S
    <3> QED BY <2>2, <2>4, RecursionExists
  <2> DEFINE g == [at \in Nat \X Nat |-> f[at[2]][at[1]]]
  <2>6. ASSUME NEW i \in Nat, NEW left \in Nat
        PROVE  f[left][i] = IF i = NULL \/ left = 0 THEN << >>
                            ELSE <<i>> \o (IF i \in DOMAIN its
                                           THEN g[<<its[i].next, left - 1>>]
                                           ELSE << >>)
    <3>1. CASE left = 0
      <4>1. f[0] = base
        BY <2>5 DEF Recurs
      <4> QED BY <3>1, <4>1
    <3>2. CASE left # 0
      <4>1. left - 1 \in Nat /\ left - 1 \in 0 .. left - 1 /\ (left - 1) + 1 = left
        BY <3>2
      <4>2. f[left] = step[<<left - 1, f[left - 1]>>]
        <5>1. Recurs(f, left, base, step)
          BY <2>5
        <5> HIDE DEF base, step
        <5> QED BY <4>1, <5>1 DEF Recurs
      <4>3. f[left - 1] \in S
        BY <4>1, <2>5
      <4>4. step[<<left - 1, f[left - 1]>>] = row(f[left - 1])
        <5>1. <<left - 1, f[left - 1]>> \in Nat \X S
          BY <4>1, <4>3
        <5> HIDE DEF row, S
        <5> QED BY <5>1
      <4>5. f[left][i] = IF i = NULL THEN << >> ELSE <<i>> \o next(f[left - 1], i)
        <5> HIDE DEF next, step
        <5> QED BY <4>2, <4>4
      <4>6. next(f[left - 1], i) =
              IF i \in DOMAIN its THEN g[<<its[i].next, left - 1>>] ELSE << >>
        BY <2>1, <4>1
      <4> HIDE DEF next, g
      <4> QED BY <3>2, <4>5, <4>6
    <3> QED BY <3>1, <3>2
  <2>7. Is(g)
    BY <2>6
  <2> HIDE DEF Is, g
  <2> QED BY <2>7
<1> DEFINE from == CHOOSE f : Is(f)
<1>2. Is(from)
  BY <1>1
<1>3. IterList = from[<<iter, Cardinality(DOMAIN its) + 1>>]
  BY DEF IterList
<1> HIDE DEF from
<1>4. \A i \in Nat, left \in Nat : ListedAfter(from, i, left)
  BY <1>2, Zenon DEF ListedAfter
<1> QED BY <1>3, <1>4

\* So it visits the whole list, in order: what is met from the place k before
\* the end is the last k iterators.
LEMMA IterListIs ==
  ASSUME ListInv
  PROVE  \E m \in Nat : \E list \in [1 .. m -> DOMAIN its] :
           /\ Strung(its, iter, list, m)
           /\ Cardinality(DOMAIN its) = m
           /\ IterList = list
<1>1. PICK m \in Nat : \E list \in [1 .. m -> DOMAIN its] : Strung(its, iter, list, m)
  BY DEF ListInv
<1>2. PICK list \in [1 .. m -> DOMAIN its] : Strung(its, iter, list, m)
  BY <1>1
<1>3. Cardinality(DOMAIN its) = m
  <2>1. IsFiniteSet(1 .. m) /\ Cardinality(1 .. m) = m
    BY FS_Interval
  <2>2. list \in Bijection(1 .. m, DOMAIN its)
    BY <1>2 DEF Strung, Bijection, Injection, Surjection, IsInjective
  <2>3. ExistsBijection(1 .. m, DOMAIN its)
    BY <2>2 DEF ExistsBijection
  <2> QED BY <2>1, <2>3, FS_Bijection
<1>4. PICK from : /\ IterList = from[<<iter, m + 1>>]
                  /\ \A i \in Nat, left \in Nat : ListedAfter(from, i, left)
  BY <1>3, IterListUnfolds
<1>5. DOMAIN its \subseteq Nat /\ NULL \notin DOMAIN its /\ NULL \in Nat
  BY SkipArrayIterAssumption DEF ListInv, Live, NULL
<1> DEFINE head(k) == IF k = 0 THEN NULL ELSE list[m - k + 1]
           tail(k) == [x \in 1 .. k |-> list[m - k + x]]
           T == {k \in Nat : k <= m => from[<<head(k), k + 1>>] = tail(k)}
<1>6. 0 \in T
  <2>1. ListedAfter(from, NULL, 1)
    BY <1>4, <1>5
  <2>2. from[<<NULL, 1>>] = << >>
    BY <2>1 DEF ListedAfter
  <2>3. tail(0) = << >>
    OBVIOUS
  <2> QED BY <2>2, <2>3
<1>7. ASSUME NEW k \in Nat, k \in T
      PROVE  k + 1 \in T
  <2>1. SUFFICES ASSUME k + 1 <= m
                 PROVE  from[<<head(k + 1), (k + 1) + 1>>] = tail(k + 1)
    <3> HIDE DEF head, tail
    <3> QED OBVIOUS
  <2> DEFINE i == list[m - k]
  <2>2. m - k \in 1 .. m /\ i \in DOMAIN its /\ head(k + 1) = i
    BY <1>2, <2>1
  <2>3. its[i].next = head(k)
    <3>1. its[i].next = IF m - k = m THEN NULL ELSE list[(m - k) + 1]
      BY <1>2, <2>2 DEF Strung
    <3> QED BY <3>1
  <2>4. from[<<head(k), k + 1>>] = tail(k)
    BY <1>7, <2>1
  <2> HIDE DEF head
  <2>5. from[<<i, (k + 1) + 1>>] = <<i>> \o tail(k)
    <3> HIDE DEF i, tail
    <3>1. ListedAfter(from, i, (k + 1) + 1)
      BY <1>4, <1>5, <2>2
    <3>2. i # NULL /\ (k + 1) + 1 # 0 /\ ((k + 1) + 1) - 1 = k + 1
      BY <1>5, <2>2
    <3> QED BY <2>2, <2>3, <2>4, <3>1, <3>2 DEF ListedAfter
  <2>6. <<i>> \o tail(k) = tail(k + 1)
    <3>1. tail(k) \in Seq(DOMAIN its) /\ Len(tail(k)) = k
      BY <1>2, <2>1
    <3>2. tail(k + 1) \in Seq(DOMAIN its) /\ Len(tail(k + 1)) = k + 1
      BY <1>2, <2>1
    <3>3. /\ <<i>> \in Seq(DOMAIN its)
          /\ Len(<<i>>) = 1 /\ <<i>>[1] = i
      BY <2>2
    <3>4. /\ tail(k + 1)[1] = i
          /\ \A x \in 2 .. k + 1 : tail(k + 1)[x] = tail(k)[x - 1]
      <4>1. \A x \in 2 .. k + 1 : x \in 1 .. k + 1 /\ x - 1 \in 1 .. k
                                  /\ m - (k + 1) + x = m - k + (x - 1)
        OBVIOUS
      <4>2. m - (k + 1) + 1 = m - k
        OBVIOUS
      <4> QED BY <4>1, <4>2
    <3> HIDE DEF tail, i
    <3>5. /\ <<i>> \o tail(k) \in Seq(DOMAIN its)
          /\ Len(<<i>> \o tail(k)) = k + 1
          /\ \A x \in 1 .. k + 1 :
               (<<i>> \o tail(k))[x] = IF x = 1 THEN i ELSE tail(k)[x - 1]
      BY <3>1, <3>3, ConcatProperties
    <3> DEFINE u == <<i>> \o tail(k)
    <3> HIDE DEF u
    <3>6. u \in Seq(DOMAIN its) /\ Len(u) = k + 1
          /\ \A x \in 1 .. k + 1 : u[x] = IF x = 1 THEN i ELSE tail(k)[x - 1]
      BY <3>5 DEF u
    <3>7. \A x \in 1 .. k + 1 : u[x] = tail(k + 1)[x]
      BY <3>4, <3>6
    <3>8. u = tail(k + 1)
      BY <3>2, <3>6, <3>7, SeqEqual
    <3> QED BY <3>8 DEF u
  <2> QED BY <2>2, <2>5, <2>6
<1>8. Nat \subseteq T
  <2> HIDE DEF T
  <2> QED BY <1>6, <1>7, NaturalsInSet
<1>9. from[<<head(m), m + 1>>] = tail(m)
  BY <1>8
<1>10. tail(m) = list
  BY <1>2
<1>11. head(m) = iter
  BY <1>2 DEF Strung
<1>12. IterList = list
  <2> HIDE DEF head, tail, T
  <2> QED BY <1>4, <1>9, <1>10, <1>11
<1> QED BY <1>2, <1>3, <1>12

\* Whatever iterators are created and freed, in whatever order, the list from
\* sa->iter holds exactly the live ones, and prev is the reverse of next.
THEOREM IteratorsOnOneList == IterSpec => []IterListExact
<1>1. ListInv => IterListExact
  <2> SUFFICES ASSUME ListInv PROVE IterListExact
    OBVIOUS
  <2>1. PICK m \in Nat : \E list \in [1 .. m -> DOMAIN its] :
           /\ Strung(its, iter, list, m)
           /\ Cardinality(DOMAIN its) = m
           /\ IterList = list
    BY IterListIs
  <2>2. PICK list \in [1 .. m -> DOMAIN its] :
           /\ Strung(its, iter, list, m)
           /\ Cardinality(DOMAIN its) = m
           /\ IterList = list
    BY <2>1
  <2>3. DOMAIN list = 1 .. m /\ Len(list) = m
    OBVIOUS
  <2>4. ToSet(list) = DOMAIN its
    <3>1. /\ \A x \in 1 .. m : list[x] \in DOMAIN its
          /\ \A i \in DOMAIN its : \E x \in 1 .. m : list[x] = i
      BY <2>2 DEF Strung
    <3>2. ToSet(list) = {list[x] : x \in 1 .. m}
      BY <2>3 DEF ToSet
    <3> QED BY <3>1, <3>2
  <2>5. \A x \in DOMAIN list : its[list[x]].prev = IF x = 1 THEN NULL ELSE list[x - 1]
    BY <2>2, <2>3 DEF Strung
  <2> QED BY <2>2, <2>3, <2>4, <2>5 DEF IterListExact
<1> QED BY <1>1, ListAlways, PTL

-----------------------------------------------------------------------------
(* Where iterators are.                                                    *)

\* The index of n is that of a pair, or the one behind the last pair of all.
Spot(n, index) ==
  /\ n \in Nodes /\ index \in Nat
  /\ \/ index < Count(sa, n)
     \/ sa.heap[n].fwd[0] = NULL /\ index = Count(sa, n)

\* The inductive invariant: as long as an iterator is live every node has
\* pairs, so that moving to the first or the last one of a node finds a pair.
SpotInv ==
  /\ IsSound(sa)
  /\ DOMAIN its # {} => \A n \in Nodes : Count(sa, n) > 0
  /\ \A i \in DOMAIN its : Spot(its[i].n, its[i].index)

\* The links of level 0 lead to nodes.
LEMMA NeighboursThere ==
  ASSUME NEW r, Sound(sa, r), NEW n \in Nodes
  PROVE  /\ sa.heap[n].fwd[0] # NULL => sa.heap[n].fwd[0] \in Nodes
         /\ sa.heap[n].back # NULL => sa.heap[n].back \in Nodes
         /\ Count(sa, n) \in Nat
<1>1. /\ OnLevel(sa, 0) = Nodes /\ 0 \in LevelSet /\ n # NULL
      /\ Follows(r, OnLevel(sa, 0), n, After(sa, n, 0))
  BY FormedFacts DEF Sound, Nodes
<1>2. After(sa, n, 0) = sa.heap[n].fwd[0]
  BY <1>1 DEF After
<1>3. InFront(r, Nodes, sa.heap[n].back, n)
  BY DEF Sound, Formed, Backed, Nodes
<1>4. Count(sa, n) \in Nat
  BY PairsType DEF Sound, Formed, Nodes
<1> QED BY <1>1, <1>2, <1>3, <1>4 DEF Follows, InFront

\* skiparray_iter_new refuses a skiparray without pairs.
LEMMA NoneEmpty ==
  ASSUME NEW r, Sound(sa, r),
         ~(sa.heap[sa.nodes[0]].fwd[0] = NULL /\ Count(sa, sa.nodes[0]) = 0)
  PROVE  \A n \in Nodes : Count(sa, n) > 0
<1> SUFFICES ASSUME NEW n \in Nodes, Count(sa, n) = 0
             PROVE  FALSE
  BY NeighboursThere
<1>1. DOMAIN sa.heap = {n}
  BY DEF Sound, Filled, Nodes
<1>2. sa.nodes[0] = n
  BY <1>1, HeadIsThere DEF Sound
<1>3. sa.heap[n].fwd[0] = NULL
  <2>1. /\ OnLevel(sa, 0) = {n} /\ n # NULL /\ 0 \in LevelSet /\ r[n] \in Nat
        /\ Follows(r, OnLevel(sa, 0), n, After(sa, n, 0))
    BY <1>1, FormedFacts DEF Sound
  <2>2. After(sa, n, 0) = sa.heap[n].fwd[0]
    BY <2>1 DEF After
  <2> QED BY <2>1, <2>2 DEF Follows, Behind
<1> QED BY <1>2, <1>3

\* Writing n and index of an iterator,
LEMMA WriteSpot ==
  ASSUME NEW it, IsIter(it), NEW n, NEW index
  PROVE  WithPlace(it, n, index).n = n /\ WithPlace(it, n, index).index = index
<1> DEFINE v == [it EXCEPT !.n = n]
           w == [v EXCEPT !.index = index]
<1>1. IsIter(v) /\ v.n = n
  BY DEF IsIter
<1>2. WithPlace(it, n, index) = w
  BY Zenon DEF WithPlace
<1> HIDE DEF v
<1>3. w.n = v.n /\ w.index = index
  BY <1>1 DEF IsIter
<1> HIDE DEF w
<1> QED BY <1>1, <1>2, <1>3

\* or prev or next.
LEMMA KeepSpot ==
  ASSUME NEW it, IsIter(it), NEW q
  PROVE  /\ WithPrev(it, q).n = it.n /\ WithPrev(it, q).index = it.index
         /\ WithNext(it, q).n = it.n /\ WithNext(it, q).index = it.index
BY DEF IsIter, WithPrev, WithNext

SameSpots(w, live) == \A j \in DOMAIN w : w[j].n = live[j].n /\ w[j].index = live[j].index

\* The writes to the list move no iterator.
LEMMA ListPrevSpots ==
  ASSUME NEW live, Live(live), NEW i \in DOMAIN live \cup {NULL}, NEW q
  PROVE  SameSpots(list_prev(live, i, q), live) /\ SameSpots(list_next(live, i, q), live)
<1>1. NULL \notin DOMAIN live
  BY SkipArrayIterAssumption DEF Live
<1>2. CASE i = NULL
  BY <1>1, <1>2 DEF list_prev, list_next, SameSpots
<1>3. CASE i # NULL
  <2> DEFINE w == [live EXCEPT ![i].prev = q]
             v == [live EXCEPT ![i].next = q]
  <2>1. i \in DOMAIN live /\ list_prev(live, i, q) = w /\ list_next(live, i, q) = v
    BY <1>3 DEF list_prev, list_next
  <2>2. DOMAIN w = DOMAIN live /\ DOMAIN v = DOMAIN live
    OBVIOUS
  <2>3. \A j \in DOMAIN live : j # i => w[j] = live[j] /\ v[j] = live[j]
    OBVIOUS
  <2>4. w[i] = WithPrev(live[i], q) /\ v[i] = WithNext(live[i], q)
    BY <2>1 DEF WithPrev, WithNext
  <2>5. IsIter(live[i])
    BY <2>1 DEF Live
  <2> HIDE DEF w, v
  <2>6. /\ w[i].n = live[i].n /\ w[i].index = live[i].index
        /\ v[i].n = live[i].n /\ v[i].index = live[i].index
    BY <2>4, <2>5, KeepSpot
  <2> QED BY <2>1, <2>2, <2>3, <2>6 DEF SameSpots
<1> QED BY <1>2, <1>3

\* A new iterator is on the first pair; the others stay,
LEMMA LinkSpots ==
  ASSUME Live(its), NEW i \in IterIds, i \notin DOMAIN its,
         iter \in DOMAIN its \cup {NULL}, NEW w, w = iter_link(its, i)
  PROVE  /\ DOMAIN w = DOMAIN its \cup {i}
         /\ w[i].n = sa.nodes[0] /\ w[i].index = 0
         /\ \A j \in DOMAIN its : w[j].n = its[j].n /\ w[j].index = its[j].index
<1> DEFINE v == list_prev(its, iter, i)
           new == [prev |-> NULL, next |-> iter, n |-> sa.nodes[0], index |-> 0]
<1>1. Live(v) /\ DOMAIN v = DOMAIN its
  BY ListPrev
<1>2. SameSpots(v, its)
  BY ListPrevSpots
<1>3. new.n = sa.nodes[0] /\ new.index = 0
  OBVIOUS
<1>4. v = list_prev(its, iter, i)
  OBVIOUS
<1> HIDE DEF v
<1>5. w = [j \in DOMAIN its \cup {i} |-> IF j = i THEN new ELSE v[j]]
  BY <1>4 DEF iter_link
<1> HIDE DEF new
<1> QED BY <1>1, <1>2, <1>3, <1>5 DEF SameSpots

\* and so do those that are left when one is freed.
LEMMA UnlinkSpots ==
  ASSUME Live(its), NEW i \in DOMAIN its,
         its[i].prev \in DOMAIN its \cup {NULL},
         its[i].next \in DOMAIN its \cup {NULL},
         NEW w, w = iter_unlink(its, i)
  PROVE  /\ DOMAIN w = DOMAIN its \ {i}
         /\ \A j \in DOMAIN its \ {i} : w[j].n = its[j].n /\ w[j].index = its[j].index
<1> DEFINE prev == its[i].prev
           next == its[i].next
           u == list_next(its, prev, next)
           v == list_prev(u, next, prev)
<1>0. prev \in DOMAIN its \cup {NULL} /\ next \in DOMAIN its \cup {NULL}
  OBVIOUS
<1>1. w = [j \in DOMAIN its \ {i} |-> v[j]]
  <2>1. DOMAIN v = DOMAIN its
    <3> HIDE DEF prev, next
    <3>1. Live(u) /\ DOMAIN u = DOMAIN its
      BY <1>0, ListNext
    <3>2. next \in DOMAIN u \cup {NULL}
      BY <1>0, <3>1
    <3> HIDE DEF u
    <3> QED BY ONLY <3>1, <3>2, ListPrev
  <2> QED BY DEF iter_unlink, Restrict
<1> HIDE DEF prev, next
<1>2. Live(u) /\ DOMAIN u = DOMAIN its /\ SameSpots(u, its)
  BY <1>0, ListNext, ListPrevSpots
<1>3. next \in DOMAIN u \cup {NULL}
  BY <1>0, <1>2
<1> HIDE DEF u
<1>4. DOMAIN v = DOMAIN u /\ SameSpots(v, u)
  BY ONLY <1>2, <1>3, ListPrev, ListPrevSpots
<1> HIDE DEF v
<1> QED BY <1>1, <1>2, <1>4 DEF SameSpots

\* A move places one iterator.
LEMMA MoveSpots ==
  ASSUME Live(its), NEW i \in DOMAIN its, NEW n, NEW index,
         NEW w, w = Placed(its, i, n, index)
  PROVE  /\ DOMAIN w = DOMAIN its /\ w[i].n = n /\ w[i].index = index
         /\ \A j \in DOMAIN its : j # i => w[j] = its[j]
<1>1. DOMAIN w = DOMAIN its /\ \A j \in DOMAIN its : j # i => w[j] = its[j]
  BY DEF Live, Placed
<1>2. w[i] = WithPlace(its[i], n, index)
  BY DEF WithPlace, Placed
<1>3. IsIter(its[i])
  BY DEF Live
<1>4. WithPlace(its[i], n, index).n = n /\ WithPlace(its[i], n, index).index = index
  BY <1>3, WriteSpot
<1> QED BY <1>1, <1>2, <1>4

\* Iterator i stays, or goes to another pair or the end.
GoesToSpot(i) ==
  \/ UNCHANGED its
  \/ \E n, index : Spot(n, index) /\ its' = [its EXCEPT ![i].n = n, ![i].index = index]

\* A move to such a place is one of them.
LEMMA MoveOK ==
  ASSUME NEW i, NEW n, NEW index, NEW res, Spot(n, index), Move(i, n, index, res)
  PROVE  GoesToSpot(i)
BY DEF GoesToSpot, Move

\* skiparray_iter_seek_endpoint,
LEMMA EndpointSpot ==
  ASSUME NEW r, Sound(sa, r), \A n \in Nodes : Count(sa, n) > 0,
         NEW i, NEW end, IterSeekEndpoint(i, end)
  PROVE  GoesToSpot(i)
<1> DEFINE last == last_node(sa)
<1>1. sa.nodes[0] \in Nodes /\ last \in Nodes
  BY HeadIsThere, last_nodeIsLast DEF Sound, Nodes
<1>2. Move(i, sa.nodes[0], 0, "OK") \/ Move(i, last, LastIndex(last), "OK")
  BY DEF IterSeekEndpoint
<1> HIDE DEF last
<1>3. Spot(sa.nodes[0], 0)
  BY <1>1 DEF Spot
<1>4. Spot(last, LastIndex(last))
  <2>1. Count(sa, last) \in Nat /\ Count(sa, last) > 0
    BY <1>1, NeighboursThere
  <2> QED BY <1>1, <2>1 DEF Spot, LastIndex
<1> QED BY <1>2, <1>3, <1>4, MoveOK

\* skiparray_iter_seek: a place behind the last pair of a node is the first
\* pair of the next one,
LEMMA SeekSpot ==
  ASSUME NEW r, Sound(sa, r), \A n \in Nodes : Count(sa, n) > 0,
         NEW i, NEW key \in Keys, IterSeek(i, key)
  PROVE  GoesToSpot(i)
<1> DEFINE at == search(sa, key)
           next == sa.heap[at.n].fwd[0]
<1>1. Answer(sa, r, key, at.n, at.index, at.found)
  BY PairKeys, SearchFinds
<1>2. \/ at.found /\ Move(i, at.n, at.index, "FOUND")
      \/ UNCHANGED its
      \/ next # NULL /\ Move(i, next, 0, "NOT_FOUND")
      \/ ~at.found /\ at.index # Count(sa, at.n) /\ Move(i, at.n, at.index, "NOT_FOUND")
  BY DEF IterSeek, SeekBehind
<1>3. next = sa.heap[at.n].fwd[0]
  OBVIOUS
<1> HIDE DEF at, next
<1>4. at.n \in Nodes /\ at.index \in Nat
  BY <1>1 DEF Answer, Nodes
<1>5. Count(sa, at.n) \in Nat /\ (next # NULL => next \in Nodes)
  BY <1>3, <1>4, NeighboursThere
<1>6. CASE at.found /\ Move(i, at.n, at.index, "FOUND")
  <2>1. KeyAt(sa, key, at.n, at.index)
    BY <1>1, <1>6 DEF Answer
  <2>2. at.index + 1 \in 1 .. Count(sa, at.n)
    BY <1>4, <2>1, PairsType DEF KeyAt, Sound, Formed, Nodes
  <2>3. Spot(at.n, at.index)
    BY <1>4, <1>5, <2>2 DEF Spot
  <2> QED BY <1>6, <2>3, MoveOK
<1>7. CASE UNCHANGED its
  BY <1>7 DEF GoesToSpot
<1>8. CASE next # NULL /\ Move(i, next, 0, "NOT_FOUND")
  <2>1. Spot(next, 0)
    BY <1>5, <1>8 DEF Spot
  <2> QED BY <1>8, <2>1, MoveOK
<1>9. CASE ~at.found /\ at.index # Count(sa, at.n) /\ Move(i, at.n, at.index, "NOT_FOUND")
  <2>1. at.index \in 0 .. Count(sa, at.n)
    BY <1>1, <1>9 DEF Answer, GapAt, Splits, Count
  <2>2. Spot(at.n, at.index)
    BY <1>4, <1>5, <1>9, <2>1 DEF Spot
  <2> QED BY <1>9, <2>2, MoveOK
<1> QED BY <1>2, <1>6, <1>7, <1>8, <1>9

\* skiparray_iter_next of a client that stops at END, and skiparray_iter_prev.
LEMMA StepSpot ==
  ASSUME ~StepPastEnd, NEW r, Sound(sa, r), \A n \in Nodes : Count(sa, n) > 0,
         NEW i \in DOMAIN its, Spot(its[i].n, its[i].index), IterNext(i) \/ IterPrev(i)
  PROVE  GoesToSpot(i)
<1> DEFINE n == its[i].n
           index == its[i].index
           next == sa.heap[n].fwd[0]
           back == sa.heap[n].back
<1>1. /\ n \in Nodes /\ index \in Nat /\ Count(sa, n) \in Nat
      /\ next # NULL => next \in Nodes
      /\ back # NULL => back \in Nodes
  BY NeighboursThere DEF Spot
<1>2. \/ UNCHANGED its
      \/ /\ index < Count(sa, n)
         /\ \/ index + 1 = Count(sa, n) /\ next = NULL /\ Move(i, n, index + 1, "END")
            \/ next # NULL /\ Move(i, next, 0, "OK")
            \/ index + 1 # Count(sa, n) /\ Move(i, n, index + 1, "OK")
      \/ back # NULL /\ Move(i, back, LastIndex(back), "OK")
      \/ index > 0 /\ Move(i, n, index - 1, "OK")
  <2>1. CASE IterNext(i)
    BY <2>1 DEF IterNext, OnPair
  <2>2. CASE IterPrev(i)
    BY <2>2 DEF IterPrev
  <2> QED BY <2>1, <2>2
<1>3. index < Count(sa, n) \/ (next = NULL /\ index = Count(sa, n))
  BY DEF Spot
<1>4. next = sa.heap[n].fwd[0]
  OBVIOUS
<1> HIDE DEF n, index, next, back
<1>5. CASE UNCHANGED its
  BY <1>5 DEF GoesToSpot
<1>6. CASE index + 1 = Count(sa, n) /\ next = NULL /\ Move(i, n, index + 1, "END")
  <2>1. Spot(n, index + 1)
    BY <1>1, <1>4, <1>6 DEF Spot
  <2> QED BY <1>6, <2>1, MoveOK
<1>7. CASE next # NULL /\ Move(i, next, 0, "OK")
  <2>1. Spot(next, 0)
    BY <1>1, <1>7 DEF Spot
  <2> QED BY <1>7, <2>1, MoveOK
<1>8. CASE /\ index < Count(sa, n) /\ index + 1 # Count(sa, n)
           /\ Move(i, n, index + 1, "OK")
  <2>1. Spot(n, index + 1)
    BY <1>1, <1>8 DEF Spot
  <2> QED BY <1>8, <2>1, MoveOK
<1>9. CASE back # NULL /\ Move(i, back, LastIndex(back), "OK")
  <2>1. Count(sa, back) \in Nat /\ Count(sa, back) > 0
    BY <1>1, <1>9, NeighboursThere
  <2>2. Spot(back, LastIndex(back))
    BY <1>1, <1>9, <2>1 DEF Spot, LastIndex
  <2> QED BY <1>9, <2>2, MoveOK
<1>10. CASE index > 0 /\ Move(i, n, index - 1, "OK")
  <2>1. Spot(n, index - 1)
    BY <1>1, <1>3, <1>10 DEF Spot
  <2> QED BY <1>10, <2>1, MoveOK
<1> QED BY <1>2, <1>5, <1>6, <1>7, <1>8, <1>9, <1>10

\* The step of an iterator leaves all of them on such places.
LEMMA IterStepSpots ==
  ASSUME ~StepPastEnd, ListInv, SpotInv, IterStep
  PROVE  SpotInv'
<1>0. /\ Live(its) /\ iter \in DOMAIN its \cup {NULL}
      /\ \A i \in DOMAIN its : /\ its[i].prev \in DOMAIN its \cup {NULL}
                              /\ its[i].next \in DOMAIN its \cup {NULL}
  BY Neighbours DEF ListInv
<1>1. UNCHANGED sa
  BY IterCalls
<1>2. PICK r : Sound(sa, r)
  BY DEF SpotInv, IsSound
<1>3. \A n, index : Spot(n, index)' = Spot(n, index)
  BY <1>1 DEF Spot, Nodes
<1>4. SUFFICES /\ DOMAIN its' # {} => \A n \in Nodes : Count(sa, n) > 0
               /\ \A j \in DOMAIN its' : Spot(its'[j].n, its'[j].index)
  BY <1>1, <1>3 DEF SpotInv, Nodes
<1>5. CASE UNCHANGED its
  BY <1>5 DEF SpotInv
<1>6. CASE \E i \in IterIds : IterNew(i)
  <2>1. PICK i \in IterIds : IterNew(i)
    BY <1>6
  <2>2. CASE /\ ~(sa.heap[sa.nodes[0]].fwd[0] = NULL /\ Count(sa, sa.nodes[0]) = 0)
             /\ i \notin DOMAIN its /\ its' = iter_link(its, i)
    <3>1. \A n \in Nodes : Count(sa, n) > 0
      BY <1>2, <2>2, NoneEmpty
    <3>2. /\ DOMAIN its' = DOMAIN its \cup {i}
          /\ its'[i].n = sa.nodes[0] /\ its'[i].index = 0
          /\ \A j \in DOMAIN its : its'[j].n = its[j].n /\ its'[j].index = its[j].index
      BY ONLY <1>0, <2>2, i \in IterIds, LinkSpots
    <3>3. Spot(sa.nodes[0], 0)
      BY <1>2, <3>1, HeadIsThere DEF Spot, Sound, Nodes
    <3> QED BY <3>1, <3>2, <3>3 DEF SpotInv
  <2>3. CASE UNCHANGED its
    BY <1>5, <2>3
  <2> QED BY <2>1, <2>2, <2>3 DEF IterNew
<1>7. CASE \E i \in DOMAIN its : IterFree(i)
  <2>1. PICK i \in DOMAIN its : IterFree(i)
    BY <1>7
  <2>2. its' = iter_unlink(its, i)
    BY <2>1 DEF IterFree
  <2>3. /\ DOMAIN its' = DOMAIN its \ {i}
        /\ \A j \in DOMAIN its \ {i} : its'[j].n = its[j].n /\ its'[j].index = its[j].index
    BY ONLY <1>0, <2>2, i \in DOMAIN its, UnlinkSpots
  <2> QED BY <2>3 DEF SpotInv
<1>8. ASSUME NEW i \in DOMAIN its, GoesToSpot(i)
      PROVE  /\ DOMAIN its' = DOMAIN its
             /\ \A j \in DOMAIN its' : Spot(its'[j].n, its'[j].index)
  <2>1. CASE UNCHANGED its
    BY <2>1 DEF SpotInv
  <2>2. CASE \E n, index : /\ Spot(n, index)
                           /\ its' = [its EXCEPT ![i].n = n, ![i].index = index]
    <3>1. PICK n, index : /\ Spot(n, index)
                          /\ its' = [its EXCEPT ![i].n = n, ![i].index = index]
      BY <2>2
    <3>2. its' = Placed(its, i, n, index)
      BY <3>1 DEF Placed
    <3>3. /\ DOMAIN its' = DOMAIN its /\ its'[i].n = n /\ its'[i].index = index
          /\ \A j \in DOMAIN its : j # i => its'[j] = its[j]
      BY ONLY <1>0, <3>2, i \in DOMAIN its, MoveSpots
    <3> QED BY <3>1, <3>3 DEF SpotInv
  <2> QED BY <1>8, <2>1, <2>2 DEF GoesToSpot
<1>9. ASSUME NEW i \in DOMAIN its,
             \/ \E end \in {"FIRST", "LAST"} : IterSeekEndpoint(i, end)
             \/ \E key \in Keys : IterSeek(i, key)
             \/ IterNext(i)
             \/ IterPrev(i)
             \/ IterGet(i)
      PROVE  GoesToSpot(i)
  <2>1. /\ \A n \in Nodes : Count(sa, n) > 0
        /\ Spot(its[i].n, its[i].index)
    BY DEF SpotInv
  <2>2. CASE IterGet(i)
    BY <2>2 DEF IterGet, GoesToSpot
  <2> QED BY <1>2, <1>9, <2>1, <2>2, EndpointSpot, SeekSpot, StepSpot
<1>10. CASE \E i \in DOMAIN its : GoesToSpot(i)
  <2>1. DOMAIN its' = DOMAIN its /\ \A j \in DOMAIN its' : Spot(its'[j].n, its'[j].index)
    BY <1>8, <1>10
  <2> QED BY <2>1 DEF SpotInv
<1> QED BY <1>6, <1>7, <1>9, <1>10 DEF IterStep

\* Every step does: one of the map moves nodes only if there is no iterator.
LEMMA SpotStep ==
  ASSUME ~StepPastEnd, ListInv, SpotInv, [IterNextState]_iterVars
  PROVE  SpotInv'
<1>1. CASE UNCHANGED <<sa, its>>
  BY <1>1 DEF SpotInv, Spot, Nodes
<1>2. CASE Next /\ UNCHANGED its
  <2>1. CASE DOMAIN its = {}
    <3>1. IsSound(sa')
      BY <1>2, NextSound DEF SpotInv
    <3> QED BY <1>2, <2>1, <3>1 DEF SpotInv
  <2>2. CASE DOMAIN its # {}
    BY <1>1, <1>2, <2>2, Neighbours, CallsKeepList
  <2> QED BY <2>1, <2>2
<1>3. CASE IterStep
  BY <1>3, IterStepSpots
<1>4. CASE UNCHANGED iterVars
  BY <1>1, <1>4 DEF iterVars
<1> QED BY <1>2, <1>3, <1>4 DEF IterNextState

\* An iterator of a client that stops at END is on a pair, or just behind the
\* last one, whatever the calls. The assertion in skiparray_iter_get holds on
\* a pair, and fails behind the last one.
THEOREM IteratorsOnPairOrEnd ==
  ASSUME ~StepPastEnd
  PROVE  IterSpec => []IterOnPairOrEnd
<1>1. IterInit => SpotInv
  <2> SUFFICES ASSUME IterInit PROVE SpotInv
    OBVIOUS
  <2>1. DOMAIN its = {}
    BY DEF IterInit
  <2>2. IsSound(sa)
    BY skiparray_newSound DEF IterInit, Init, IsSound
  <2> QED BY <2>1, <2>2 DEF SpotInv
<1>2. ListInv /\ SpotInv /\ [IterNextState]_iterVars => SpotInv'
  BY SpotStep
<1>3. SpotInv => IterOnPairOrEnd
  BY DEF SpotInv, Spot, IterOnPairOrEnd, OnPair
<1> QED BY <1>1, <1>2, <1>3, ListAlways, PTL DEF IterSpec

\* The skiparray under the iterators has the shape it always has.
THEOREM ShapeUnderIterators == IterSpec => [](LevelsExact /\ BackLinksExact)
<1>1. IterInit => IsSound(sa)
  BY skiparray_newSound DEF IterInit, Init, IsSound
<1>2. IsSound(sa) /\ [IterNextState]_iterVars => IsSound(sa)'
  <2> SUFFICES ASSUME IsSound(sa), [IterNextState]_iterVars
               PROVE  IsSound(sa')
    OBVIOUS
  <2> QED BY NextSound, IterCalls DEF IterNextState, iterVars
<1>3. IsSound(sa) => LevelsExact /\ BackLinksExact
  BY SoundIsExact
<1> QED BY <1>1, <1>2, <1>3, PTL DEF IterSpec

-----------------------------------------------------------------------------
(* The map.                                                                *)

\* m has the bindings of a, each at its key.
Represents(a, m) ==
  /\ m = [k \in DOMAIN m |-> m[k]]
  /\ \A k \in DOMAIN m : Binds(a, m[k]) /\ m[k].key = k
  /\ \A p : Binds(a, p) => p.key \in DOMAIN m /\ m[p.key] = p

\* Each key that is bound has one binding, and is a number.
LEMMA OneBinding ==
  ASSUME NEW a, NEW r, Sound(a, r), NEW p, Binds(a, p)
  PROVE  /\ p.key \in Nat
         /\ \A q : Binds(a, q) /\ q.key = p.key => q = p
<1>1. Formed(a, r) /\ Ordered(a, r) /\ a \in SkipArrays
  BY FormedFacts DEF Sound
<1>2. PICK m \in DOMAIN a.heap : Contains(a.heap[m].pairs, p)
  BY DEF Binds
<1>3. \A n \in DOMAIN a.heap : DOMAIN a.heap[n].pairs = 1 .. Len(a.heap[n].pairs)
  BY <1>1, PairsType DEF Count
<1>4. PICK i \in DOMAIN a.heap[m].pairs : a.heap[m].pairs[i] = p
  BY <1>2, <1>3 DEF Contains
<1>5. p.key \in Nat
  BY <1>1, <1>4, PairsType
<1>6. ASSUME NEW q, Binds(a, q), q.key = p.key
      PROVE  q = p
  <2>1. PICK n \in DOMAIN a.heap : Contains(a.heap[n].pairs, q)
    BY <1>6 DEF Binds
  <2>2. PICK j \in DOMAIN a.heap[n].pairs : a.heap[n].pairs[j] = q
    BY <1>3, <2>1 DEF Contains
  <2>3. m = n /\ i = j
    BY <1>1, <1>4, <1>6, <2>2, KeysOnce
  <2> QED BY <1>4, <2>2, <2>3
<1> QED BY <1>5, <1>6

\* The bindings that Chain leads to are all there are.
LEMMA BoundIs ==
  ASSUME NEW a, NEW r, Formed(a, r), NEW p
  PROVE  p \in UNION {ToSet(a.heap[n].pairs) : n \in ToSet(Chain(a, 0))} <=> Binds(a, p)
<1> DEFINE c == Chain(a, 0)
<1>1. /\ a \in SkipArrays /\ OnLevel(a, 0) = DOMAIN a.heap /\ 0 \in LevelSet
  BY FormedFacts
<1>2. Lists(r, c, DOMAIN a.heap)
  BY <1>1, ChainLists
<1> HIDE DEF c
<1>3. ToSet(c) = DOMAIN a.heap
  BY <1>2 DEF Lists, ToSet
<1>4. \A n \in DOMAIN a.heap : p \in ToSet(a.heap[n].pairs) <=> Contains(a.heap[n].pairs, p)
  <2> SUFFICES ASSUME NEW n \in DOMAIN a.heap
               PROVE  p \in ToSet(a.heap[n].pairs) <=> Contains(a.heap[n].pairs, p)
    OBVIOUS
  <2>1. DOMAIN a.heap[n].pairs = 1 .. Len(a.heap[n].pairs)
    BY <1>1, PairsType DEF Count
  <2> QED BY <2>1 DEF ToSet, Contains
<1> QED BY <1>3, <1>4 DEF Binds, c

\* So the map that stands for a sound skiparray represents it.
LEMMA MapIs ==
  ASSUME NEW a, NEW r, Sound(a, r),
         NEW B, \A p : p \in B <=> Binds(a, p),
         NEW m, m = [k \in {p.key : p \in B} |-> CHOOSE p \in B : p.key = k]
  PROVE  Represents(a, m)
<1>1. DOMAIN m = {p.key : p \in B}
  OBVIOUS
<1>2. ASSUME NEW p, Binds(a, p)
      PROVE  p.key \in DOMAIN m /\ m[p.key] = p
  <2>1. p \in B /\ p.key \in DOMAIN m
    BY <1>1, <1>2
  <2>2. m[p.key] = CHOOSE q \in B : q.key = p.key
    BY <2>1
  <2>3. \A q \in B : q.key = p.key => q = p
    BY <1>2, OneBinding
  <2> QED BY <2>1, <2>2, <2>3
<1>3. ASSUME NEW k \in DOMAIN m
      PROVE  Binds(a, m[k]) /\ m[k].key = k
  <2>1. PICK p \in B : p.key = k
    BY <1>1
  <2> QED BY <1>2, <2>1
<1> QED BY <1>2, <1>3 DEF Represents

\* Before and after a call.
LEMMA MapNow ==
  ASSUME NEW r, Sound(sa, r)
  PROVE  Represents(sa, MapOf)
<1>1. \A p : p \in BoundPairs <=> Binds(sa, p)
  BY BoundIs DEF BoundPairs, LevelZero, Sound
<1> QED BY <1>1, MapIs DEF MapOf

\* So does the map after a call.
LEMMA MapThen ==
  ASSUME NEW r, Sound(sa', r)
  PROVE  Represents(sa', MapOf')
<1>1. \A p : p \in BoundPairs' <=> Binds(sa', p)
  BY BoundIs DEF BoundPairs, LevelZero, Sound
<1> QED BY <1>1, MapIs DEF MapOf

\* What a change of the bindings is to the map.
LEMMA MapSame ==
  ASSUME NEW a, NEW b, NEW m, NEW w, Represents(a, m), Represents(b, w), SameBindings(a, b)
  PROVE  w = m
<1>1. DOMAIN w = DOMAIN m /\ \A k \in DOMAIN m : w[k] = m[k]
  BY DEF Represents, SameBindings
<1> QED BY <1>1 DEF Represents

\* A binding gained, at a key that had none, is a key put in.
LEMMA MapGains ==
  ASSUME NEW a, NEW b, NEW m, NEW w, Represents(a, m), Represents(b, w),
         NEW p, Gains(a, b, p), p.key \notin DOMAIN m
  PROVE  w = Promise!With(m, p.key, p)
<1>1. ASSUME NEW k
      PROVE  k \in DOMAIN w <=> k \in DOMAIN m \cup {p.key}
  <2>1. k \in DOMAIN w => w[k].key = k /\ (Binds(a, w[k]) \/ w[k] = p)
    BY DEF Represents, Gains
  <2>2. k \in DOMAIN m => m[k].key = k /\ Binds(b, m[k])
    BY DEF Represents, Gains
  <2>3. Binds(b, p)
    BY DEF Gains
  <2> QED BY <2>1, <2>2, <2>3 DEF Represents
<1>2. ASSUME NEW k \in DOMAIN w
      PROVE  w[k] = IF k = p.key THEN p ELSE m[k]
  <2>1. w[k].key = k /\ (Binds(a, w[k]) \/ w[k] = p)
    BY DEF Represents, Gains
  <2> QED BY <1>1, <2>1 DEF Represents
<1>3. w = [k \in DOMAIN w |-> w[k]]
  BY DEF Represents
<1> QED BY <1>1, <1>2, <1>3 DEF Promise!With

\* A binding lost is a key taken out.
LEMMA MapLoses ==
  ASSUME NEW a, NEW b, NEW m, NEW w, Represents(a, m), Represents(b, w),
         NEW p, Binds(a, p), Loses(a, b, p)
  PROVE  w = Promise!Without(m, p.key)
<1>1. DOMAIN w = DOMAIN m \ {p.key}
  <2>1. ASSUME NEW k \in DOMAIN w
        PROVE  k \in DOMAIN m /\ k # p.key
    <3>1. Binds(a, w[k]) /\ w[k].key = k /\ w[k] # p
      BY DEF Represents, Loses
    <3> QED BY <3>1 DEF Represents
  <2>2. ASSUME NEW k \in DOMAIN m, k # p.key
        PROVE  k \in DOMAIN w
    <3>1. Binds(a, m[k]) /\ m[k].key = k /\ m[k] # p
      BY <2>2 DEF Represents
    <3> QED BY <3>1 DEF Represents, Loses
  <2> QED BY <2>1, <2>2
<1>2. ASSUME NEW k \in DOMAIN w
      PROVE  w[k] = m[k]
  <2>1. Binds(a, w[k]) /\ w[k].key = k
    BY DEF Represents, Loses
  <2> QED BY <2>1 DEF Represents
<1>3. w = [k \in DOMAIN w |-> w[k]]
  BY DEF Represents
<1> QED BY <1>1, <1>2, <1>3 DEF Promise!Without

\* A binding swapped for another at its key is that key given another pair.
LEMMA MapSwaps ==
  ASSUME NEW a, NEW b, NEW m, NEW w, Represents(a, m), Represents(b, w),
         NEW p, NEW q, Binds(a, p), Swaps(a, b, p, q), q.key = p.key
  PROVE  w = [m EXCEPT ![p.key] = q]
<1>1. DOMAIN w = DOMAIN m
  <2>1. ASSUME NEW k \in DOMAIN w
        PROVE  k \in DOMAIN m
    <3>1. w[k].key = k /\ (Binds(a, w[k]) \/ w[k] = q)
      BY DEF Represents, Swaps
    <3> QED BY <3>1 DEF Represents
  <2>2. ASSUME NEW k \in DOMAIN m
        PROVE  k \in DOMAIN w
    <3>1. Binds(a, m[k]) /\ m[k].key = k
      BY DEF Represents
    <3>2. CASE m[k] = p
      BY <3>1, <3>2 DEF Represents, Swaps
    <3>3. CASE m[k] # p
      BY <3>1, <3>3 DEF Represents, Swaps
    <3> QED BY <3>2, <3>3
  <2> QED BY <2>1, <2>2
<1>2. \A k \in DOMAIN w : w[k] = IF k = p.key THEN q ELSE m[k]
  BY DEF Represents, Swaps
<1>3. w = [k \in DOMAIN w |-> w[k]] /\ m = [k \in DOMAIN m |-> m[k]]
  BY DEF Represents
<1> QED BY <1>1, <1>2, <1>3

\* A pair of a node is in the map, at its key.
LEMMA PairIsBound ==
  ASSUME NEW a, NEW r, Sound(a, r), NEW m, Represents(a, m), NEW n \in DOMAIN a.heap,
         NEW i \in 1 .. Count(a, n), NEW p, p = a.heap[n].pairs[i]
  PROVE  Binds(a, p) /\ p.key \in DOMAIN m /\ m[p.key] = p /\ p.key \in Nat
<1>1. Binds(a, p)
  BY DEF Binds, Contains, Count
<1> QED BY <1>1, OneBinding DEF Represents

\* A key is in the map where its pair is in a node.
LEMMA BoundIsPair ==
  ASSUME NEW a, NEW r, Sound(a, r), NEW m, Represents(a, m), NEW k \in DOMAIN m
  PROVE  \E n \in DOMAIN a.heap : \E i \in 1 .. Count(a, n) :
           a.heap[n].pairs[i] = m[k] /\ a.heap[n].pairs[i].key = k
BY DEF Represents, Binds, Contains, Count

\* Only a map without keys has a node without pairs.
LEMMA EmptyIs ==
  ASSUME NEW a, NEW r, Sound(a, r), NEW m, Represents(a, m), NEW n \in DOMAIN a.heap
  PROVE  Count(a, n) = 0 <=> DOMAIN m = {}
<1>1. Count(a, n) \in Nat
  BY PairsType DEF Sound, Formed
<1>2. CASE Count(a, n) = 0
  <2>1. DOMAIN a.heap = {n}
    BY <1>2 DEF Sound, Filled
  <2>2. ASSUME NEW k \in DOMAIN m PROVE FALSE
    BY <1>2, <2>1, BoundIsPair
  <2> QED BY <1>2, <2>2
<1>3. CASE Count(a, n) # 0
  <2>1. 1 \in 1 .. Count(a, n)
    BY <1>1, <1>3
  <2> QED BY <1>3, <2>1, PairIsBound
<1> QED BY <1>2, <1>3

\* The ends of the map.
LEMMA LeastIs ==
  ASSUME NEW S, NEW k \in S, S \subseteq Nat, \A j \in S : k <= j
  PROVE  Promise!Least(S) = k
<1>1. \E q \in S : \A j \in S : q <= j
  OBVIOUS
<1>2. Promise!Least(S) \in S /\ \A j \in S : Promise!Least(S) <= j
  BY <1>1, Zenon DEF Promise!Least
<1>3. Promise!Least(S) \in Nat /\ k \in Nat
  BY <1>2
<1> QED BY <1>2, <1>3

\* The greatest of some keys.
LEMMA GreatestIs ==
  ASSUME NEW S, NEW k \in S, S \subseteq Nat, \A j \in S : j <= k
  PROVE  Promise!Greatest(S) = k
<1>1. \E q \in S : \A j \in S : q >= j
  OBVIOUS
<1>2. Promise!Greatest(S) \in S /\ \A j \in S : Promise!Greatest(S) >= j
  BY <1>1, Zenon DEF Promise!Greatest
<1>3. Promise!Greatest(S) \in Nat /\ k \in Nat
  BY <1>2
<1> QED BY <1>2, <1>3

\* The first pair of the first node has the least key.
LEMMA FirstIs ==
  ASSUME NEW a, NEW r, Sound(a, r), NEW m, Represents(a, m),
         NEW n, n = a.nodes[0], Count(a, n) > 0, NEW p, p = a.heap[n].pairs[1]
  PROVE  /\ Binds(a, p) /\ p.key \in DOMAIN m /\ m[p.key] = p
         /\ p.key = Promise!Least(DOMAIN m)
<1>1. /\ a \in SkipArrays /\ OnLevel(a, 0) = DOMAIN a.heap /\ 0 \in LevelSet
      /\ \A q \in DOMAIN a.heap : r[q] \in Nat
      /\ \A q, s \in DOMAIN a.heap : r[q] = r[s] => q = s
      /\ Follows(r, OnLevel(a, 0), NULL, After(a, NULL, 0))
  BY FormedFacts DEF Sound
<1>2. n \in DOMAIN a.heap
  BY HeadIsThere DEF Sound
<1>3. \A q \in DOMAIN a.heap : r[n] <= r[q]
  BY <1>1, <1>2 DEF Follows, Behind, After
<1>4. Count(a, n) \in Nat /\ DOMAIN a.heap[n].pairs = 1 .. Count(a, n)
  BY <1>1, <1>2, PairsType
<1>5. Binds(a, p) /\ p.key \in DOMAIN m /\ m[p.key] = p
  BY <1>2, <1>4, PairIsBound
<1>6. ASSUME NEW k \in DOMAIN m
      PROVE  k \in Nat /\ p.key <= k
  <2>1. PICK q \in DOMAIN a.heap :
          \E i \in 1 .. Count(a, q) : a.heap[q].pairs[i].key = k
    BY BoundIsPair
  <2>9. PICK i \in 1 .. Count(a, q) : a.heap[q].pairs[i].key = k
    BY <2>1
  <2>2. i \in DOMAIN a.heap[q].pairs /\ k \in Nat /\ 1 \in DOMAIN a.heap[n].pairs /\ p.key \in Nat
    BY <1>1, <1>2, <1>4, <2>9, PairsType
  <2>3. CASE q = n /\ i = 1
    BY <2>9, <2>2, <2>3
  <2>4. CASE q = n /\ i # 1
    <3>1. 1 < i /\ Ascending(a.heap[n].pairs)
      BY <1>2, <2>9, <2>4 DEF Sound, Ordered
    <3> QED BY <2>9, <2>2, <2>4, <3>1 DEF Ascending
  <2>5. CASE q # n
    <3>1. r[n] < r[q]
      BY <1>1, <1>2, <1>3, <2>5
    <3>2. Below(a.heap[n].pairs, a.heap[q].pairs)
      BY <1>2, <3>1 DEF Sound, Ordered
    <3> QED BY <2>9, <2>2, <3>2 DEF Below
  <2> QED BY <2>3, <2>4, <2>5
<1>7. p.key = Promise!Least(DOMAIN m)
  BY <1>5, <1>6, LeastIs
<1> QED BY <1>5, <1>7

\* The last pair of the last node has the greatest.
LEMMA LastIsGreatest ==
  ASSUME NEW a, NEW r, Sound(a, r), NEW m, Represents(a, m),
         NEW n, n = last_node(a), Count(a, n) > 0, NEW p, p = a.heap[n].pairs[Count(a, n)]
  PROVE  /\ Binds(a, p) /\ p.key \in DOMAIN m /\ m[p.key] = p
         /\ p.key = Promise!Greatest(DOMAIN m)
<1>1. /\ a \in SkipArrays
      /\ \A q \in DOMAIN a.heap : r[q] \in Nat
      /\ \A q, s \in DOMAIN a.heap : r[q] = r[s] => q = s
  BY FormedFacts DEF Sound
<1>2. n \in DOMAIN a.heap /\ \A q \in DOMAIN a.heap : r[q] <= r[n]
  BY last_nodeIsLast DEF Sound
<1>3. Count(a, n) \in Nat /\ Count(a, n) \in 1 .. Count(a, n)
  BY <1>1, <1>2, PairsType
<1>4. Binds(a, p) /\ p.key \in DOMAIN m /\ m[p.key] = p
  BY <1>2, <1>3, PairIsBound
<1>5. p.key = LastKey(a, n) /\ p.key \in Nat
  BY <1>1, <1>2, LastKeys DEF Sound
<1>6. ASSUME NEW k \in DOMAIN m
      PROVE  k \in Nat /\ k <= p.key
  <2>1. PICK q \in DOMAIN a.heap :
          \E i \in 1 .. Count(a, q) : a.heap[q].pairs[i].key = k
    BY BoundIsPair
  <2>9. PICK i \in 1 .. Count(a, q) : a.heap[q].pairs[i].key = k
    BY <2>1
  <2>2. i \in DOMAIN a.heap[q].pairs /\ k \in Nat
    BY <1>1, <2>9, PairsType
  <2>3. CASE q = n
    BY <1>1, <1>5, <2>9, <2>2, <2>3, LastKeys DEF Sound
  <2>4. CASE q # n
    <3>1. r[q] < r[n]
      BY <1>1, <1>2, <2>4
    <3> QED BY <1>1, <1>2, <1>5, <2>9, <2>2, <3>1, LastKeys DEF Sound
  <2> QED BY <2>3, <2>4
<1>7. p.key = Promise!Greatest(DOMAIN m)
  BY <1>4, <1>6, GreatestIs
<1> QED BY <1>4, <1>7

\* search finds a key just when it is in the map.
LEMMA FoundIs ==
  ASSUME NEW a, NEW r, Sound(a, r), NEW m, Represents(a, m), NEW key \in Nat,
         NEW n, NEW index, NEW found, Answer(a, r, key, n, index, found)
  PROVE  /\ found <=> key \in DOMAIN m
         /\ found => LET p == a.heap[n].pairs[index + 1]
                     IN  p.key = key /\ Binds(a, p) /\ m[key] = p
<1>1. a \in SkipArrays /\ n \in DOMAIN a.heap /\ index \in Nat /\ found \in BOOLEAN
  BY FormedFacts DEF Sound, Answer
<1>2. CASE found
  <2>1. KeyAt(a, key, n, index)
    BY <1>2 DEF Answer
  <2>2. index + 1 \in 1 .. Count(a, n)
    BY <1>1, <2>1, PairsType DEF KeyAt
  <2> QED BY <1>1, <1>2, <2>1, <2>2, PairIsBound DEF KeyAt
<1>3. CASE ~found
  <2>1. GapAt(a, r, key, n, index)
    BY <1>3 DEF Answer
  <2>2. ASSUME key \in DOMAIN m PROVE FALSE
    <3>1. PICK q \in DOMAIN a.heap :
            \E i \in 1 .. Count(a, q) : a.heap[q].pairs[i].key = key
      BY <2>2, BoundIsPair
    <3>9. PICK i \in 1 .. Count(a, q) : a.heap[q].pairs[i].key = key
      BY <3>1
    <3>2. i \in DOMAIN a.heap[q].pairs /\ i \in Nat
      BY <1>1, <3>9, PairsType
    <3>3. /\ r[q] \in Nat /\ r[n] \in Nat /\ (r[q] = r[n] => q = n)
      BY <1>1, FormedFacts DEF Sound
    <3>4. r[q] = r[n]
      BY <2>1, <3>9, <3>2, <3>3 DEF GapAt
    <3>5. q = n
      BY <3>3, <3>4
    <3> QED BY <2>1, <3>9, <3>2, <3>5 DEF GapAt, Splits
  <2> QED BY <1>3, <2>2
<1> QED BY <1>1, <1>2, <1>3

-----------------------------------------------------------------------------
(* What each call does to the map.                                         *)

\* A call that leaves the nodes alone leaves the map alone.
LEMMA MapStays ==
  ASSUME sa' = sa
  PROVE  MapOf' = MapOf
BY DEF MapOf, BoundPairs, LevelZero

\* The map after a call, by what the call does to the bindings.
LEMMA MapChanges ==
  ASSUME NEW r, Sound(sa, r), NEW s, Sound(sa', s)
  PROVE  /\ \A p : Gains(sa, sa', p) /\ p.key \notin DOMAIN MapOf =>
              MapOf' = Promise!With(MapOf, p.key, p)
         /\ \A p : Binds(sa, p) /\ Loses(sa, sa', p) =>
              MapOf' = Promise!Without(MapOf, p.key)
         /\ \A p, q : Binds(sa, p) /\ Swaps(sa, sa', p, q) /\ q.key = p.key =>
              MapOf' = [MapOf EXCEPT ![p.key] = q]
<1>1. Represents(sa, MapOf) /\ Represents(sa', MapOf')
  BY MapNow, MapThen
<1> DEFINE m == MapOf
           w == MapOf'
<1>2. Represents(sa, m) /\ Represents(sa', w)
  BY <1>1
<1> HIDE DEF m, w
<1>3. \A p : Gains(sa, sa', p) /\ p.key \notin DOMAIN m => w = Promise!With(m, p.key, p)
  BY <1>2, MapGains
<1>4. \A p : Binds(sa, p) /\ Loses(sa, sa', p) => w = Promise!Without(m, p.key)
  BY <1>2, MapLoses
<1>5. \A p, q : Binds(sa, p) /\ Swaps(sa, sa', p, q) /\ q.key = p.key =>
        w = [m EXCEPT ![p.key] = q]
  BY <1>2, MapSwaps
<1> QED BY <1>3, <1>4, <1>5 DEF m, w

\* skiparray_set_with_pair sets one key of the map.
SetsKey(pair, replace_key) ==
  LET k == pair.key
      new == IF replace_key THEN pair ELSE [MapOf[k] EXCEPT !.val = pair.val]
  IN  /\ UNCHANGED iter
      /\ \/ has_iterators /\ MapOf' = MapOf /\ Returns("LOCKED", {})
         \/ /\ ~has_iterators /\ k \notin DOMAIN MapOf
            /\ MapOf' = MapOf /\ Returns("MEMORY", {})
         \/ /\ ~has_iterators /\ k \notin DOMAIN MapOf
            /\ MapOf' = Promise!With(MapOf, k, pair) /\ Returns("BOUND", {})
         \/ /\ ~has_iterators /\ k \in DOMAIN MapOf
            /\ MapOf' = [MapOf EXCEPT ![k] = new] /\ Returns("REPLACED", {MapOf[k]})

\* skiparray_forget and the pops take one from it.
TakesKey(k) ==
  /\ UNCHANGED iter /\ ~has_iterators /\ k \in DOMAIN MapOf
  /\ MapOf' = Promise!Without(MapOf, k) /\ Returns("OK", {MapOf[k]})

\* A call that was refused, or only asked, leaves the map alone.
LeavesMap(res) == UNCHANGED iter /\ MapOf' = MapOf /\ Returns(res, {})

\* skiparray_set_with_options.
LEMMA SetOnMap ==
  ASSUME NEW r, Sound(sa, r), NEW pair \in Pair, NEW replace_key \in BOOLEAN,
         Set(pair, replace_key)
  PROVE  SetsKey(pair, replace_key)
<1> DEFINE at == search(sa, pair.key)
           k == pair.key
           old == PairAt(at.n, at.index)
           new == IF replace_key THEN pair ELSE [old EXCEPT !.val = pair.val]
<1>1. pair \in AllPairs /\ pair.key \in Nat
  BY PairKeys
<1>2. Answer(sa, r, pair.key, at.n, at.index, at.found)
  BY <1>1, SearchFinds
<1>3. /\ at.found <=> k \in DOMAIN MapOf
      /\ at.found => old.key = k /\ Binds(sa, old) /\ MapOf[k] = old
  <2>1. Represents(sa, MapOf)
    BY MapNow
  <2>2. old = sa.heap[at.n].pairs[at.index + 1]
    BY DEF PairAt
  <2> HIDE DEF at, old
  <2> QED BY <1>1, <1>2, <2>1, <2>2, FoundIs
<1>4. PICK s : Sound(sa', s)
  BY SetSound DEF IsSound
<1>5. /\ UNCHANGED iter
      /\ \/ has_iterators /\ sa' = sa /\ Returns("LOCKED", {})
         \/ /\ ~has_iterators /\ at.found
            /\ sa' = set_found(at, pair, replace_key) /\ Returns("REPLACED", {old})
         \/ /\ ~has_iterators /\ ~at.found /\ ~(Count(sa, at.n) = NodeSize)
            /\ sa' = insert_pair(sa, at.n, at.index, pair) /\ Returns("BOUND", {})
         \/ /\ ~has_iterators /\ ~at.found /\ Count(sa, at.n) = NodeSize
            /\ \E lvl \in Levels :
                 sa' = split_and_insert(sa, at.n, at.index, node_height(lvl), pair)
            /\ Returns("BOUND", {})
         \/ ~has_iterators /\ ~at.found /\ sa' = sa /\ Returns("MEMORY", {})
  BY DEF Set, Refuse, Look, Reshape
<1>6. old = PairAt(at.n, at.index)
  OBVIOUS
<1>7. new = IF replace_key THEN pair ELSE [old EXCEPT !.val = pair.val]
  OBVIOUS
<1>8. k = pair.key
  OBVIOUS
<1> HIDE DEF at, old, new, k
<1>9. at.n \in DOMAIN sa.heap /\ (at.found => KeyAt(sa, pair.key, at.n, at.index))
      /\ (~at.found => GapAt(sa, r, pair.key, at.n, at.index))
  BY <1>2 DEF Answer
<1>10. CASE has_iterators /\ sa' = sa /\ Returns("LOCKED", {})
  BY <1>5, <1>10, MapStays DEF SetsKey
<1>11. CASE ~has_iterators /\ ~at.found /\ sa' = sa /\ Returns("MEMORY", {})
  BY <1>3, <1>5, <1>8, <1>11, MapStays DEF SetsKey
<1>12. CASE /\ ~has_iterators /\ at.found
            /\ sa' = set_found(at, pair, replace_key) /\ Returns("REPLACED", {old})
  <2>1. Swaps(sa, sa', old, new) /\ new.key = old.key
    BY <1>6, <1>7, <1>9, <1>12, set_foundSound
  <2>2. MapOf' = [MapOf EXCEPT ![k] = new]
    BY <1>3, <1>4, <1>12, <2>1, MapChanges
  <2>3. new = IF replace_key THEN pair ELSE [MapOf[k] EXCEPT !.val = pair.val]
    BY <1>3, <1>7, <1>12
  <2> QED BY <1>3, <1>5, <1>8, <1>12, <2>2, <2>3 DEF SetsKey
<1>13. ASSUME ~has_iterators, ~at.found, Gains(sa, sa', pair), Returns("BOUND", {})
       PROVE  SetsKey(pair, replace_key)
  <2>1. MapOf' = Promise!With(MapOf, k, pair)
    BY <1>3, <1>4, <1>8, <1>13, MapChanges
  <2> QED BY <1>3, <1>5, <1>8, <1>13, <2>1 DEF SetsKey
<1>14. CASE /\ ~has_iterators /\ ~at.found /\ ~(Count(sa, at.n) = NodeSize)
            /\ sa' = insert_pair(sa, at.n, at.index, pair) /\ Returns("BOUND", {})
  <2>1. Count(sa, at.n) < NodeSize
    <3>1. Count(sa, at.n) <= NodeSize
      BY <1>9 DEF Sound, Ordered
    <3>2. Count(sa, at.n) \in Nat
      BY <1>9, PairsType DEF Sound, Formed
    <3> QED BY <1>14, <3>1, <3>2, SkipListAssumption
  <2>2. Gains(sa, sa', pair)
    BY <1>1, <1>9, <1>14, <2>1, InsertedSound
  <2> QED BY <1>13, <1>14, <2>2
<1>15. CASE /\ ~has_iterators /\ ~at.found /\ Count(sa, at.n) = NodeSize
            /\ \E lvl \in Levels :
                 sa' = split_and_insert(sa, at.n, at.index, node_height(lvl), pair)
            /\ Returns("BOUND", {})
  <2>1. PICK lvl \in Levels :
          sa' = split_and_insert(sa, at.n, at.index, node_height(lvl), pair)
    BY <1>15
  <2>2. node_height(lvl) \in 1 .. MaxLevel
    BY HeightsDrawn
  <2>3. Gains(sa, sa', pair)
    BY <1>1, <1>9, <1>15, <2>1, <2>2, split_and_insertSound
  <2> QED BY <1>13, <1>15, <2>3
<1> QED BY <1>5, <1>10, <1>11, <1>12, <1>14, <1>15

\* skiparray_forget.
LEMMA ForgetOnMap ==
  ASSUME NEW r, Sound(sa, r), NEW key \in Keys, Forget(key)
  PROVE  \/ has_iterators /\ LeavesMap("LOCKED")
         \/ ~has_iterators /\ key \notin DOMAIN MapOf /\ LeavesMap("NOT_FOUND")
         \/ TakesKey(key)
<1> DEFINE at == search(sa, key)
           p == PairAt(at.n, at.index)
<1>1. Answer(sa, r, key, at.n, at.index, at.found) /\ key \in Nat
  BY PairKeys, SearchFinds
<1>2. p = sa.heap[at.n].pairs[at.index + 1]
  BY DEF PairAt
<1>3. \/ has_iterators /\ Refuse("LOCKED")
      \/ ~has_iterators /\ ~at.found /\ Refuse("NOT_FOUND")
      \/ /\ at.found /\ ~has_iterators /\ sa' = remove_at(sa, at.n, at.index)
         /\ Returns("OK", {p}) /\ UNCHANGED iter
  BY DEF Forget, Reshape
<1>4. Represents(sa, MapOf)
  BY MapNow
<1> HIDE DEF at, p
<1>5. /\ at.found <=> key \in DOMAIN MapOf
      /\ at.found => p.key = key /\ Binds(sa, p) /\ MapOf[key] = p
  BY <1>1, <1>2, <1>4, FoundIs
<1>6. ASSUME NEW res, Refuse(res)
      PROVE  LeavesMap(res)
  BY <1>6, MapStays DEF Refuse, Look, LeavesMap
<1>7. CASE has_iterators /\ Refuse("LOCKED")
  BY <1>6, <1>7
<1>8. CASE ~has_iterators /\ ~at.found /\ Refuse("NOT_FOUND")
  BY <1>5, <1>6, <1>8
<1>9. CASE /\ at.found /\ ~has_iterators /\ sa' = remove_at(sa, at.n, at.index)
           /\ Returns("OK", {p}) /\ UNCHANGED iter
  <2>1. at.n \in DOMAIN sa.heap /\ at.index \in Nat /\ KeyAt(sa, key, at.n, at.index)
    BY <1>1, <1>9 DEF Answer
  <2>2. at.index + 1 \in 1 .. Count(sa, at.n) /\ Count(sa, at.n) \in Nat
    BY <2>1, PairsType DEF KeyAt, Sound, Formed
  <2>3. at.index \in 0 .. Count(sa, at.n) - 1
    BY <2>1, <2>2
  <2>4. Sound(sa', r) /\ Loses(sa, sa', p)
    BY <1>2, <1>9, <2>1, <2>3, remove_atSound
  <2>5. MapOf' = Promise!Without(MapOf, key)
    BY <1>5, <1>9, <2>4, MapChanges
  <2> QED BY <1>5, <1>9, <2>5 DEF TakesKey
<1> QED BY <1>3, <1>7, <1>8, <1>9

\* skiparray_pop_first,
LEMMA PopFirstOnMap ==
  ASSUME NEW r, Sound(sa, r), PopFirst
  PROVE  \/ has_iterators /\ LeavesMap("LOCKED")
         \/ ~has_iterators /\ DOMAIN MapOf = {} /\ LeavesMap("EMPTY")
         \/ TakesKey(Promise!Least(DOMAIN MapOf))
<1> DEFINE n == sa.nodes[0]
           p == sa.heap[n].pairs[1]
<1>1. n \in DOMAIN sa.heap
  BY HeadIsThere DEF Sound
<1>2. \/ has_iterators /\ Refuse("LOCKED")
      \/ ~has_iterators /\ Count(sa, n) = 0 /\ Refuse("EMPTY")
      \/ /\ Count(sa, n) > 0 /\ ~has_iterators /\ sa' = remove_first(sa)
         /\ Returns("OK", {p}) /\ UNCHANGED iter
  BY DEF PopFirst, Reshape, PairAt
<1>3. Represents(sa, MapOf)
  BY MapNow
<1>4. n = sa.nodes[0] /\ p = sa.heap[n].pairs[1]
  OBVIOUS
<1> HIDE DEF n, p
<1>5. ASSUME NEW res, Refuse(res)
      PROVE  LeavesMap(res)
  BY <1>5, MapStays DEF Refuse, Look, LeavesMap
<1>6. CASE has_iterators /\ Refuse("LOCKED")
  BY <1>5, <1>6
<1>7. CASE ~has_iterators /\ Count(sa, n) = 0 /\ Refuse("EMPTY")
  <2>1. DOMAIN MapOf = {}
    BY <1>1, <1>3, <1>7, EmptyIs
  <2> QED BY <1>5, <1>7, <2>1
<1>8. CASE /\ Count(sa, n) > 0 /\ ~has_iterators /\ sa' = remove_first(sa)
           /\ Returns("OK", {p}) /\ UNCHANGED iter
  <2>1. Sound(sa', r) /\ Loses(sa, sa', p)
    BY <1>1, <1>4, <1>8, remove_firstSound
  <2>2. /\ Binds(sa, p) /\ p.key \in DOMAIN MapOf /\ MapOf[p.key] = p
        /\ p.key = Promise!Least(DOMAIN MapOf)
    BY <1>3, <1>4, <1>8, FirstIs
  <2>3. MapOf' = Promise!Without(MapOf, p.key)
    BY <2>1, <2>2, MapChanges
  <2>4. TakesKey(p.key)
    BY <1>8, <2>2, <2>3 DEF TakesKey
  <2> QED BY <2>2, <2>4
<1> QED BY <1>2, <1>6, <1>7, <1>8

\* and skiparray_pop_last.
LEMMA PopLastOnMap ==
  ASSUME NEW r, Sound(sa, r), PopLast
  PROVE  \/ has_iterators /\ LeavesMap("LOCKED")
         \/ ~has_iterators /\ DOMAIN MapOf = {} /\ LeavesMap("EMPTY")
         \/ TakesKey(Promise!Greatest(DOMAIN MapOf))
<1> DEFINE head == sa.nodes[0]
           n == last_node(sa)
           p == sa.heap[n].pairs[Count(sa, n)]
<1>1. head \in DOMAIN sa.heap /\ n \in DOMAIN sa.heap
  BY HeadIsThere, last_nodeIsLast DEF Sound
<1>2. \/ has_iterators /\ Refuse("LOCKED")
      \/ ~has_iterators /\ Count(sa, head) = 0 /\ Refuse("EMPTY")
      \/ /\ Count(sa, head) > 0 /\ ~has_iterators /\ sa' = remove_last(sa)
         /\ Returns("OK", {PairAt(n, Count(sa, n) - 1)}) /\ UNCHANGED iter
  BY DEF PopLast, Reshape
<1>3. Represents(sa, MapOf)
  BY MapNow
<1>4. n = last_node(sa) /\ p = sa.heap[n].pairs[Count(sa, n)]
  OBVIOUS
<1> HIDE DEF head, n, p
<1>5. ASSUME NEW res, Refuse(res)
      PROVE  LeavesMap(res)
  BY <1>5, MapStays DEF Refuse, Look, LeavesMap
<1>6. CASE has_iterators /\ Refuse("LOCKED")
  BY <1>5, <1>6
<1>7. CASE ~has_iterators /\ Count(sa, head) = 0 /\ Refuse("EMPTY")
  <2>1. DOMAIN MapOf = {}
    BY <1>1, <1>3, <1>7, EmptyIs
  <2> QED BY <1>5, <1>7, <2>1
<1>8. CASE /\ Count(sa, head) > 0 /\ ~has_iterators /\ sa' = remove_last(sa)
           /\ Returns("OK", {PairAt(n, Count(sa, n) - 1)}) /\ UNCHANGED iter
  <2>1. Count(sa, head) \in Nat /\ Count(sa, n) \in Nat
    BY <1>1, PairsType DEF Sound, Formed
  <2>2. Count(sa, n) > 0
    BY <1>1, <1>3, <1>8, <2>1, EmptyIs
  <2>3. PairAt(n, Count(sa, n) - 1) = p
    <3>1. Count(sa, n) - 1 + 1 = Count(sa, n)
      BY <2>1
    <3> QED BY <1>4, <3>1 DEF PairAt
  <2>4. Sound(sa', r) /\ Loses(sa, sa', p)
    BY <1>4, <1>8, <2>2, remove_lastSound
  <2>5. /\ Binds(sa, p) /\ p.key \in DOMAIN MapOf /\ MapOf[p.key] = p
        /\ p.key = Promise!Greatest(DOMAIN MapOf)
    BY <1>3, <1>4, <2>2, LastIsGreatest
  <2>6. MapOf' = Promise!Without(MapOf, p.key)
    BY <2>4, <2>5, MapChanges
  <2>7. TakesKey(p.key)
    BY <1>8, <2>3, <2>5, <2>6 DEF TakesKey
  <2> QED BY <2>5, <2>7
<1> QED BY <1>2, <1>6, <1>7, <1>8

\* The queries.
ReadsKey(k) ==
  /\ UNCHANGED iter /\ MapOf' = MapOf /\ k \in DOMAIN MapOf /\ Returns("OK", {MapOf[k]})

\* skiparray_get_pair.
LEMMA GetOnMap ==
  ASSUME NEW r, Sound(sa, r), NEW key \in Keys, Get(key)
  PROVE  \/ key \notin DOMAIN MapOf /\ LeavesMap("NOT_FOUND")
         \/ ReadsKey(key)
<1> DEFINE at == search(sa, key)
           p == PairAt(at.n, at.index)
<1>1. Answer(sa, r, key, at.n, at.index, at.found) /\ key \in Nat
  BY PairKeys, SearchFinds
<1>2. p = sa.heap[at.n].pairs[at.index + 1]
  BY DEF PairAt
<1>3. \/ at.found /\ Look("OK", {p})
      \/ ~at.found /\ Look("NOT_FOUND", {})
  BY DEF Get
<1>4. Represents(sa, MapOf)
  BY MapNow
<1> HIDE DEF at, p
<1>5. /\ at.found <=> key \in DOMAIN MapOf
      /\ at.found => p.key = key /\ Binds(sa, p) /\ MapOf[key] = p
  BY <1>1, <1>2, <1>4, FoundIs
<1>6. MapOf' = MapOf
  BY <1>3, MapStays DEF Look
<1> QED BY <1>3, <1>5, <1>6 DEF Look, LeavesMap, ReadsKey

\* skiparray_first.
LEMMA FirstOnMap ==
  ASSUME NEW r, Sound(sa, r), FirstPair
  PROVE  \/ DOMAIN MapOf = {} /\ LeavesMap("EMPTY")
         \/ DOMAIN MapOf # {} /\ ReadsKey(Promise!Least(DOMAIN MapOf))
<1> DEFINE n == sa.nodes[0]
           p == sa.heap[n].pairs[1]
<1>1. n \in DOMAIN sa.heap
  BY HeadIsThere DEF Sound
<1>2. \/ Count(sa, n) = 0 /\ Look("EMPTY", {})
      \/ Count(sa, n) > 0 /\ Look("OK", {p})
  BY DEF FirstPair, PairAt
<1>3. Represents(sa, MapOf)
  BY MapNow
<1>4. n = sa.nodes[0] /\ p = sa.heap[n].pairs[1]
  OBVIOUS
<1> HIDE DEF n, p
<1>5. MapOf' = MapOf
  BY <1>2, MapStays DEF Look
<1>6. CASE Count(sa, n) = 0 /\ Look("EMPTY", {})
  <2>1. DOMAIN MapOf = {}
    BY <1>1, <1>3, <1>6, EmptyIs
  <2> QED BY <1>5, <1>6, <2>1 DEF Look, LeavesMap
<1>7. CASE Count(sa, n) > 0 /\ Look("OK", {p})
  <2>1. /\ Binds(sa, p) /\ p.key \in DOMAIN MapOf /\ MapOf[p.key] = p
        /\ p.key = Promise!Least(DOMAIN MapOf)
    BY <1>3, <1>4, <1>7, FirstIs
  <2>2. ReadsKey(p.key)
    BY <1>5, <1>7, <2>1 DEF Look, ReadsKey
  <2> QED BY <2>1, <2>2
<1> QED BY <1>2, <1>6, <1>7

\* skiparray_last.
LEMMA LastOnMap ==
  ASSUME NEW r, Sound(sa, r), LastPair
  PROVE  \/ DOMAIN MapOf = {} /\ LeavesMap("EMPTY")
         \/ DOMAIN MapOf # {} /\ ReadsKey(Promise!Greatest(DOMAIN MapOf))
<1> DEFINE n == last_node(sa)
           p == sa.heap[n].pairs[Count(sa, n)]
<1>1. n \in DOMAIN sa.heap
  BY last_nodeIsLast DEF Sound
<1>2. \/ Count(sa, n) = 0 /\ Look("EMPTY", {})
      \/ Count(sa, n) > 0 /\ Look("OK", {PairAt(n, Count(sa, n) - 1)})
  BY DEF LastPair
<1>3. Represents(sa, MapOf)
  BY MapNow
<1>4. n = last_node(sa) /\ p = sa.heap[n].pairs[Count(sa, n)]
  OBVIOUS
<1> HIDE DEF n, p
<1>5. MapOf' = MapOf
  BY <1>2, MapStays DEF Look
<1>6. CASE Count(sa, n) = 0 /\ Look("EMPTY", {})
  <2>1. DOMAIN MapOf = {}
    BY <1>1, <1>3, <1>6, EmptyIs
  <2> QED BY <1>5, <1>6, <2>1 DEF Look, LeavesMap
<1>7. CASE Count(sa, n) > 0 /\ Look("OK", {PairAt(n, Count(sa, n) - 1)})
  <2>1. PairAt(n, Count(sa, n) - 1) = p
    <3>1. Count(sa, n) \in Nat
      BY <1>1, PairsType DEF Sound, Formed
    <3>2. Count(sa, n) - 1 + 1 = Count(sa, n)
      BY <3>1
    <3> QED BY <1>4, <3>2 DEF PairAt
  <2>2. /\ Binds(sa, p) /\ p.key \in DOMAIN MapOf /\ MapOf[p.key] = p
        /\ p.key = Promise!Greatest(DOMAIN MapOf)
    BY <1>3, <1>4, <1>7, LastIsGreatest
  <2>3. ReadsKey(p.key)
    BY <1>5, <1>7, <2>1, <2>2 DEF Look, ReadsKey
  <2> QED BY <2>2, <2>3
<1> QED BY <1>2, <1>6, <1>7

-----------------------------------------------------------------------------
(* The bindings, from the first node to the last, in one list.             *)

\* Nodes that ascend, one after the other, make a list that does.
LEMMA FlattenAscends ==
  ASSUME NEW s \in Seq(Seq(AllPairs)), \A i \in 1 .. Len(s) : Ascending(s[i]),
         \A i, j \in 1 .. Len(s) : i < j => Below(s[i], s[j])
  PROVE  Ascending(FlattenSeq(s))
<1> DEFINE Sorts(u) == /\ \A i \in 1 .. Len(u) : Ascending(u[i])
                       /\ \A i, j \in 1 .. Len(u) : i < j => Below(u[i], u[j])
           T == {n \in Nat : \A u \in Seq(Seq(AllPairs)) :
                   Len(u) = n /\ Sorts(u) => Ascending(FlattenSeq(u))}
<1>1. 0 \in T
  <2>1. ASSUME NEW u \in Seq(Seq(AllPairs)), Len(u) = 0
        PROVE  Ascending(FlattenSeq(u))
    <3>1. u = << >>
      BY <2>1, EmptySeq
    <3> QED BY <3>1, FlattenEmpty DEF Ascending
  <2> QED BY <2>1
<1>2. ASSUME NEW n \in Nat, n \in T
      PROVE  n + 1 \in T
  <2>1. ASSUME NEW u \in Seq(Seq(AllPairs)), Len(u) = n + 1, Sorts(u)
        PROVE  Ascending(FlattenSeq(u))
    <3>1. u # << >>
      BY <2>1, EmptySeq
    <3>2. PICK v \in Seq(Seq(AllPairs)), t \in Seq(AllPairs) : u = Append(v, t)
      BY <3>1, SequenceEmptyOrAppend
    <3>3. /\ Len(v) = n /\ u[n + 1] = t
          /\ \A i \in 1 .. n : u[i] = v[i]
      BY <2>1, <3>2, AppendProperties, LenProperties
    <3>4. n + 1 \in 1 .. Len(u) /\ \A i \in 1 .. n : i \in 1 .. Len(u) /\ i < n + 1
      BY <2>1
    <3>5. Sorts(v) /\ Ascending(t) /\ \A i \in 1 .. Len(v) : Below(v[i], t)
      BY <2>1, <3>3, <3>4
    <3> DEFINE w == FlattenSeq(v)
    <3>6. Ascending(w)
      BY <1>2, <3>3, <3>5
    <3>7. FlattenSeq(u) = w \o t /\ w \in Seq(AllPairs)
      BY <3>2, FlattenAppend, FlattenType
    <3>8. \A p : Contains(w, p) => \E i \in 1 .. Len(v) : Contains(v[i], p)
      BY FlattenContains
    <3> HIDE DEF w
    <3>9. Below(w, t)
      <4> SUFFICES ASSUME NEW i \in DOMAIN w, NEW j \in DOMAIN t
                   PROVE  w[i].key < t[j].key
        BY DEF Below
      <4>1. DOMAIN w = 1 .. Len(w)
        BY <3>7, LenProperties
      <4>2. Contains(w, w[i])
        BY <4>1 DEF Contains
      <4>3. PICK q \in 1 .. Len(v) : Contains(v[q], w[i])
        BY <3>8, <4>2
      <4>4. v[q] \in Seq(AllPairs)
        BY <4>3, ElementOfSeq
      <4>5. DOMAIN v[q] = 1 .. Len(v[q])
        BY <4>4, LenProperties
      <4>6. PICK k \in DOMAIN v[q] : v[q][k] = w[i]
        BY <4>3, <4>5 DEF Contains
      <4>7. v[q][k].key < t[j].key
        BY <3>5, <4>3 DEF Below
      <4> QED BY <4>6, <4>7
    <3> QED BY <3>5, <3>6, <3>7, <3>9, RowAscends
  <2> HIDE DEF Sorts
  <2> QED BY <2>1
<1>3. Nat \subseteq T
  <2> HIDE DEF T
  <2> QED BY <1>1, <1>2, NaturalsInSet
<1>4. Len(s) \in T /\ Sorts(s)
  BY <1>3, LenProperties
<1> HIDE DEF Sorts
<1> QED BY <1>4

\* The pairs of each node of level 0, in order.
Rows(a) == [i \in DOMAIN Chain(a, 0) |-> a.heap[Chain(a, 0)[i]].pairs]

\* c runs through the nodes of a as r orders them, and s has their pairs.
RowsOf(a, r, c, s) ==
  /\ c \in Seq(DOMAIN a.heap) /\ DOMAIN c = 1 .. Len(c) /\ Len(c) \in Nat
  /\ \A n \in DOMAIN a.heap : \E i \in 1 .. Len(c) : c[i] = n
  /\ \A i, j \in 1 .. Len(c) : i < j => r[c[i]] < r[c[j]]
  /\ s \in Seq(Seq(AllPairs)) /\ Len(s) = Len(c)
  /\ \A i \in 1 .. Len(c) : c[i] \in DOMAIN a.heap /\ s[i] = a.heap[c[i]].pairs

\* So it is with level 0.
LEMMA RowOfNodes ==
  ASSUME NEW a, NEW r, Formed(a, r)
  PROVE  RowsOf(a, r, Chain(a, 0), Rows(a))
<1> DEFINE c == Chain(a, 0)
           s == Rows(a)
<1>0. s = [i \in DOMAIN c |-> a.heap[c[i]].pairs]
  BY DEF Rows
<1>1. /\ a \in SkipArrays /\ OnLevel(a, 0) = DOMAIN a.heap /\ 0 \in LevelSet
  BY FormedFacts
<1>2. Lists(r, c, DOMAIN a.heap)
  BY <1>1, ChainLists
<1> HIDE DEF c, s
<1>3. c \in Seq(DOMAIN a.heap) /\ DOMAIN c = 1 .. Len(c) /\ Len(c) \in Nat
  BY <1>2, LenProperties DEF Lists
<1>4. \A i \in 1 .. Len(c) : c[i] \in DOMAIN a.heap /\ a.heap[c[i]].pairs \in Seq(AllPairs)
  BY <1>1, <1>3, ElementOfSeq, PairsType
<1>5. s \in Seq(Seq(AllPairs)) /\ Len(s) = Len(c)
  BY <1>0, <1>3, <1>4
<1>6. \A i \in 1 .. Len(c) : s[i] = a.heap[c[i]].pairs
  BY <1>0, <1>3
<1>7. RowsOf(a, r, c, s)
  BY <1>2, <1>3, <1>4, <1>5, <1>6 DEF Lists, RowsOf
<1> QED BY <1>7 DEF c, s

\* Bindings lists the bindings, and the keys ascend from first to last.
LEMMA BindingsAre ==
  ASSUME NEW a, NEW r, Formed(a, r), Sorted(a, r), NEW u, u = Bindings(a)
  PROVE  /\ u \in Seq(AllPairs) /\ Ascending(u)
         /\ \A p : Contains(u, p) <=> Binds(a, p)
<1> DEFINE c == Chain(a, 0)
           s == Rows(a)
<1>1. u = FlattenSeq(s)
  BY DEF Bindings, Rows
<1>10. RowsOf(a, r, c, s)
  BY RowOfNodes
<1> HIDE DEF c, s
<1>2. /\ Len(c) \in Nat
      /\ \A n \in DOMAIN a.heap : \E i \in 1 .. Len(c) : c[i] = n
      /\ \A i, j \in 1 .. Len(c) : i < j => r[c[i]] < r[c[j]]
      /\ s \in Seq(Seq(AllPairs)) /\ Len(s) = Len(c)
      /\ \A i \in 1 .. Len(c) : c[i] \in DOMAIN a.heap /\ s[i] = a.heap[c[i]].pairs
  BY <1>10 DEF RowsOf
<1>3. u \in Seq(AllPairs)
  BY <1>1, <1>2, FlattenType
<1>4. \A i \in 1 .. Len(s) : Ascending(s[i])
  BY <1>2 DEF Sorted
<1>5. \A i, j \in 1 .. Len(s) : i < j => Below(s[i], s[j])
  BY <1>2 DEF Sorted
<1>6. Ascending(u)
  BY <1>1, <1>2, <1>4, <1>5, FlattenAscends
<1>7. ASSUME NEW p
      PROVE  Contains(u, p) <=> Binds(a, p)
  <2>1. Contains(u, p) <=> \E i \in 1 .. Len(s) : Contains(s[i], p)
    <3>1. Contains(FlattenSeq(s), p) <=> \E i \in 1 .. Len(s) : Contains(s[i], p)
      BY <1>2, FlattenContains
    <3> QED BY <1>1, <3>1
  <2> QED BY <1>2, <2>1 DEF Binds
<1> QED BY <1>3, <1>6, <1>7

\* skiparray_count counts them,
LEMMA CountsBindings ==
  ASSUME NEW r, Formed(sa, r)
  PROVE  skiparray_count = Len(Bindings(sa))
<1> DEFINE c == Chain(sa, 0)
           s == Rows(sa)
           Adds(f) == [i \in 0 .. Len(c) |-> IF i = 0 THEN 0 ELSE f[i - 1] + Count(sa, c[i])]
           total == CHOOSE f : f = Adds(f)
<1>1. RowsOf(sa, r, c, s)
  BY RowOfNodes
<1>2. skiparray_count = total[Len(c)] /\ Bindings(sa) = FlattenSeq(s)
  BY DEF skiparray_count, Bindings, Rows
<1> HIDE DEF c, s
<1>3. /\ Len(c) \in Nat /\ DOMAIN c = 1 .. Len(c)
      /\ s \in Seq(Seq(AllPairs)) /\ Len(s) = Len(c)
      /\ \A i \in 1 .. Len(c) : c[i] \in DOMAIN sa.heap /\ s[i] = sa.heap[c[i]].pairs
  BY <1>1 DEF RowsOf
<1>4. \A i \in 1 .. Len(c) : Count(sa, c[i]) = Len(s[i]) /\ Len(s[i]) \in Nat
  BY <1>3, ElementOfSeq, LenProperties DEF Count
<1>5. \E f : f = Adds(f)
  <2> DEFINE step == [p \in Nat \X Nat |->
                        IF p[1] + 1 <= Len(c) THEN p[2] + Len(s[p[1] + 1]) ELSE p[2]]
  <2>1. step \in [Nat \X Nat -> Nat]
    <3>1. ASSUME NEW p \in Nat \X Nat
          PROVE  (IF p[1] + 1 <= Len(c) THEN p[2] + Len(s[p[1] + 1]) ELSE p[2]) \in Nat
      <4>1. CASE p[1] + 1 <= Len(c)
        <5>1. p[2] \in Nat /\ p[1] + 1 \in 1 .. Len(c)
          BY <1>3, <4>1
        <5> QED BY <1>4, <4>1, <5>1
      <4> QED BY <4>1
    <3> QED BY <3>1
  <2> HIDE DEF step
  <2>2. PICK f \in [Nat -> Nat] : \A m \in Nat : Recurs(f, m, 0, step)
    BY <2>1, RecursionExists
  <2> DEFINE g == [i \in 0 .. Len(c) |-> f[i]]
  <2>3. ASSUME NEW i \in 0 .. Len(c)
        PROVE  f[i] = IF i = 0 THEN 0 ELSE g[i - 1] + Count(sa, c[i])
    <3>1. CASE i = 0
      BY <2>2, <3>1 DEF Recurs
    <3>2. CASE i # 0
      <4>1. i - 1 \in 0 .. i - 1 /\ i \in Nat /\ i \in 1 .. Len(c) /\ (i - 1) + 1 = i
            /\ i - 1 \in Nat /\ i - 1 \in 0 .. Len(c) /\ i <= Len(c)
        BY <1>3, <3>2
      <4>2. f[(i - 1) + 1] = step[<<i - 1, f[i - 1]>>]
        BY <2>2, <4>1 DEF Recurs
      <4>3. f[i - 1] \in Nat /\ <<i - 1, f[i - 1]>> \in Nat \X Nat
        BY <2>2, <4>1
      <4>4. step[<<i - 1, f[i - 1]>>] = f[i - 1] + Len(s[i])
        BY <4>1, <4>3 DEF step
      <4> QED BY <1>4, <3>2, <4>1, <4>2, <4>4
    <3> QED BY <3>1, <3>2
  <2>4. g = Adds(g)
    BY <2>3
  <2> QED BY <2>4
<1>6. total = Adds(total)
  BY <1>5
<1> HIDE DEF total
<1>7. total[0] = 0 /\ \A i \in 1 .. Len(s) : total[i] = total[i - 1] + Len(s[i])
  <2>1. 0 \in 0 .. Len(c) /\ \A i \in 1 .. Len(c) : i \in 0 .. Len(c) /\ i # 0
    BY <1>3
  <2>2. \A i \in 0 .. Len(c) : total[i] = IF i = 0 THEN 0 ELSE total[i - 1] + Count(sa, c[i])
    BY <1>6, Zenon
  <2> QED BY <1>3, <1>4, <2>1, <2>2
<1>8. total[Len(s)] = Len(FlattenSeq(s))
  BY <1>3, <1>7, FlattenLength
<1> QED BY <1>2, <1>3, <1>8

\* and so the keys of the map.
LEMMA CountOnMap ==
  ASSUME NEW r, Sound(sa, r)
  PROVE  skiparray_count = Cardinality(DOMAIN MapOf)
<1> DEFINE u == Bindings(sa)
           m == MapOf
           f == [i \in 1 .. Len(u) |-> u[i].key]
<1>1. Formed(sa, r) /\ Sorted(sa, r)
  BY DEF Sound, Ordered, Sorted
<1>2. /\ u \in Seq(AllPairs) /\ Ascending(u)
      /\ \A p : Contains(u, p) <=> Binds(sa, p)
  BY <1>1, BindingsAre
<1>3. Represents(sa, m)
  BY MapNow
<1> HIDE DEF u, m
<1>4. Len(u) \in Nat /\ DOMAIN u = 1 .. Len(u) /\ \A i \in 1 .. Len(u) : u[i].key \in Nat
  BY <1>2, LenProperties, ElementOfSeq, PairKeys
<1>5. f \in [1 .. Len(u) -> DOMAIN m]
  <2>1. ASSUME NEW i \in 1 .. Len(u) PROVE u[i].key \in DOMAIN m
    <3>1. Contains(u, u[i])
      BY DEF Contains
    <3> QED BY <1>2, <1>3, <3>1 DEF Represents
  <2> QED BY <2>1
<1>6. \A i, j \in 1 .. Len(u) : f[i] = f[j] => i = j
  BY <1>2, <1>4 DEF Ascending
<1>7. \A k \in DOMAIN m : \E i \in 1 .. Len(u) : f[i] = k
  <2> SUFFICES ASSUME NEW k \in DOMAIN m
               PROVE  \E i \in 1 .. Len(u) : f[i] = k
    OBVIOUS
  <2>1. Contains(u, m[k]) /\ m[k].key = k
    BY <1>2, <1>3 DEF Represents
  <2> QED BY <2>1 DEF Contains
<1>8. ExistsBijection(1 .. Len(u), DOMAIN m)
  <2> HIDE DEF f
  <2>1. f \in Bijection(1 .. Len(u), DOMAIN m)
    BY <1>5, <1>6, <1>7 DEF Bijection, Injection, Surjection, IsInjective
  <2> QED BY <2>1 DEF ExistsBijection
<1>9. IsFiniteSet(1 .. Len(u)) /\ Cardinality(1 .. Len(u)) = Len(u)
  <2> DEFINE n == Len(u)
  <2>1. n \in Nat /\ n \in Int /\ 1 \in Int
    BY <1>4
  <2> HIDE DEF n
  <2>2. IsFiniteSet(1 .. n) /\ Cardinality(1 .. n) = IF 1 > n THEN 0 ELSE n - 1 + 1
    BY ONLY <2>1, FS_Interval
  <2>3. (IF 1 > n THEN 0 ELSE n - 1 + 1) = n
    BY <2>1
  <2> QED BY <2>2, <2>3 DEF n
<1>10. Cardinality(DOMAIN m) = Len(u)
  BY <1>8, <1>9, FS_Bijection
<1>11. skiparray_count = Len(u)
  BY <1>1, CountsBindings DEF u
<1> QED BY <1>10, <1>11 DEF m

-----------------------------------------------------------------------------
(* The skiparray is an ordered map.                                        *)

\* A skiparray with no iterator is not locked, and its iterators stay put.
LEMMA PromiseUnlocked ==
  /\ Promise!Unlocked
  /\ \A res, pairs : /\ Promise!Returns(res, pairs) <=> Returns(res, pairs)
                     /\ Promise!Look(res, pairs) <=> Returns(res, pairs) /\ MapOf' = MapOf
  /\ Promise!Bound = DOMAIN MapOf
BY DEF Promise!Unlocked, Promise!Returns, Returns, Promise!Look, Promise!Bound

\* A call that sets a key.
LEMMA SetPromised ==
  ASSUME NEW pair \in Pair, NEW replace_key \in BOOLEAN, ~has_iterators,
         Set(pair, replace_key), SetsKey(pair, replace_key)
  PROVE  Promise!Set(pair, replace_key)
<1>1. call' = <<"set", pair, replace_key>>
  BY DEF Set
<1> QED BY <1>1, PromiseUnlocked DEF SetsKey, Promise!Set, Promise!Refuse

\* A call that takes key k.
LEMMA TakePromised ==
  ASSUME NEW k, ~has_iterators, TakesKey(k)
  PROVE  Promise!Remove(k)
BY PromiseUnlocked DEF TakesKey, Promise!Remove

\* skiparray_forget.
LEMMA ForgetPromised ==
  ASSUME NEW r, Sound(sa, r), ~has_iterators, NEW key \in Keys, Forget(key)
  PROVE  Promise!Forget(key)
<1>1. call' = <<"forget", key>>
  BY DEF Forget
<1>2. CASE key \notin DOMAIN MapOf /\ LeavesMap("NOT_FOUND")
  BY <1>1, <1>2, PromiseUnlocked DEF LeavesMap, Promise!Forget, Promise!Refuse
<1>3. CASE TakesKey(key)
  BY <1>1, <1>3, PromiseUnlocked, TakePromised DEF TakesKey, Promise!Forget
<1> QED BY <1>2, <1>3, ForgetOnMap

\* skiparray_pop_first.
LEMMA PopFirstPromised ==
  ASSUME NEW r, Sound(sa, r), ~has_iterators, PopFirst
  PROVE  Promise!PopFirst
<1> DEFINE k == Promise!Least(DOMAIN MapOf)
<1>1. call' = <<"pop_first">>
  BY DEF PopFirst
<1>2. CASE DOMAIN MapOf = {} /\ LeavesMap("EMPTY")
  BY <1>1, <1>2, PromiseUnlocked
     DEF LeavesMap, Promise!PopFirst, Promise!Pop, Promise!Refuse
<1>3. CASE TakesKey(k)
  <2>1. Promise!Remove(k) /\ DOMAIN MapOf # {}
    BY <1>3, TakePromised DEF TakesKey
  <2> QED BY <1>1, <2>1, PromiseUnlocked DEF Promise!PopFirst, Promise!Pop
<1> QED BY <1>2, <1>3, PopFirstOnMap

\* skiparray_count.
LEMMA CountPromised ==
  ASSUME NEW r, Sound(sa, r), CountPairs
  PROVE  Promise!CountPairs
<1>1. call' = <<"count">> /\ Returns(skiparray_count, {}) /\ sa' = sa
  BY DEF CountPairs, Look
<1>2. MapOf' = MapOf
  BY <1>1, MapStays
<1>3. skiparray_count = Cardinality(DOMAIN MapOf)
  BY CountOnMap
<1>4. Promise!Look(skiparray_count, {})
  BY <1>1, <1>2, PromiseUnlocked
<1>5. Promise!Look(Cardinality(Promise!Bound), {})
  BY <1>3, <1>4, PromiseUnlocked
<1>6. Promise!Cardinality(DOMAIN MapOf) = Cardinality(DOMAIN MapOf)
  BY DEF Promise!Cardinality, Cardinality
<1> QED BY <1>1, <1>5, <1>6, PromiseUnlocked DEF Promise!CountPairs

\* skiparray_pop_last.
LEMMA PopLastPromised ==
  ASSUME NEW r, Sound(sa, r), ~has_iterators, PopLast
  PROVE  Promise!PopLast
<1> DEFINE k == Promise!Greatest(DOMAIN MapOf)
<1>1. call' = <<"pop_last">>
  BY DEF PopLast
<1>2. CASE DOMAIN MapOf = {} /\ LeavesMap("EMPTY")
  BY <1>1, <1>2, PromiseUnlocked
     DEF LeavesMap, Promise!PopLast, Promise!Pop, Promise!Refuse
<1>3. CASE TakesKey(k)
  <2>1. Promise!Remove(k) /\ DOMAIN MapOf # {}
    BY <1>3, TakePromised DEF TakesKey
  <2> QED BY <1>1, <2>1, PromiseUnlocked DEF Promise!PopLast, Promise!Pop
<1> QED BY <1>2, <1>3, PopLastOnMap

\* The calls that only read.
LEMMA QueriesPromised ==
  ASSUME NEW r, Sound(sa, r)
  PROVE  /\ \A key \in Keys : Get(key) => Promise!Get(key)
         /\ FirstPair => Promise!FirstPair
         /\ LastPair => Promise!LastPair
<1>1. ASSUME NEW k, ReadsKey(k)
      PROVE  k \in Promise!Bound /\ Promise!Look("OK", {MapOf[k]})
  BY <1>1, PromiseUnlocked DEF ReadsKey
<1>2. ASSUME NEW res, LeavesMap(res)
      PROVE  Promise!Look(res, {})
  BY <1>2, PromiseUnlocked DEF LeavesMap
<1>3. ASSUME NEW key \in Keys, Get(key)
      PROVE  Promise!Get(key)
  <2>1. call' = <<"get", key>>
    BY <1>3 DEF Get
  <2>2. (key \notin DOMAIN MapOf /\ LeavesMap("NOT_FOUND")) \/ ReadsKey(key)
    BY <1>3, GetOnMap
  <2> QED BY <1>1, <1>2, <2>1, <2>2, PromiseUnlocked DEF Promise!Get
<1>4. ASSUME FirstPair
      PROVE  Promise!FirstPair
  <2>1. call' = <<"first">>
    BY <1>4 DEF FirstPair
  <2>2. \/ DOMAIN MapOf = {} /\ LeavesMap("EMPTY")
        \/ DOMAIN MapOf # {} /\ ReadsKey(Promise!Least(DOMAIN MapOf))
    BY <1>4, FirstOnMap
  <2> QED BY <1>1, <1>2, <2>1, <2>2, PromiseUnlocked
          DEF Promise!FirstPair, Promise!Endpoint
<1>5. ASSUME LastPair
      PROVE  Promise!LastPair
  <2>1. call' = <<"last">>
    BY <1>5 DEF LastPair
  <2>2. \/ DOMAIN MapOf = {} /\ LeavesMap("EMPTY")
        \/ DOMAIN MapOf # {} /\ ReadsKey(Promise!Greatest(DOMAIN MapOf))
    BY <1>5, LastOnMap
  <2> QED BY <1>1, <1>2, <2>1, <2>2, PromiseUnlocked
          DEF Promise!LastPair, Promise!Endpoint
<1> QED BY <1>3, <1>4, <1>5

\* So every call, on a skiparray without iterators, is one of an ordered map.
LEMMA CallsPromised ==
  ASSUME NEW r, Sound(sa, r), ~has_iterators, Next
  PROVE  Promise!Next
<1>1. ASSUME NEW pair \in Pair, NEW replace_key \in BOOLEAN, Set(pair, replace_key)
      PROVE  Promise!Set(pair, replace_key)
  BY <1>1, SetOnMap, SetPromised
<1>2. \A key \in Keys : Forget(key) => Promise!Forget(key)
  BY ForgetPromised
<1>3. (PopFirst => Promise!PopFirst) /\ (PopLast => Promise!PopLast)
  BY PopFirstPromised, PopLastPromised
<1>4. CountPairs => Promise!CountPairs
  BY CountPromised
<1>5. Promise!Keys = Keys
  BY DEF Promise!Keys, Keys
<1> QED BY <1>1, <1>2, <1>3, <1>4, <1>5, QueriesPromised DEF Next, Promise!Next

\* Without iterators the skiparray stays unlocked.
LEMMA NextUnlocked ==
  ASSUME Next
  PROVE  iter' = iter
BY DEF Next, Set, Forget, PopFirst, PopLast, Get, CountPairs, FirstPair, LastPair,
       Refuse, Look, Reshape

\* A new skiparray is an empty map.
LEMMA NewMap ==
  ASSUME NEW r, Sound(sa, r), DOMAIN sa.heap = {1}, sa.heap[1].pairs = << >>
  PROVE  MapOf = [k \in {} |-> 0]
<1>1. \A p : ~Binds(sa, p)
  BY DEF Binds, Contains
<1>2. Represents(sa, MapOf)
  BY MapNow
<1> DEFINE m == MapOf
<1> HIDE DEF m
<1>3. Represents(sa, m)
  BY <1>2 DEF m
<1>4. DOMAIN m = {} /\ m = [k \in DOMAIN m |-> m[k]]
  BY <1>1, <1>3 DEF Represents
<1>5. m = [k \in {} |-> 0]
  BY <1>4
<1> QED BY <1>5 DEF m

\* Whatever calls a client makes, with no iterator live, from skiparray_new on:
\* together they are the calls of a finite map over ordered keys, and each
\* returns what that map answers.
THEOREM IsOrderedMap == Spec => Promise!Spec
<1> DEFINE Inv == IsSound(sa) /\ ~has_iterators
<1>1. Init => Inv /\ Promise!Init
  <2> SUFFICES ASSUME Init
               PROVE  Inv /\ Promise!Init
    OBVIOUS
  <2>1. PICK lvl \in Levels : sa = skiparray_new(lvl)
    BY DEF Init
  <2>2. PICK r : Sound(sa, r) /\ DOMAIN sa.heap = {1} /\ sa.heap[1].pairs = << >>
    BY <2>1, skiparray_newSound
  <2>3. MapOf = [k \in {} |-> 0]
    BY <2>2, NewMap
  <2> QED BY <2>2, <2>3 DEF Init, IsSound, has_iterators, Promise!Init
<1>2. Inv /\ [Next]_vars => Inv' /\ [Promise!Next]_(Promise!vars)
  <2> SUFFICES ASSUME Inv, [Next]_vars
               PROVE  Inv' /\ [Promise!Next]_(Promise!vars)
    OBVIOUS
  <2>1. CASE Next
    BY <2>1, NextSound, NextUnlocked, CallsPromised DEF IsSound, has_iterators
  <2>2. CASE UNCHANGED vars
    BY <2>2, MapStays DEF vars, IsSound, has_iterators, Promise!vars
  <2> QED BY <2>1, <2>2
<1> QED BY <1>1, <1>2, PTL DEF Spec, Promise!Spec

\* What is sound before and after finish, with no iterator live.
BuiltUnlocked == BuiltInv /\ ~has_iterators

\* No call of the builder, nor one on what it built, makes an iterator.
LEMMA BuiltStaysUnlocked == BuiltSpec => []BuiltUnlocked
<1>1. BuilderNew => ~has_iterators
  BY DEF BuilderNew, has_iterators
<1>2. ~has_iterators /\ [BuiltNext]_BuiltVars => ~has_iterators'
  BY NextUnlocked
     DEF BuiltNext, BuilderAppend, BuilderRefuse, BuilderFinish, Use, Refuse, Look,
         BuiltVars, has_iterators
<1> QED BY <1>1, <1>2, BuiltStaysSound, PTL DEF BuiltSpec, BuiltUnlocked

\* A skiparray that was built is the same map to its client as any other.
THEOREM BuiltIsOrderedMap == BuiltSpec => UsedAsOrderedMap
<1>1. BuiltUnlocked /\ [BuiltNext]_BuiltVars => [~Building => Promise!Next]_BuiltVars
  <2> SUFFICES ASSUME BuiltUnlocked, BuiltNext, ~Building
               PROVE  Promise!Next
    OBVIOUS
  <2>1. Use
    BY DEF BuiltNext, BuilderFinish, Building
  <2>2. PICK r : Sound(sa, r)
    BY DEF BuiltUnlocked, BuiltInv, IsSound
  <2> QED BY <2>1, <2>2, CallsPromised DEF Use, BuiltUnlocked
<1> QED BY <1>1, BuiltStaysUnlocked, PTL DEF BuiltSpec, UsedAsOrderedMap

-----------------------------------------------------------------------------
(* Search.                                                                 *)

\* What search answers in a sound skiparray is what SearchExact asks.
LEMMA SoundSearches ==
  ASSUME NEW r, Sound(sa, r), NEW k \in Keys, NEW at, at = search(sa, k),
         NEW here, here = sa.heap[at.n].pairs, NEW all, all = Bindings(sa),
         NEW pair \in Pair, pair.key = k
  PROVE  /\ at.found <=> \E i \in DOMAIN all : all[i].key = k
         /\ at.found  => here[at.index + 1].key = k
         /\ ~at.found => /\ at.index \in 0 .. Len(here)
                         /\ Ascending(Bindings(insert_pair(sa, at.n, at.index, pair)))
<1>1. k \in Nat /\ pair \in AllPairs
  BY PairKeys
<1>2. Answer(sa, r, k, at.n, at.index, at.found)
  BY <1>1, SearchFinds
<1>3. Formed(sa, r) /\ Sorted(sa, r) /\ sa \in SkipArrays
  BY FormedFacts DEF Sound, Ordered, Sorted
<1>4. /\ all \in Seq(AllPairs)
      /\ \A p : Contains(all, p) <=> Binds(sa, p)
  BY <1>3, BindingsAre
<1>5. DOMAIN all = 1 .. Len(all)
  BY <1>4, LenProperties
<1>6. (\E i \in DOMAIN all : all[i].key = k) <=> (\E p : Binds(sa, p) /\ p.key = k)
  BY <1>4, <1>5 DEF Contains
<1>7. \A n \in DOMAIN sa.heap : DOMAIN sa.heap[n].pairs = 1 .. Len(sa.heap[n].pairs)
  BY <1>3, PairsType DEF Count
<1>8. (\E p : Binds(sa, p) /\ p.key = k)
        <=> \E n \in DOMAIN sa.heap : \E i \in DOMAIN sa.heap[n].pairs :
              sa.heap[n].pairs[i].key = k
  BY <1>7 DEF Binds, Contains
<1>9. CASE at.found
  <2>1. at.n \in DOMAIN sa.heap /\ at.index + 1 \in DOMAIN here /\ here[at.index + 1].key = k
    BY <1>2, <1>9 DEF Answer, KeyAt
  <2> QED BY <1>6, <1>8, <1>9, <2>1
<1>10. CASE ~at.found
  <2>1. at.n \in DOMAIN sa.heap /\ GapAt(sa, r, k, at.n, at.index)
    BY <1>2, <1>10 DEF Answer
  <2>2. at.index \in 0 .. Len(here) /\ DOMAIN here = 1 .. Len(here) /\ Len(here) \in Nat
    BY <1>3, <1>7, <2>1, PairsType DEF GapAt, Splits, Count
  <2>3. ASSUME NEW n \in DOMAIN sa.heap, NEW i \in DOMAIN sa.heap[n].pairs
        PROVE  sa.heap[n].pairs[i].key # k
    <3>1. r[n] \in Nat /\ r[at.n] \in Nat /\ (r[n] = r[at.n] => n = at.n)
      BY <1>3, <2>1, FormedFacts
    <3>2. sa.heap[n].pairs[i].key \in Nat /\ i \in Nat
      BY <1>3, PairsType
    <3>3. CASE n = at.n
      BY <1>1, <2>1, <2>2, <3>2, <3>3 DEF GapAt, Splits
    <3>4. CASE n # at.n
      BY <1>1, <2>1, <3>1, <3>2, <3>4 DEF GapAt
    <3> QED BY <3>3, <3>4
  <2> DEFINE b == insert_pair(sa, at.n, at.index, pair)
  <2>4. Formed(b, r) /\ Sorted(b, r)
    BY <1>1, <1>3, <2>1, InsertedSorted
  <2>5. Ascending(Bindings(b))
    <3> HIDE DEF b
    <3> QED BY <2>4, BindingsAre
  <2> QED BY <1>6, <1>8, <1>10, <2>2, <2>3, <2>5
<1> QED BY <1>9, <1>10

\* So it does for every key.
LEMMA SoundIsSearchExact ==
  ASSUME IsSound(sa)
  PROVE  SearchExact
<1>1. PICK r : Sound(sa, r)
  BY DEF IsSound
<1>2. ASSUME NEW k \in Keys
      PROVE  (CHOOSE p \in Pair : p.key = k) \in Pair /\ (CHOOSE p \in Pair : p.key = k).key = k
  <2>1. \E p \in Pair : p.key = k
    BY DEF Keys
  <2> QED BY <2>1
<1> QED BY <1>1, <1>2, SoundSearches DEF SearchExact

\* Search, which looks at a few nodes, decides as a look at all bindings would.
THEOREM SearchStaysExact == Spec => []SearchExact
<1> QED BY AlwaysSound, SoundIsSearchExact, PTL

\* So it does in a skiparray that a builder has packed, and then was changed.
THEOREM BuiltSearchesExactly == BuiltSpec => []SearchExact
<1>1. BuiltInv => SearchExact
  BY SoundIsSearchExact DEF BuiltInv
<1> QED BY <1>1, BuiltStaysSound, PTL

-----------------------------------------------------------------------------
(* What a builder appends.                                                 *)

\* Of two lists with the same pairs, in order of their keys, the one begins with
\* the other.
LEMMA BeginsWith ==
  ASSUME NEW s \in Seq(AllPairs), NEW t \in Seq(AllPairs), Ascending(s), Ascending(t),
         \A x : Contains(s, x) <=> Contains(t, x)
  PROVE  \A i \in 1 .. Len(s) : i \in 1 .. Len(t) /\ s[i] = t[i]
<1>1. /\ Len(s) \in Nat /\ Len(t) \in Nat
      /\ \A i \in 1 .. Len(s) : s[i].key \in Nat
      /\ \A i \in 1 .. Len(t) : t[i].key \in Nat
  BY LenProperties, ElementOfSeq, PairKeys
<1>2. /\ \A i, j \in 1 .. Len(s) : i < j => s[i].key < s[j].key
      /\ \A i, j \in 1 .. Len(t) : i < j => t[i].key < t[j].key
  BY LenProperties DEF Ascending
<1>3. /\ \A i \in 1 .. Len(s) : \E j \in 1 .. Len(t) : t[j] = s[i]
      /\ \A i \in 1 .. Len(t) : \E j \in 1 .. Len(s) : s[j] = t[i]
  BY DEF Contains
<1> DEFINE T == {n \in Nat : \A i \in 1 .. n : i <= Len(s) => i <= Len(t) /\ s[i] = t[i]}
<1>4. 0 \in T
  OBVIOUS
<1>5. ASSUME NEW n \in Nat, n \in T
      PROVE  n + 1 \in T
  <2>1. ASSUME n + 1 <= Len(s)
        PROVE  n + 1 <= Len(t) /\ s[n + 1] = t[n + 1]
    <3>1. n + 1 \in 1 .. Len(s)
      BY <2>1
    <3>2. PICK j \in 1 .. Len(t) : t[j] = s[n + 1]
      BY <1>3, <3>1
    <3>3. ~(j <= n)
      <4>1. ASSUME j <= n
            PROVE  FALSE
        <5>1. j \in 1 .. n /\ j \in 1 .. Len(s) /\ j < n + 1
          BY <1>1, <2>1, <4>1
        <5>2. s[j] = t[j]
          BY <1>5, <5>1
        <5>3. s[j].key < s[n + 1].key /\ s[j].key \in Nat /\ s[j].key = s[n + 1].key
          BY <1>1, <1>2, <3>1, <3>2, <5>1, <5>2
        <5> QED BY <5>3
      <4> QED BY <4>1
    <3>4. n + 1 \in 1 .. Len(t)
      BY <1>1, <3>3
    <3>5. PICK m \in 1 .. Len(s) : s[m] = t[n + 1]
      BY <1>3, <3>4
    <3>6. ~(m <= n)
      <4>1. ASSUME m <= n
            PROVE  FALSE
        <5>1. m \in 1 .. n /\ m <= Len(s)
          BY <1>1, <4>1
        <5>2. m \in 1 .. Len(t) /\ t[m] = t[n + 1] /\ m < n + 1
          BY <1>1, <1>5, <3>5, <4>1, <5>1
        <5>3. t[m].key < t[n + 1].key /\ t[m].key \in Nat
          BY <1>1, <1>2, <3>4, <5>2
        <5> QED BY <5>2, <5>3
      <4> QED BY <4>1
    <3>7. j = n + 1
      <4>1. ASSUME n + 1 < j
            PROVE  FALSE
        <5>1. t[n + 1].key < t[j].key /\ t[n + 1].key \in Nat /\ t[j].key \in Nat
          BY <1>1, <1>2, <3>4, <4>1
        <5>2. s[m].key < s[n + 1].key
          BY <3>2, <3>5, <5>1
        <5>3. ~(n + 1 < m)
          <6>1. s[m].key \in Nat /\ s[n + 1].key \in Nat
            BY <1>1, <3>1
          <6>2. n + 1 < m => s[n + 1].key < s[m].key
            BY <1>2, <3>1
          <6> QED BY <5>2, <6>1, <6>2
        <5>4. m = n + 1
          BY <1>1, <3>6, <5>3
        <5> QED BY <1>1, <3>1, <5>2, <5>4
      <4> QED BY <1>1, <3>3, <4>1
    <3> QED BY <3>2, <3>4, <3>7
  <2>2. ASSUME NEW i \in 1 .. n + 1, i <= Len(s)
        PROVE  i <= Len(t) /\ s[i] = t[i]
    <3>1. CASE i = n + 1
      BY <2>1, <2>2, <3>1
    <3>2. CASE i # n + 1
      <4>1. i \in 1 .. n
        BY <3>2
      <4> QED BY <1>5, <2>2, <4>1
    <3> QED BY <3>1, <3>2
  <2> QED BY <2>2
<1>6. Nat \subseteq T
  <2> HIDE DEF T
  <2> QED BY <1>4, <1>5, NaturalsInSet
<1>7. Len(s) \in T
  BY <1>1, <1>6
<1> QED BY <1>1, <1>7

\* So they are one.
LEMMA SameRow ==
  ASSUME NEW s \in Seq(AllPairs), NEW t \in Seq(AllPairs), Ascending(s), Ascending(t),
         \A x : Contains(s, x) <=> Contains(t, x)
  PROVE  s = t
<1>1. \A i \in 1 .. Len(s) : i \in 1 .. Len(t) /\ s[i] = t[i]
  BY BeginsWith
<1>2. \A i \in 1 .. Len(t) : i \in 1 .. Len(s)
  BY BeginsWith
<1>3. Len(s) \in Nat /\ Len(t) \in Nat
  BY LenProperties
<1>4. Len(s) = Len(t)
  <2>1. CASE Len(s) < Len(t)
    <3>1. Len(t) \in 1 .. Len(t)
      BY <1>3, <2>1
    <3> QED BY <1>2, <1>3, <2>1, <3>1
  <2>2. CASE Len(t) < Len(s)
    <3>1. Len(s) \in 1 .. Len(s)
      BY <1>3, <2>2
    <3> QED BY <1>1, <1>3, <2>2, <3>1
  <2> QED BY <1>3, <2>1, <2>2
<1> QED BY <1>1, <1>4, SeqEqual

\* A key is above those of the map where it is above those in the nodes.
LEMMA AboveAll ==
  ASSUME NEW r, Sound(sa, r), NEW key \in Nat
  PROVE  (\A k \in DOMAIN MapOf : k < key) <=> AllBelow(sa, key)
<1> DEFINE m == MapOf
<1>1. Represents(sa, m)
  BY MapNow
<1> HIDE DEF m
<1>2. \A n \in DOMAIN sa.heap : DOMAIN sa.heap[n].pairs = 1 .. Count(sa, n)
  BY PairsType DEF Sound, Formed
<1>3. ASSUME AllBelow(sa, key), NEW k \in DOMAIN m
      PROVE  k < key
  <2>1. PICK n \in DOMAIN sa.heap : \E i \in 1 .. Count(sa, n) : sa.heap[n].pairs[i].key = k
    BY <1>1, BoundIsPair
  <2> QED BY <1>2, <1>3, <2>1 DEF AllBelow
<1>4. ASSUME \A k \in DOMAIN m : k < key,
             NEW n \in DOMAIN sa.heap, NEW i \in DOMAIN sa.heap[n].pairs
      PROVE  sa.heap[n].pairs[i].key < key
  <2>1. sa.heap[n].pairs[i].key \in DOMAIN m
    BY <1>1, <1>2, PairIsBound
  <2> QED BY <1>4, <2>1
<1> QED BY <1>3, <1>4 DEF AllBelow, m

\* A pair gained above all others comes last.
LEMMA GainedLast ==
  ASSUME NEW a, NEW r, Sound(a, r), NEW b, NEW q, Sound(b, q),
         NEW pair \in Pair, Gains(a, b, pair), AllBelow(a, pair.key)
  PROVE  Bindings(b) = Append(Bindings(a), pair)
<1> DEFINE s == Bindings(a)
           t == Bindings(b)
           u == Append(s, pair)
<1>1. /\ Formed(a, r) /\ Sorted(a, r) /\ Formed(b, q) /\ Sorted(b, q)
      /\ pair \in AllPairs /\ a \in SkipArrays
  BY PairKeys, FormedFacts DEF Sound, Ordered, Sorted
<1>2. s \in Seq(AllPairs) /\ Ascending(s) /\ \A p : Contains(s, p) <=> Binds(a, p)
  BY <1>1, BindingsAre
<1>3. t \in Seq(AllPairs) /\ Ascending(t) /\ \A p : Contains(t, p) <=> Binds(b, p)
  BY <1>1, BindingsAre
<1> HIDE DEF s, t
<1>4. /\ u \in Seq(AllPairs) /\ Len(u) = Len(s) + 1 /\ Len(s) \in Nat
      /\ u[Len(s) + 1] = pair /\ \A i \in 1 .. Len(s) : u[i] = s[i]
  BY <1>1, <1>2, AppendProperties, LenProperties
<1> HIDE DEF u
<1>5. \A i \in 1 .. Len(s) : s[i].key < pair.key
  <2>1. ASSUME NEW i \in 1 .. Len(s)
        PROVE  s[i].key < pair.key
    <3>1. Binds(a, s[i])
      BY <1>2 DEF Contains
    <3>2. PICK n \in DOMAIN a.heap : Contains(a.heap[n].pairs, s[i])
      BY <3>1 DEF Binds
    <3>3. DOMAIN a.heap[n].pairs = 1 .. Len(a.heap[n].pairs)
      BY <1>1, PairsType DEF Count
    <3> QED BY <3>2, <3>3 DEF Contains, AllBelow
  <2> QED BY <2>1
<1>6. Ascending(u)
  <2>1. DOMAIN u = 1 .. Len(s) + 1 /\ DOMAIN s = 1 .. Len(s)
    BY <1>2, <1>4, LenProperties
  <2>2. ASSUME NEW i \in 1 .. Len(s) + 1, NEW j \in 1 .. Len(s) + 1, i < j
        PROVE  u[i].key < u[j].key
    <3>1. i \in 1 .. Len(s) /\ u[i] = s[i]
      BY <1>4, <2>2
    <3>2. CASE j = Len(s) + 1
      BY <1>4, <1>5, <3>1, <3>2
    <3>3. CASE j # Len(s) + 1
      <4>1. j \in 1 .. Len(s) /\ u[j] = s[j]
        BY <1>4, <3>3
      <4> QED BY <1>2, <2>1, <2>2, <3>1, <4>1 DEF Ascending
    <3> QED BY <3>2, <3>3
  <2> QED BY <2>1, <2>2 DEF Ascending
<1>7. ASSUME NEW x
      PROVE  Contains(u, x) <=> Contains(s, x) \/ x = pair
  <2>1. 1 .. Len(u) = (1 .. Len(s)) \cup {Len(s) + 1}
    BY <1>4
  <2> QED BY <1>4, <2>1 DEF Contains
<1>8. \A x : Contains(t, x) <=> Contains(u, x)
  BY <1>2, <1>3, <1>7 DEF Gains
<1>9. t = u
  BY <1>3, <1>4, <1>6, <1>8, SameRow
<1> QED BY <1>9 DEF s, t, u

\* The key a builder compares with is bound.
PrevKept == \A b \in builder : b.prev # NULL => \E p : Binds(sa, p) /\ p.key = b.prev

\* What every call of the builder keeps, the key it compares with included.
AppendInv == BuiltInv /\ PrevKept

\* What an append does.
LEMMA AppendIs ==
  ASSUME AppendInv, NEW b \in builder, NEW pair \in Pair, BuilderAppend(b, pair)
  PROVE  /\ call' = <<"append", pair>>
         /\ \/ /\ ret'.res \in {"MISUSE", "MEMORY"} /\ UNCHANGED <<sa, builder>>
               /\ ret'.res = "MISUSE" <=> ~AllBelow(sa, pair.key)
            \/ /\ ret'.res = "OK" /\ AllBelow(sa, pair.key) /\ Gains(sa, sa', pair)
               /\ IsSound(sa')
               /\ \E c : /\ builder' = {c}
                        /\ c.prev = IF b.check THEN pair.key ELSE b.prev
<1>1. PICK r : sa = b.sa /\ BuilderOK(b, r)
  BY DEF AppendInv, BuiltInv
<1>2. Sound(sa, r) /\ b.prev \in Nat /\ pair.key \in Nat
  BY <1>1, PairKeys DEF BuilderOK, AtEnd, Sound, Builders
<1>3. ASSUME rejects(b, pair.key)
      PROVE  ~AllBelow(sa, pair.key)
  <2>1. PICK p : Binds(sa, p) /\ p.key = b.prev
    BY <1>3 DEF rejects, AppendInv, PrevKept
  <2>2. PICK n \in DOMAIN sa.heap : Contains(sa.heap[n].pairs, p)
    BY <2>1 DEF Binds
  <2>3. DOMAIN sa.heap[n].pairs = 1 .. Len(sa.heap[n].pairs)
    BY <1>2, PairsType DEF Count, Sound, Formed
  <2>4. PICK i \in DOMAIN sa.heap[n].pairs : sa.heap[n].pairs[i] = p
    BY <2>2, <2>3 DEF Contains
  <2>5. ~(p.key < pair.key)
    BY <1>2, <1>3, <2>1 DEF rejects
  <2> QED BY <2>4, <2>5 DEF AllBelow
<1>4. ASSUME ~rejects(b, pair.key), NEW lvl \in Levels, NEW c, c = append(b, pair, lvl)
      PROVE  /\ \E s : BuilderOK(c, s)
             /\ AllBelow(sa, pair.key) /\ Gains(sa, c.sa, pair)
  <2>1. ClientMayAppend(b, pair.key)
    BY DEF BuilderAppend
  <2> QED BY <1>1, <1>4, <2>1, appendOK
<1>5. 0 \in Levels
  BY MaxLevelIs DEF Levels
<1>6. CASE rejects(b, pair.key)
  BY <1>3, <1>6 DEF BuilderAppend, BuilderRefuse, Refuse, Look, Returns
<1>7. CASE ~rejects(b, pair.key) /\ BuilderRefuse("MEMORY")
  BY <1>4, <1>5, <1>7 DEF BuilderAppend, BuilderRefuse, Refuse, Look, Returns
<1>8. CASE /\ ~rejects(b, pair.key) /\ Returns("OK", {})
           /\ \E lvl \in IF last_is_full(b) THEN Levels ELSE {0} :
                builder' = {append(b, pair, lvl)}
           /\ \A grown \in builder' : sa' = grown.sa
  <2>1. PICK lvl \in Levels : builder' = {append(b, pair, lvl)}
    BY <1>5, <1>8
  <2> DEFINE c == append(b, pair, lvl)
  <2>2. builder' = {c} /\ sa' = c.sa
    BY <1>8, <2>1
  <2>3. /\ \E s : BuilderOK(c, s)
        /\ AllBelow(sa, pair.key) /\ Gains(sa, c.sa, pair)
    BY <1>4, <1>8
  <2>4. c.prev = IF b.check THEN pair.key ELSE b.prev
    BY <1>1 DEF append, put, extend, BuilderOK, AtEnd, Builders
  <2> HIDE DEF c
  <2>5. IsSound(c.sa)
    BY <2>3, BuilderIsSound
  <2>6. call' = <<"append", pair>> /\ ret'.res = "OK"
    BY <1>8 DEF BuilderAppend, Returns
  <2> QED BY <2>2, <2>3, <2>4, <2>5, <2>6
<1> QED BY <1>6, <1>7, <1>8 DEF BuilderAppend
\* Only append is an append.
LEMMA OnlyAppend ==
  ASSUME NEW pair, BuiltNext, call' = <<"append", pair>>
  PROVE  \E b \in builder : BuilderAppend(b, pair)
<1>1. call'[1] = "append" /\ call'[2] = pair
  OBVIOUS
<1>2. ~BuilderFinish
  BY <1>1 DEF BuilderFinish
<1>3. ~Use
  BY <1>1 DEF Use, Next, Set, Forget, PopFirst, PopLast, Get, CountPairs, FirstPair, LastPair
<1>4. PICK b \in builder, q \in Pair : BuilderAppend(b, q)
  BY <1>2, <1>3 DEF BuiltNext
<1>5. q = pair
  BY <1>1, <1>4 DEF BuilderAppend
<1> QED BY <1>4, <1>5

\* It holds from skiparray_builder_new on.
LEMMA AppendInvStays == BuiltSpec => []AppendInv
<1>1. BuilderNew => PrevKept
  BY DEF BuilderNew, PrevKept, builder_new
<1>2. AppendInv /\ [BuiltNext]_BuiltVars => PrevKept'
  <2> SUFFICES ASSUME AppendInv, [BuiltNext]_BuiltVars
               PROVE  PrevKept'
    OBVIOUS
  <2>1. CASE UNCHANGED sa /\ builder' \subseteq builder
    BY <2>1 DEF AppendInv, PrevKept, Binds
  <2>2. ASSUME NEW b \in builder, NEW pair \in Pair, BuilderAppend(b, pair)
        PROVE  PrevKept'
    <3>1. CASE UNCHANGED <<sa, builder>>
      BY <2>1, <3>1
    <3>2. CASE /\ Gains(sa, sa', pair)
               /\ \E c : /\ builder' = {c}
                        /\ c.prev = IF b.check THEN pair.key ELSE b.prev
      <4>1. Binds(sa', pair) /\ \A p : Binds(sa, p) => Binds(sa', p)
        BY <3>2 DEF Gains
      <4> QED BY <3>2, <4>1 DEF AppendInv, PrevKept
    <3> QED BY <2>2, <3>1, <3>2, AppendIs
  <2>3. CASE BuilderFinish \/ Use
    BY <2>3 DEF BuilderFinish, Use, Building, PrevKept
  <2>4. CASE UNCHANGED BuiltVars
    BY <2>1, <2>4 DEF BuiltVars
  <2> QED BY <2>2, <2>3, <2>4 DEF BuiltNext
<1> QED BY <1>1, <1>2, BuiltStaysSound, PTL DEF BuiltSpec, AppendInv

\* skiparray_builder_append refuses just the keys that are not above all there,
\* and puts the others behind them; what was refused, or found no memory,
\* leaves no trace.
THEOREM AppendsAtEnd == BuiltSpec => AppendAtEnd
<1> DEFINE Step == \A pair \in Pair : call' = <<"append", pair>> =>
                     LET above == \A k \in DOMAIN MapOf : k < pair.key
                     IN  /\ ret'.res = "MISUSE" <=> ~above
                         /\ Bindings(sa)' = IF ret'.res = "OK" THEN Append(Bindings(sa), pair)
                                                               ELSE Bindings(sa)
<1>1. AppendInv /\ [BuiltNext]_BuiltVars => [Step]_BuiltVars
  <2> SUFFICES ASSUME AppendInv, BuiltNext, NEW pair \in Pair, call' = <<"append", pair>>,
                      NEW above, above = \A k \in DOMAIN MapOf : k < pair.key
               PROVE  /\ ret'.res = "MISUSE" <=> ~above
                      /\ Bindings(sa)' = IF ret'.res = "OK" THEN Append(Bindings(sa), pair)
                                                            ELSE Bindings(sa)
    OBVIOUS
  <2>1. PICK b \in builder : BuilderAppend(b, pair)
    BY OnlyAppend
  <2>2. PICK r : Sound(sa, r)
    BY DEF AppendInv, BuiltInv, IsSound
  <2>3. above <=> AllBelow(sa, pair.key)
    BY <2>2, AboveAll, PairKeys
  <2>4. CASE /\ ret'.res \in {"MISUSE", "MEMORY"} /\ UNCHANGED <<sa, builder>>
             /\ ret'.res = "MISUSE" <=> ~AllBelow(sa, pair.key)
    BY <2>3, <2>4
  <2>5. CASE /\ ret'.res = "OK" /\ AllBelow(sa, pair.key) /\ Gains(sa, sa', pair)
             /\ IsSound(sa')
    <3>1. Bindings(sa') = Append(Bindings(sa), pair)
      BY <2>2, <2>5, GainedLast DEF IsSound
    <3> QED BY <2>3, <2>5, <3>1
  <2> QED BY <2>1, <2>4, <2>5, AppendIs
<1> QED BY <1>1, AppendInvStays, PTL DEF BuiltSpec, AppendAtEnd

-----------------------------------------------------------------------------
(* Places and keys.                                                        *)

\* The key at index i of n, counted from 1.
KeyOf(a, n, i) == a.heap[n].pairs[i].key

\* Keys come in the order of their places.
LEMMA PlacesInOrder ==
  ASSUME NEW a, NEW r, Sound(a, r), NEW n \in DOMAIN a.heap, NEW i \in 1 .. Count(a, n),
         NEW q \in DOMAIN a.heap, NEW j \in 1 .. Count(a, q)
  PROVE  /\ KeyOf(a, n, i) \in Nat
         /\ r[n] < r[q] \/ (n = q /\ i < j) => KeyOf(a, n, i) < KeyOf(a, q, j)
<1>1. a \in SkipArrays
  BY FormedFacts DEF Sound
<1>2. /\ DOMAIN a.heap[n].pairs = 1 .. Count(a, n) /\ DOMAIN a.heap[q].pairs = 1 .. Count(a, q)
      /\ KeyOf(a, n, i) \in Nat
  BY <1>1, PairsType DEF KeyOf
<1>3. r[n] < r[q] => Below(a.heap[n].pairs, a.heap[q].pairs)
  BY DEF Sound, Ordered
<1>4. Ascending(a.heap[n].pairs)
  BY DEF Sound, Ordered
<1> QED BY <1>2, <1>3, <1>4 DEF Below, Ascending, KeyOf

\* k and j are bound, and no key between them is.
Adjoin(m, k, j) ==
  /\ k \in DOMAIN m /\ j \in DOMAIN m /\ k < j
  /\ \A x \in DOMAIN m : x <= k \/ j <= x

\* The keys of a map are those at the places, each of them a positive number.
LEMMA KeysAtPlaces ==
  ASSUME NEW a, NEW r, Sound(a, r), NEW m, Represents(a, m)
  PROVE  /\ \A n \in DOMAIN a.heap : \A i \in 1 .. Count(a, n) :
              /\ KeyOf(a, n, i) \in DOMAIN m
              /\ m[KeyOf(a, n, i)] = a.heap[n].pairs[i]
              /\ KeyOf(a, n, i) \in Nat /\ KeyOf(a, n, i) # 0
         /\ \A k \in DOMAIN m : \E n \in DOMAIN a.heap : \E i \in 1 .. Count(a, n) :
              KeyOf(a, n, i) = k
<1>1. a \in SkipArrays
  BY FormedFacts DEF Sound
<1>2. ASSUME NEW n \in DOMAIN a.heap, NEW i \in 1 .. Count(a, n)
      PROVE  /\ KeyOf(a, n, i) \in DOMAIN m
             /\ m[KeyOf(a, n, i)] = a.heap[n].pairs[i]
             /\ KeyOf(a, n, i) \in Nat /\ KeyOf(a, n, i) # 0
  <2>1. a.heap[n].pairs[i] \in AllPairs
    BY <1>1, PairsType
  <2> QED BY <2>1, PairIsBound, KeysAreNumbers DEF KeyOf
<1>3. ASSUME NEW k \in DOMAIN m
      PROVE  \E n \in DOMAIN a.heap : \E i \in 1 .. Count(a, n) : KeyOf(a, n, i) = k
  BY BoundIsPair DEF KeyOf
<1> QED BY <1>2, <1>3

\* The nodes next to n on level 0.
LEMMA NodesBeside ==
  ASSUME NEW a, NEW r, Sound(a, r), NEW n \in DOMAIN a.heap,
         NEW next, next = a.heap[n].fwd[0], NEW back, back = a.heap[n].back
  PROVE  /\ next = NULL => \A q \in DOMAIN a.heap : ~(r[n] < r[q])
         /\ next # NULL => /\ next \in DOMAIN a.heap /\ r[n] < r[next]
                           /\ \A q \in DOMAIN a.heap : r[n] < r[q] => r[next] <= r[q]
         /\ back = NULL => \A q \in DOMAIN a.heap : ~(r[q] < r[n])
         /\ back # NULL => /\ back \in DOMAIN a.heap /\ r[back] < r[n]
                           /\ \A q \in DOMAIN a.heap : r[q] < r[n] => r[q] <= r[back]
<1>1. /\ OnLevel(a, 0) = DOMAIN a.heap /\ 0 \in LevelSet /\ n # NULL
      /\ Follows(r, OnLevel(a, 0), n, After(a, n, 0)) /\ NULL \notin DOMAIN a.heap
  BY FormedFacts DEF Sound
<1>2. After(a, n, 0) = next
  BY <1>1 DEF After
<1>3. InFront(r, DOMAIN a.heap, back, n)
  BY DEF Sound, Formed, Backed
<1> QED BY <1>1, <1>2, <1>3 DEF Follows, InFront, Behind

\* The pair behind one in a node.
LEMMA NextInNode ==
  ASSUME NEW a, NEW r, Sound(a, r), NEW m, Represents(a, m), NEW n \in DOMAIN a.heap,
         NEW i \in 1 .. Count(a, n), i + 1 \in 1 .. Count(a, n)
  PROVE  Adjoin(m, KeyOf(a, n, i), KeyOf(a, n, i + 1))
<1> DEFINE k == KeyOf(a, n, i)
           l == KeyOf(a, n, i + 1)
<1>1. k \in DOMAIN m /\ l \in DOMAIN m /\ k \in Nat /\ l \in Nat
  BY KeysAtPlaces
<1>2. k < l
  BY PlacesInOrder
<1>3. ASSUME NEW x \in DOMAIN m
      PROVE  x <= k \/ l <= x
  <2>1. PICK q \in DOMAIN a.heap : \E j \in 1 .. Count(a, q) : KeyOf(a, q, j) = x
    BY KeysAtPlaces
  <2>2. PICK j \in 1 .. Count(a, q) : KeyOf(a, q, j) = x
    BY <2>1
  <2>3. /\ x \in Nat
        /\ r[q] < r[n] \/ (n = q /\ j < i) => x < k
        /\ r[n] < r[q] \/ (n = q /\ i + 1 < j) => l < x
    BY <2>2, PlacesInOrder
  <2>4. r[q] \in Nat /\ r[n] \in Nat /\ (r[q] = r[n] => q = n)
    BY FormedFacts DEF Sound
  <2>5. CASE n = q
    <3>1. j < i \/ j = i \/ j = i + 1 \/ i + 1 < j
      OBVIOUS
    <3> QED BY <1>1, <2>2, <2>3, <2>5, <3>1
  <2>6. CASE n # q
    <3>1. r[q] < r[n] \/ r[n] < r[q]
      BY <2>4, <2>6
    <3> QED BY <1>1, <2>3, <3>1
  <2> QED BY <2>5, <2>6
<1> QED BY <1>1, <1>2, <1>3 DEF Adjoin

\* The first pair of the next node, behind the last one of a node.
LEMMA NextInNextNode ==
  ASSUME NEW a, NEW r, Sound(a, r), NEW m, Represents(a, m), NEW n \in DOMAIN a.heap,
         Count(a, n) > 0, NEW next \in DOMAIN a.heap, Count(a, next) > 0,
         r[n] < r[next], \A q \in DOMAIN a.heap : r[n] < r[q] => r[next] <= r[q]
  PROVE  Adjoin(m, KeyOf(a, n, Count(a, n)), KeyOf(a, next, 1))
<1>1. a \in SkipArrays
  BY FormedFacts DEF Sound
<1>2. /\ Count(a, n) \in Nat /\ Count(a, n) \in 1 .. Count(a, n)
      /\ 1 \in 1 .. Count(a, next)
  BY <1>1, PairsType
<1> DEFINE c == Count(a, n)
           k == KeyOf(a, n, c)
           l == KeyOf(a, next, 1)
<1>3. k \in DOMAIN m /\ l \in DOMAIN m /\ k \in Nat /\ l \in Nat
  BY <1>2, KeysAtPlaces
<1>4. k < l
  BY <1>2, PlacesInOrder
<1>5. ASSUME NEW x \in DOMAIN m
      PROVE  x <= k \/ l <= x
  <2>1. PICK q \in DOMAIN a.heap : \E j \in 1 .. Count(a, q) : KeyOf(a, q, j) = x
    BY KeysAtPlaces
  <2>2. PICK j \in 1 .. Count(a, q) : KeyOf(a, q, j) = x
    BY <2>1
  <2>3. /\ x \in Nat
        /\ r[q] < r[n] \/ (n = q /\ j < c) => x < k
        /\ r[next] < r[q] \/ (next = q /\ 1 < j) => l < x
    BY <1>2, <2>2, PlacesInOrder
  <2>4. /\ r[q] \in Nat /\ r[n] \in Nat /\ r[next] \in Nat /\ (r[q] = r[n] => q = n)
        /\ (r[q] = r[next] => q = next)
    BY FormedFacts DEF Sound
  <2>5. CASE n = q
    <3>1. j < c \/ j = c
      BY <1>2, <2>5
    <3> QED BY <1>3, <2>2, <2>3, <2>5, <3>1
  <2>6. CASE n # q /\ r[q] < r[n]
    BY <1>3, <2>3, <2>6
  <2>7. CASE n # q /\ r[n] < r[q]
    <3>1. r[next] < r[q] \/ next = q
      BY <2>4, <2>7
    <3>2. next = q => 1 < j \/ j = 1
      OBVIOUS
    <3> QED BY <1>3, <2>2, <2>3, <3>1, <3>2
  <2> QED BY <2>4, <2>5, <2>6, <2>7
<1> QED BY <1>3, <1>4, <1>5 DEF Adjoin

\* The ends of the map.
LEMMA LastPlace ==
  ASSUME NEW a, NEW r, Sound(a, r), NEW m, Represents(a, m), NEW n \in DOMAIN a.heap,
         Count(a, n) > 0, \A q \in DOMAIN a.heap : ~(r[n] < r[q])
  PROVE  \A x \in DOMAIN m : x <= KeyOf(a, n, Count(a, n))
<1>1. a \in SkipArrays
  BY FormedFacts DEF Sound
<1>2. Count(a, n) \in Nat /\ Count(a, n) \in 1 .. Count(a, n)
  BY <1>1, PairsType
<1> DEFINE c == Count(a, n)
           k == KeyOf(a, n, c)
<1>3. k \in Nat
  BY <1>2, KeysAtPlaces
<1> SUFFICES ASSUME NEW x \in DOMAIN m
             PROVE  x <= k
  OBVIOUS
<1>4. PICK q \in DOMAIN a.heap : \E j \in 1 .. Count(a, q) : KeyOf(a, q, j) = x
  BY KeysAtPlaces
<1>5. PICK j \in 1 .. Count(a, q) : KeyOf(a, q, j) = x
  BY <1>4
<1>6. x \in Nat /\ (r[q] < r[n] \/ (n = q /\ j < c) => x < k)
  BY <1>2, <1>5, PlacesInOrder
<1>7. r[q] \in Nat /\ r[n] \in Nat /\ (r[q] = r[n] => q = n)
  BY FormedFacts DEF Sound
<1>8. r[q] < r[n] \/ (n = q /\ j < c) \/ (n = q /\ j = c)
  BY <1>2, <1>7
<1> QED BY <1>3, <1>5, <1>6, <1>8

\* The first place has no key in front of it.
LEMMA FirstPlace ==
  ASSUME NEW a, NEW r, Sound(a, r), NEW m, Represents(a, m), NEW n \in DOMAIN a.heap,
         Count(a, n) > 0, \A q \in DOMAIN a.heap : ~(r[q] < r[n])
  PROVE  \A x \in DOMAIN m : KeyOf(a, n, 1) <= x
<1>1. a \in SkipArrays
  BY FormedFacts DEF Sound
<1>2. 1 \in 1 .. Count(a, n)
  BY <1>1, PairsType
<1> DEFINE k == KeyOf(a, n, 1)
<1>3. k \in Nat
  BY <1>2, KeysAtPlaces
<1> SUFFICES ASSUME NEW x \in DOMAIN m
             PROVE  k <= x
  OBVIOUS
<1>4. PICK q \in DOMAIN a.heap : \E j \in 1 .. Count(a, q) : KeyOf(a, q, j) = x
  BY KeysAtPlaces
<1>5. PICK j \in 1 .. Count(a, q) : KeyOf(a, q, j) = x
  BY <1>4
<1>6. x \in Nat /\ (r[n] < r[q] \/ (n = q /\ 1 < j) => k < x)
  BY <1>2, <1>5, PlacesInOrder
<1>7. r[q] \in Nat /\ r[n] \in Nat /\ (r[q] = r[n] => q = n)
  BY FormedFacts DEF Sound
<1>8. r[n] < r[q] \/ (n = q /\ 1 < j) \/ (n = q /\ j = 1)
  BY <1>2, <1>7
<1> QED BY <1>3, <1>5, <1>6, <1>8

\* A gap between pairs of one node, or behind the last pair of a node,
LEMMA GapFollows ==
  ASSUME NEW a, NEW r, Sound(a, r), NEW m, Represents(a, m), NEW n \in DOMAIN a.heap,
         NEW k \in Nat, NEW index, GapAt(a, r, k, n, index), NEW l,
         NEW next, next = a.heap[n].fwd[0],
         \/ index < Count(a, n) /\ l = KeyOf(a, n, index + 1)
         \/ index = Count(a, n) /\ next # NULL /\ Count(a, next) > 0 /\ l = KeyOf(a, next, 1)
  PROVE  l \in DOMAIN m /\ k < l /\ \A x \in DOMAIN m : x < k \/ l <= x
<1>1. a \in SkipArrays /\ \A q \in DOMAIN a.heap : DOMAIN a.heap[q].pairs = 1 .. Count(a, q)
  BY PairsType, FormedFacts DEF Sound
<1>2. /\ index \in 0 .. Count(a, n) /\ Count(a, n) \in Nat
      /\ \A i \in 1 .. Count(a, n) : /\ i <= index => KeyOf(a, n, i) < k
                                     /\ i > index => KeyOf(a, n, i) > k
  BY <1>1, PairsType DEF GapAt, Splits, KeyOf, Count
<1>3. ASSUME NEW q \in DOMAIN a.heap, NEW j \in 1 .. Count(a, q)
      PROVE  /\ r[q] < r[n] => KeyOf(a, q, j) < k
             /\ r[q] > r[n] => KeyOf(a, q, j) > k
  BY <1>1 DEF GapAt, KeyOf
<1>4. ASSUME NEW q \in DOMAIN a.heap
      PROVE  r[q] \in Nat /\ r[n] \in Nat /\ (r[q] = r[n] => q = n)
  BY FormedFacts DEF Sound
<1>5. CASE index < Count(a, n) /\ l = KeyOf(a, n, index + 1)
  <2>1. index + 1 \in 1 .. Count(a, n)
    BY <1>2, <1>5
  <2>2. l \in DOMAIN m /\ k < l /\ l \in Nat
    BY <1>2, <1>5, <2>1, KeysAtPlaces
  <2>3. ASSUME NEW x \in DOMAIN m
        PROVE  x < k \/ l <= x
    <3>1. PICK q \in DOMAIN a.heap : \E j \in 1 .. Count(a, q) : KeyOf(a, q, j) = x
      BY KeysAtPlaces
    <3>2. PICK j \in 1 .. Count(a, q) : KeyOf(a, q, j) = x
      BY <3>1
    <3>3. x \in Nat /\ (r[n] < r[q] \/ (n = q /\ index + 1 < j) => l < x)
      BY <1>5, <2>1, <3>2, PlacesInOrder
    <3>4. r[q] < r[n] \/ r[n] < r[q] \/ n = q
      BY <1>4
    <3>5. j <= index \/ j = index + 1 \/ index + 1 < j
      BY <1>2
    <3> QED BY <1>2, <1>3, <1>5, <2>2, <3>2, <3>3, <3>4, <3>5
  <2> QED BY <2>2, <2>3
<1>6. CASE index = Count(a, n) /\ next # NULL /\ Count(a, next) > 0 /\ l = KeyOf(a, next, 1)
  <2>1. /\ next \in DOMAIN a.heap /\ r[n] < r[next]
        /\ \A q \in DOMAIN a.heap : r[n] < r[q] => r[next] <= r[q]
    BY <1>6, NodesBeside
  <2>2. 1 \in 1 .. Count(a, next)
    BY <1>1, <1>6, <2>1, PairsType
  <2>3. l \in DOMAIN m /\ k < l /\ l \in Nat
    BY <1>3, <1>4, <1>6, <2>1, <2>2, KeysAtPlaces
  <2>4. ASSUME NEW x \in DOMAIN m
        PROVE  x < k \/ l <= x
    <3>1. PICK q \in DOMAIN a.heap : \E j \in 1 .. Count(a, q) : KeyOf(a, q, j) = x
      BY KeysAtPlaces
    <3>2. PICK j \in 1 .. Count(a, q) : KeyOf(a, q, j) = x
      BY <3>1
    <3>3. x \in Nat /\ (r[next] < r[q] \/ (next = q /\ 1 < j) => l < x)
      BY <1>6, <2>1, <2>2, <3>2, PlacesInOrder
    <3>4. r[q] < r[n] \/ n = q \/ (r[n] < r[q] /\ r[next] < r[q]) \/ next = q
      <4>1. r[q] = r[next] => q = next
        BY <2>1, FormedFacts DEF Sound
      <4> QED BY <1>4, <2>1, <4>1
    <3>5. CASE r[q] < r[n]
      BY <1>3, <3>2, <3>5
    <3>6. CASE n = q
      <4>1. j <= index
        BY <1>6, <3>6
      <4> QED BY <1>2, <3>2, <3>6, <4>1
    <3>7. CASE r[next] < r[q] \/ next = q
      <4>1. 1 < j \/ j = 1
        OBVIOUS
      <4> QED BY <1>6, <2>3, <3>2, <3>3, <3>7, <4>1
    <3> QED BY <3>4, <3>5, <3>6, <3>7
  <2> QED BY <2>3, <2>4
<1> QED BY <1>5, <1>6

\* or behind or in front of all pairs; whether there is any pair in front.
LEMMA GapAtEnds ==
  ASSUME NEW a, NEW r, Sound(a, r), NEW m, Represents(a, m), NEW n \in DOMAIN a.heap,
         NEW k \in Nat, NEW index, GapAt(a, r, k, n, index)
  PROVE  /\ index = Count(a, n) /\ a.heap[n].fwd[0] = NULL => \A x \in DOMAIN m : x < k
         /\ index = 0 /\ a.heap[n].back = NULL => \A x \in DOMAIN m : k < x
         /\ index # 0 => \E x \in DOMAIN m : x < k
         /\ a.heap[n].back # NULL /\ Count(a, a.heap[n].back) > 0 => \E x \in DOMAIN m : x < k
<1>1. a \in SkipArrays /\ \A q \in DOMAIN a.heap : DOMAIN a.heap[q].pairs = 1 .. Count(a, q)
  BY PairsType, FormedFacts DEF Sound
<1>2. /\ index \in 0 .. Count(a, n) /\ Count(a, n) \in Nat
      /\ \A i \in 1 .. Count(a, n) : /\ i <= index => KeyOf(a, n, i) < k
                                     /\ i > index => KeyOf(a, n, i) > k
  BY <1>1, PairsType DEF GapAt, Splits, KeyOf, Count
<1>3. ASSUME NEW q \in DOMAIN a.heap, NEW j \in 1 .. Count(a, q)
      PROVE  /\ r[q] < r[n] => KeyOf(a, q, j) < k
             /\ r[q] > r[n] => KeyOf(a, q, j) > k
  BY <1>1 DEF GapAt, KeyOf
<1>4. ASSUME NEW q \in DOMAIN a.heap
      PROVE  r[q] \in Nat /\ r[n] \in Nat /\ (r[q] = r[n] => q = n)
  BY FormedFacts DEF Sound
<1>5. ASSUME index = Count(a, n), a.heap[n].fwd[0] = NULL, NEW x \in DOMAIN m
      PROVE  x < k
  <2>1. PICK q \in DOMAIN a.heap : \E j \in 1 .. Count(a, q) : KeyOf(a, q, j) = x
    BY KeysAtPlaces
  <2>2. PICK j \in 1 .. Count(a, q) : KeyOf(a, q, j) = x
    BY <2>1
  <2>3. ~(r[n] < r[q])
    BY <1>5, NodesBeside
  <2>4. CASE r[q] < r[n]
    BY <1>3, <2>2, <2>4
  <2>5. CASE n = q
    BY <1>2, <1>5, <2>2, <2>5
  <2> QED BY <1>4, <2>3, <2>4, <2>5
<1>6. ASSUME index = 0, a.heap[n].back = NULL, NEW x \in DOMAIN m
      PROVE  k < x
  <2>1. PICK q \in DOMAIN a.heap : \E j \in 1 .. Count(a, q) : KeyOf(a, q, j) = x
    BY KeysAtPlaces
  <2>2. PICK j \in 1 .. Count(a, q) : KeyOf(a, q, j) = x
    BY <2>1
  <2>3. ~(r[q] < r[n])
    BY <1>6, NodesBeside
  <2>4. x \in Nat
    BY <2>2, KeysAtPlaces
  <2>5. CASE r[q] > r[n]
    BY <1>3, <2>2, <2>4, <2>5
  <2>6. CASE n = q
    BY <1>2, <1>6, <2>2, <2>4, <2>6
  <2> QED BY <1>4, <2>3, <2>5, <2>6
<1>7. ASSUME index # 0
      PROVE  \E x \in DOMAIN m : x < k
  <2>1. index \in 1 .. Count(a, n) /\ index <= index
    BY <1>2, <1>7
  <2> QED BY <1>2, <2>1, KeysAtPlaces
<1>8. ASSUME NEW back, back = a.heap[n].back, back # NULL, Count(a, back) > 0
      PROVE  \E x \in DOMAIN m : x < k
  <2>1. back \in DOMAIN a.heap /\ r[back] < r[n]
    BY <1>8, NodesBeside
  <2>2. 1 \in 1 .. Count(a, back)
    BY <1>1, <1>8, <2>1, PairsType
  <2> QED BY <1>3, <2>1, <2>2, KeysAtPlaces
<1> QED BY <1>5, <1>6, <1>7, <1>8

\* What neighbours are to an ordered map.
LEMMA AdjoinIs ==
  ASSUME NEW m, DOMAIN m \subseteq Nat, NEW k, NEW j, Adjoin(m, k, j)
  PROVE  /\ {x \in DOMAIN m : x > k} # {} /\ Cursors!Least({x \in DOMAIN m : x > k}) = j
         /\ {x \in DOMAIN m : x < j} # {} /\ Cursors!Greatest({x \in DOMAIN m : x < j}) = k
<1> DEFINE S == {x \in DOMAIN m : x > k}
           T == {x \in DOMAIN m : x < j}
<1>1. /\ j \in S /\ S \subseteq Nat /\ \A x \in S : j <= x
      /\ k \in T /\ T \subseteq Nat /\ \A x \in T : x <= k
  BY DEF Adjoin
<1> HIDE DEF S, T
<1>2. Promise!Least(S) = j /\ Promise!Greatest(T) = k
  BY <1>1, LeastIs, GreatestIs
<1>3. Cursors!Least(S) = j /\ Cursors!Greatest(T) = k
  BY <1>2 DEF Promise!Least, Promise!Greatest, Cursors!Least, Cursors!Greatest
<1> QED BY <1>1, <1>3 DEF S, T

-----------------------------------------------------------------------------
(* The skiparray with its iterators.                                       *)

\* The calls of the map move no iterator.
LEMMA CallsKeepPlaces ==
  ASSUME ListInv, Next, UNCHANGED its
  PROVE  PosOf' = PosOf
<1>1. CASE DOMAIN its = {}
  BY <1>1 DEF PosOf
<1>2. CASE DOMAIN its # {}
  <2>1. iter # NULL
    BY <1>2, Neighbours
  <2>2. sa' = sa
    BY <2>1, CallsKeepList
  <2> QED BY <2>2 DEF PosOf, OnPair, PairAt, Count
<1> QED BY <1>1, <1>2

\* The words of OrderedMap, where iterators stay put.
LEMMA CursorWords ==
  ASSUME ListInv, PosOf' = PosOf
  PROVE  /\ Cursors!Unlocked <=> ~has_iterators
         /\ \A res, pairs : /\ Cursors!Returns(res, pairs) <=> Returns(res, pairs)
                            /\ Cursors!Look(res, pairs) <=> Returns(res, pairs) /\ MapOf' = MapOf
         /\ Cursors!Bound = DOMAIN MapOf
<1>1. DOMAIN PosOf = DOMAIN its
  BY DEF PosOf
<1>2. iter = NULL <=> DOMAIN its = {}
  BY Neighbours
<1> QED BY <1>1, <1>2
        DEF Cursors!Unlocked, has_iterators, Cursors!Returns, Returns, Cursors!Look, Cursors!Bound

\* It has them in common with the map that has no iterators.
LEMMA CommonWords ==
  /\ \A S : Cursors!Least(S) = Promise!Least(S) /\ Cursors!Greatest(S) = Promise!Greatest(S)
  /\ \A f, x : Cursors!Without(f, x) = Promise!Without(f, x)
  /\ \A f, x, v : Cursors!With(f, x, v) = Promise!With(f, x, v)
  /\ Cursors!Keys = Keys /\ Cursors!PastLast = 0
BY DEF Cursors!Least, Promise!Least, Cursors!Greatest, Promise!Greatest, Cursors!Without,
       Promise!Without, Cursors!With, Promise!With, Cursors!Keys, Keys, Cursors!PastLast

\* A call that sets a key.
LEMMA SetWithCursors ==
  ASSUME ListInv, PosOf' = PosOf, NEW pair \in Pair, NEW replace_key \in BOOLEAN,
         Set(pair, replace_key), SetsKey(pair, replace_key)
  PROVE  Cursors!Set(pair, replace_key)
<1>1. call' = <<"set", pair, replace_key>>
  BY DEF Set
<1> QED BY <1>1, CursorWords, CommonWords DEF SetsKey, Cursors!Set, Cursors!Refuse

\* A call that takes key k.
LEMMA TakeWithCursors ==
  ASSUME ListInv, PosOf' = PosOf, NEW k, TakesKey(k)
  PROVE  Cursors!Remove(k) /\ Cursors!Unlocked
BY CursorWords, CommonWords DEF TakesKey, Cursors!Remove

\* skiparray_forget and the pops.
LEMMA RemovalsWithCursors ==
  ASSUME ListInv, PosOf' = PosOf, NEW r, Sound(sa, r)
  PROVE  /\ \A key \in Keys : Forget(key) => Cursors!Forget(key)
         /\ PopFirst => Cursors!PopFirst
         /\ PopLast => Cursors!PopLast
<1>1. ASSUME NEW k, TakesKey(k)
      PROVE  Cursors!Remove(k) /\ Cursors!Unlocked /\ k \in DOMAIN MapOf
  BY <1>1, TakeWithCursors DEF TakesKey
<1>2. ASSUME NEW res, LeavesMap(res)
      PROVE  Cursors!Refuse(res)
  BY <1>2, CursorWords DEF LeavesMap, Cursors!Refuse
<1>3. ASSUME NEW key \in Keys, Forget(key)
      PROVE  Cursors!Forget(key)
  <2>1. call' = <<"forget", key>>
    BY <1>3 DEF Forget
  <2>2. \/ has_iterators /\ LeavesMap("LOCKED")
        \/ ~has_iterators /\ key \notin DOMAIN MapOf /\ LeavesMap("NOT_FOUND")
        \/ TakesKey(key)
    BY <1>3, ForgetOnMap
  <2> QED BY <1>1, <1>2, <2>1, <2>2, CursorWords DEF Cursors!Forget
<1>4. ASSUME PopFirst
      PROVE  Cursors!PopFirst
  <2> DEFINE k == Promise!Least(DOMAIN MapOf)
  <2>1. call' = <<"pop_first">>
    BY <1>4 DEF PopFirst
  <2>2. \/ has_iterators /\ LeavesMap("LOCKED")
        \/ ~has_iterators /\ DOMAIN MapOf = {} /\ LeavesMap("EMPTY")
        \/ TakesKey(k)
    BY <1>4, PopFirstOnMap
  <2>3. Cursors!Least(Cursors!Bound) = k
    BY CursorWords, CommonWords
  <2> HIDE DEF k
  <2> QED BY <1>1, <1>2, <2>1, <2>2, <2>3, CursorWords DEF Cursors!PopFirst, Cursors!Pop
<1>5. ASSUME PopLast
      PROVE  Cursors!PopLast
  <2> DEFINE k == Promise!Greatest(DOMAIN MapOf)
  <2>1. call' = <<"pop_last">>
    BY <1>5 DEF PopLast
  <2>2. \/ has_iterators /\ LeavesMap("LOCKED")
        \/ ~has_iterators /\ DOMAIN MapOf = {} /\ LeavesMap("EMPTY")
        \/ TakesKey(k)
    BY <1>5, PopLastOnMap
  <2>3. Cursors!Greatest(Cursors!Bound) = k
    BY CursorWords, CommonWords
  <2> HIDE DEF k
  <2> QED BY <1>1, <1>2, <2>1, <2>2, <2>3, CursorWords DEF Cursors!PopLast, Cursors!Pop
<1> QED BY <1>3, <1>4, <1>5

\* The calls that only read.
LEMMA QueriesWithCursors ==
  ASSUME ListInv, PosOf' = PosOf, NEW r, Sound(sa, r)
  PROVE  /\ \A key \in Keys : Get(key) => Cursors!Get(key)
         /\ FirstPair => Cursors!FirstPair
         /\ LastPair => Cursors!LastPair
         /\ CountPairs => Cursors!CountPairs
<1>1. ASSUME NEW k, ReadsKey(k)
      PROVE  k \in Cursors!Bound /\ Cursors!Look("OK", {MapOf[k]})
  BY <1>1, CursorWords DEF ReadsKey
<1>2. ASSUME NEW res, LeavesMap(res)
      PROVE  Cursors!Look(res, {})
  BY <1>2, CursorWords DEF LeavesMap
<1>3. ASSUME NEW key \in Keys, Get(key)
      PROVE  Cursors!Get(key)
  <2>1. call' = <<"get", key>>
    BY <1>3 DEF Get
  <2>2. (key \notin DOMAIN MapOf /\ LeavesMap("NOT_FOUND")) \/ ReadsKey(key)
    BY <1>3, GetOnMap
  <2> QED BY <1>1, <1>2, <2>1, <2>2, CursorWords DEF Cursors!Get
<1>4. ASSUME FirstPair
      PROVE  Cursors!FirstPair
  <2> DEFINE k == Promise!Least(DOMAIN MapOf)
  <2>1. call' = <<"first">>
    BY <1>4 DEF FirstPair
  <2>2. \/ DOMAIN MapOf = {} /\ LeavesMap("EMPTY")
        \/ DOMAIN MapOf # {} /\ ReadsKey(k)
    BY <1>4, FirstOnMap
  <2>3. Cursors!Least(Cursors!Bound) = k
    BY CursorWords, CommonWords
  <2> HIDE DEF k
  <2> QED BY <1>1, <1>2, <2>1, <2>2, <2>3, CursorWords DEF Cursors!FirstPair, Cursors!Endpoint
<1>5. ASSUME LastPair
      PROVE  Cursors!LastPair
  <2> DEFINE k == Promise!Greatest(DOMAIN MapOf)
  <2>1. call' = <<"last">>
    BY <1>5 DEF LastPair
  <2>2. \/ DOMAIN MapOf = {} /\ LeavesMap("EMPTY")
        \/ DOMAIN MapOf # {} /\ ReadsKey(k)
    BY <1>5, LastOnMap
  <2>3. Cursors!Greatest(Cursors!Bound) = k
    BY CursorWords, CommonWords
  <2> HIDE DEF k
  <2> QED BY <1>1, <1>2, <2>1, <2>2, <2>3, CursorWords DEF Cursors!LastPair, Cursors!Endpoint
<1>6. ASSUME CountPairs
      PROVE  Cursors!CountPairs
  <2>1. call' = <<"count">> /\ Returns(skiparray_count, {}) /\ sa' = sa
    BY <1>6 DEF CountPairs, Look
  <2>2. MapOf' = MapOf
    BY <2>1, MapStays
  <2>3. skiparray_count = Cardinality(DOMAIN MapOf)
    BY CountOnMap
  <2>4. Cursors!Look(skiparray_count, {})
    BY <2>1, <2>2, CursorWords
  <2>5. Cursors!Look(Cardinality(Cursors!Bound), {})
    BY <2>3, <2>4, CursorWords
  <2>6. Cursors!Cardinality(DOMAIN MapOf) = Cardinality(DOMAIN MapOf)
    BY DEF Cursors!Cardinality, Cardinality
  <2> QED BY <2>1, <2>5, <2>6, CursorWords DEF Cursors!CountPairs
<1> QED BY <1>3, <1>4, <1>5, <1>6

\* So each call of the map is one of OrderedMap, locked just while iterators live.
LEMMA CallsWithCursors ==
  ASSUME ListInv, NEW r, Sound(sa, r), Next, UNCHANGED its
  PROVE  Cursors!Next
<1>1. PosOf' = PosOf
  BY CallsKeepPlaces
<1>2. ASSUME NEW pair \in Pair, NEW replace_key \in BOOLEAN, Set(pair, replace_key)
      PROVE  Cursors!Set(pair, replace_key)
  BY <1>1, <1>2, SetOnMap, SetWithCursors
<1>3. /\ \A key \in Keys : Forget(key) => Cursors!Forget(key)
      /\ PopFirst => Cursors!PopFirst
      /\ PopLast => Cursors!PopLast
  BY <1>1, RemovalsWithCursors
<1>4. /\ \A key \in Keys : Get(key) => Cursors!Get(key)
      /\ FirstPair => Cursors!FirstPair
      /\ LastPair => Cursors!LastPair
      /\ CountPairs => Cursors!CountPairs
  BY <1>1, QueriesWithCursors
<1>5. Cursors!Keys = Keys
  BY CommonWords
<1> QED BY <1>2, <1>3, <1>4, <1>5 DEF Next, Cursors!Next

\* The key under an iterator at a place, or none at the end.
KeyUnder(n, index) == IF index < Count(sa, n) THEN KeyOf(sa, n, index + 1) ELSE 0

\* Where an iterator stands as its key.
LEMMA PlaceOf ==
  /\ DOMAIN PosOf = DOMAIN its /\ PosOf = [i \in DOMAIN its |-> PosOf[i]]
  /\ \A i \in DOMAIN its : PosOf[i] = KeyUnder(its[i].n, its[i].index)
BY DEF PosOf, KeyUnder, KeyOf, OnPair, PairAt

\* A move of an iterator sets it on the key there.
LEMMA MoveStands ==
  ASSUME Live(its), NEW i \in DOMAIN its, NEW n, NEW index, NEW res, Move(i, n, index, res)
  PROVE  Cursors!Stand(i, KeyUnder(n, index), res)
<1>1. /\ its' = Placed(its, i, n, index) /\ Returns(res, {}) /\ sa' = sa
  BY DEF Move, Look, Placed
<1>2. /\ DOMAIN its' = DOMAIN its /\ its'[i].n = n /\ its'[i].index = index
      /\ \A j \in DOMAIN its : j # i => its'[j] = its[j]
  BY ONLY <1>1, Live(its), i \in DOMAIN its, MoveSpots
<1>3. MapOf' = MapOf
  BY <1>1, MapStays
<1>4. PosOf' = [j \in DOMAIN its' |-> KeyUnder(its'[j].n, its'[j].index)]
  BY <1>1 DEF PosOf, KeyUnder, KeyOf, OnPair, PairAt, Count
<1>5. PosOf' = [PosOf EXCEPT ![i] = KeyUnder(n, index)]
  <2> DEFINE k == KeyUnder(n, index)
  <2>1. \A j \in DOMAIN its : j # i => KeyUnder(its'[j].n, its'[j].index) = PosOf[j]
    BY <1>2, PlaceOf
  <2>2. KeyUnder(its'[i].n, its'[i].index) = k
    BY <1>2
  <2> HIDE DEF k
  <2> QED BY <1>2, <1>4, <2>1, <2>2, PlaceOf
<1> QED BY <1>1, <1>3, <1>5 DEF Cursors!Stand, Cursors!Returns, Returns

\* A call that moves none leaves all on their keys.
LEMMA StaysPut ==
  ASSUME sa' = sa, its' = its
  PROVE  /\ PosOf' = PosOf /\ MapOf' = MapOf
         /\ \A res, pairs : Returns(res, pairs) => Cursors!Look(res, pairs)
         /\ \A res : Returns(res, {}) => Cursors!Refuse(res)
<1>1. PosOf' = PosOf
  BY DEF PosOf, OnPair, PairAt, Count
<1>2. MapOf' = MapOf
  BY MapStays
<1> QED BY <1>1, <1>2 DEF Cursors!Look, Cursors!Refuse, Cursors!Returns, Returns

\* The keys behind k, and in front of it.
LEMMA KeysBeside ==
  /\ \A k : Cursors!Following(k) = {x \in DOMAIN MapOf : x > k}
  /\ \A k : Cursors!Preceding(k) = {x \in DOMAIN MapOf : x < k}
  /\ Cursors!Bound = DOMAIN MapOf
BY DEF Cursors!Following, Cursors!Preceding, Cursors!Bound

\* The next key behind one that is not bound.
LEMMA FollowingIs ==
  ASSUME NEW m, DOMAIN m \subseteq Nat, NEW k \in Nat, NEW l \in DOMAIN m, k < l,
         \A x \in DOMAIN m : x < k \/ l <= x
  PROVE  {x \in DOMAIN m : x > k} # {} /\ Cursors!Least({x \in DOMAIN m : x > k}) = l
<1> DEFINE S == {x \in DOMAIN m : x > k}
<1>1. l \in S /\ S \subseteq Nat /\ \A x \in S : l <= x
  OBVIOUS
<1> HIDE DEF S
<1>2. Promise!Least(S) = l
  BY <1>1, LeastIs
<1> QED BY <1>1, <1>2, CommonWords DEF S

\* What is known where an iterator is.
Stands(r) ==
  /\ Sound(sa, r) /\ Represents(sa, MapOf) /\ DOMAIN MapOf \subseteq Nat
  /\ \A n \in DOMAIN sa.heap : Count(sa, n) \in Nat /\ Count(sa, n) > 0
  /\ Live(its)

\* It holds with any iterator live.
LEMMA StandsNow ==
  ASSUME ListInv, SpotInv, NEW i \in DOMAIN its
  PROVE  \E r : Stands(r) /\ Spot(its[i].n, its[i].index)
<1>1. PICK r : Sound(sa, r)
  BY DEF SpotInv, IsSound
<1>2. Represents(sa, MapOf)
  BY <1>1, MapNow
<1>3. DOMAIN MapOf \subseteq Nat
  BY <1>1, <1>2, KeysAtPlaces
<1>4. \A n \in DOMAIN sa.heap : Count(sa, n) \in Nat /\ Count(sa, n) > 0
  BY <1>1, NeighboursThere DEF SpotInv, Nodes
<1> QED BY <1>1, <1>2, <1>3, <1>4 DEF Stands, ListInv, SpotInv

\* skiparray_iter_new puts an iterator on the first key.
LEMMA NewCursor ==
  ASSUME ListInv, SpotInv, NEW i \in IterIds, IterNew(i)
  PROVE  Cursors!IterNew(i)
<1> DEFINE head == sa.nodes[0]
           empty == sa.heap[head].fwd[0] = NULL /\ Count(sa, head) = 0
<1>1. PICK r : Sound(sa, r)
  BY DEF SpotInv, IsSound
<1>2. head \in Nodes /\ Represents(sa, MapOf)
  BY <1>1, MapNow, HeadIsThere DEF Sound, Nodes
<1>3. call' = <<"iter_new", i>> /\ i \notin DOMAIN PosOf /\ i \notin DOMAIN its
  BY PlaceOf DEF IterNew
<1>4. empty <=> DOMAIN MapOf = {}
  <2>1. CASE empty
    BY <1>1, <1>2, <2>1, EmptyIs DEF Nodes
  <2>2. CASE ~empty
    <3>1. Count(sa, head) > 0
      BY <1>1, <1>2, <2>2, NoneEmpty
    <3> QED BY <1>1, <1>2, <2>2, <3>1, EmptyIs DEF Nodes
  <2> QED BY <2>1, <2>2
<1>5. \/ empty /\ Refuse("EMPTY") /\ UNCHANGED its
      \/ ~empty /\ Refuse("MEMORY") /\ UNCHANGED its
      \/ ~empty /\ its' = iter_link(its, i) /\ Returns("OK", {}) /\ UNCHANGED sa
  BY DEF IterNew
<1>6. ASSUME NEW res, Refuse(res), UNCHANGED its
      PROVE  Cursors!Refuse(res)
  <2>1. Returns(res, {}) /\ sa' = sa
    BY <1>6 DEF Refuse, Look
  <2> QED BY <1>6, <2>1, StaysPut
<1>7. ASSUME ~empty, its' = iter_link(its, i), UNCHANGED sa
      PROVE  PosOf' = Cursors!With(PosOf, i, Cursors!Least(DOMAIN MapOf)) /\ MapOf' = MapOf
  <2>1. Live(its) /\ iter \in DOMAIN its \cup {NULL}
    BY Neighbours DEF ListInv
  <2>2. /\ DOMAIN its' = DOMAIN its \cup {i}
        /\ its'[i].n = head /\ its'[i].index = 0
        /\ \A j \in DOMAIN its : its'[j].n = its[j].n /\ its'[j].index = its[j].index
    BY ONLY <1>3, <1>7, <2>1, i \in IterIds, LinkSpots
  <2>3. Count(sa, head) > 0
    BY <1>1, <1>2, <1>7, NoneEmpty
  <2>4. KeyUnder(head, 0) = Cursors!Least(DOMAIN MapOf)
    <3>1. sa.heap[head].pairs[1].key = Promise!Least(DOMAIN MapOf)
      BY <1>1, <1>2, <2>3, FirstIs
    <3> QED BY <2>3, <3>1, CommonWords DEF KeyUnder, KeyOf
  <2>5. PosOf' = [j \in DOMAIN its' |-> KeyUnder(its'[j].n, its'[j].index)]
    BY <1>7 DEF PosOf, KeyUnder, KeyOf, OnPair, PairAt, Count
  <2> DEFINE k == Cursors!Least(DOMAIN MapOf)
             f == Cursors!With(PosOf, i, k)
  <2>6. f = [y \in DOMAIN PosOf \cup {i} |-> IF y = i THEN k ELSE PosOf[y]]
    BY DEF Cursors!With
  <2>7. KeyUnder(its'[i].n, its'[i].index) = k
    BY <2>2, <2>4
  <2>8. \A j \in DOMAIN its : KeyUnder(its'[j].n, its'[j].index) = PosOf[j]
    BY <2>2, PlaceOf
  <2> HIDE DEF k, f
  <2>9. PosOf' = f
    BY <1>3, <2>2, <2>5, <2>6, <2>7, <2>8, PlaceOf
  <2> QED BY <1>7, <2>9, MapStays DEF k, f
<1> HIDE DEF empty
<1> QED BY <1>3, <1>4, <1>5, <1>6, <1>7, KeysBeside
        DEF Cursors!IterNew, Cursors!Returns, Returns

\* skiparray_iter_free takes one away, and no other is moved.
LEMMA FreedCursor ==
  ASSUME ListInv, SpotInv, NEW i \in DOMAIN its, IterFree(i)
  PROVE  Cursors!IterFree(i)
<1>1. /\ call' = <<"iter_free", i>> /\ its' = iter_unlink(its, i)
      /\ Returns("OK", {}) /\ sa' = sa
  BY DEF IterFree
<1>2. Live(its) /\ its[i].prev \in DOMAIN its \cup {NULL} /\ its[i].next \in DOMAIN its \cup {NULL}
  BY Neighbours DEF ListInv
<1>3. /\ DOMAIN its' = DOMAIN its \ {i}
      /\ \A j \in DOMAIN its \ {i} : its'[j].n = its[j].n /\ its'[j].index = its[j].index
  BY ONLY <1>1, <1>2, i \in DOMAIN its, UnlinkSpots, Z3
<1>4. PosOf' = [j \in DOMAIN its' |-> KeyUnder(its'[j].n, its'[j].index)]
  BY <1>1 DEF PosOf, KeyUnder, KeyOf, OnPair, PairAt, Count
<1>5. \A j \in DOMAIN its \ {i} : KeyUnder(its'[j].n, its'[j].index) = PosOf[j]
  BY <1>3, PlaceOf
<1>6. PosOf' = Cursors!Without(PosOf, i)
  BY <1>3, <1>4, <1>5, PlaceOf DEF Cursors!Without
<1>7. MapOf' = MapOf
  BY <1>1, MapStays
<1> QED BY <1>1, <1>6, <1>7, PlaceOf DEF Cursors!IterFree, Cursors!Returns, Returns

\* skiparray_iter_seek_endpoint.
LEMMA EndpointCursor ==
  ASSUME NEW r, Stands(r), NEW i \in DOMAIN its, NEW end \in {"FIRST", "LAST"},
         IterSeekEndpoint(i, end)
  PROVE  Cursors!IterSeekEndpoint(i, end)
<1> DEFINE head == sa.nodes[0]
           last == last_node(sa)
<1>1. /\ Sound(sa, r) /\ Represents(sa, MapOf) /\ Live(its)
      /\ \A n \in DOMAIN sa.heap : Count(sa, n) \in Nat /\ Count(sa, n) > 0
  BY DEF Stands
<1>2. head \in DOMAIN sa.heap /\ last \in DOMAIN sa.heap
  BY <1>1, HeadIsThere, last_nodeIsLast DEF Sound
<1>3. KeyUnder(head, 0) = Cursors!Least(DOMAIN MapOf)
  <2>1. sa.heap[head].pairs[1].key = Promise!Least(DOMAIN MapOf)
    BY <1>1, <1>2, FirstIs
  <2> QED BY <1>1, <1>2, <2>1, CommonWords DEF KeyUnder, KeyOf
<1>4. KeyUnder(last, LastIndex(last)) = Cursors!Greatest(DOMAIN MapOf)
  <2>1. sa.heap[last].pairs[Count(sa, last)].key = Promise!Greatest(DOMAIN MapOf)
    BY <1>1, <1>2, LastIsGreatest
  <2> HIDE DEF last
  <2>2. LastIndex(last) < Count(sa, last) /\ LastIndex(last) + 1 = Count(sa, last)
    BY <1>1, <1>2 DEF LastIndex
  <2> QED BY <2>1, <2>2, CommonWords DEF KeyUnder, KeyOf
<1>5. /\ call' = <<"iter_seek_endpoint", i, end>>
      /\ \/ end = "FIRST" /\ Move(i, head, 0, "OK")
         \/ end = "LAST" /\ Move(i, last, LastIndex(last), "OK")
  BY DEF IterSeekEndpoint
<1> HIDE DEF head, last
<1>6. \/ end = "FIRST" /\ Cursors!Stand(i, Cursors!Least(DOMAIN MapOf), "OK")
      \/ end = "LAST" /\ Cursors!Stand(i, Cursors!Greatest(DOMAIN MapOf), "OK")
  <2>1. CASE end = "FIRST" /\ Move(i, head, 0, "OK")
    BY <1>1, <1>3, <2>1, MoveStands
  <2>2. CASE end = "LAST" /\ Move(i, last, LastIndex(last), "OK")
    BY <1>1, <1>4, <2>2, MoveStands
  <2> QED BY <1>5, <2>1, <2>2
<1>7. i \in DOMAIN PosOf
  BY PlaceOf
<1> QED BY <1>5, <1>6, <1>7, KeysBeside DEF Cursors!IterSeekEndpoint

\* skiparray_iter_seek, of a key that is not bound.
LEMMA SeekMisses ==
  ASSUME NEW r, Stands(r), NEW i \in DOMAIN its, NEW key \in Nat,
         key \notin DOMAIN MapOf, NEW n \in DOMAIN sa.heap, NEW index,
         GapAt(sa, r, key, n, index), NEW next, next = sa.heap[n].fwd[0],
         NEW l, NEW q, NEW x,
         ~(index = 0 /\ sa.heap[n].back = NULL),
         \/ index < Count(sa, n) /\ l = KeyOf(sa, n, index + 1) /\ q = n /\ x = index
         \/ index = Count(sa, n) /\ next # NULL /\ l = KeyOf(sa, next, 1) /\ q = next /\ x = 0
  PROVE  /\ Cursors!Preceding(key) # {} /\ Cursors!Following(key) # {}
         /\ KeyUnder(q, x) = Cursors!Least(Cursors!Following(key))
<1>1. /\ Sound(sa, r) /\ Represents(sa, MapOf) /\ DOMAIN MapOf \subseteq Nat
      /\ \A y \in DOMAIN sa.heap : Count(sa, y) \in Nat /\ Count(sa, y) > 0
  BY DEF Stands
<1>2. /\ next # NULL => next \in DOMAIN sa.heap
      /\ sa.heap[n].back # NULL => sa.heap[n].back \in DOMAIN sa.heap
  BY <1>1, NodesBeside
<1>3. \/ index < Count(sa, n) /\ l = KeyOf(sa, n, index + 1)
      \/ index = Count(sa, n) /\ next # NULL /\ Count(sa, next) > 0 /\ l = KeyOf(sa, next, 1)
  BY <1>1, <1>2
<1>4. l \in DOMAIN MapOf /\ key < l /\ \A y \in DOMAIN MapOf : y < key \/ l <= y
  BY <1>1, <1>3, GapFollows
<1>5. Cursors!Following(key) # {} /\ Cursors!Least(Cursors!Following(key)) = l
  BY <1>1, <1>4, FollowingIs, KeysBeside
<1>6. \E y \in DOMAIN MapOf : y < key
  BY <1>1, <1>2, GapAtEnds
<1>7. KeyUnder(q, x) = l
  BY <1>1, <1>2 DEF KeyUnder
<1> QED BY <1>5, <1>6, <1>7, KeysBeside

\* skiparray_iter_seek.
LEMMA SeekCursor ==
  ASSUME NEW r, Stands(r), NEW i \in DOMAIN its, NEW key \in Keys, IterSeek(i, key)
  PROVE  Cursors!IterSeek(i, key)
<1> DEFINE at == search(sa, key)
           n == at.n
           index == at.index
           next == sa.heap[n].fwd[0]
           before == index = 0 /\ sa.heap[n].back = NULL
<1>1. /\ Sound(sa, r) /\ Represents(sa, MapOf) /\ DOMAIN MapOf \subseteq Nat /\ Live(its)
      /\ \A y \in DOMAIN sa.heap : Count(sa, y) \in Nat /\ Count(sa, y) > 0
  BY DEF Stands
<1>2. key \in Nat /\ Answer(sa, r, key, n, index, at.found)
  BY <1>1, PairKeys, SearchFinds
<1>3. /\ call' = <<"iter_seek", i, key>>
      /\ \/ at.found /\ Move(i, n, index, "FOUND")
         \/ ~at.found /\ before /\ Refuse("BEFORE_FIRST") /\ UNCHANGED its
         \/ /\ ~at.found /\ ~before /\ index = Count(sa, n)
            /\ next = NULL /\ Refuse("AFTER_LAST") /\ UNCHANGED its
         \/ /\ ~at.found /\ ~before /\ index = Count(sa, n)
            /\ next # NULL /\ Move(i, next, 0, "NOT_FOUND")
         \/ /\ ~at.found /\ ~before /\ index # Count(sa, n)
            /\ Move(i, n, index, "NOT_FOUND")
  BY DEF IterSeek, SeekBehind
<1>4. next = sa.heap[n].fwd[0] /\ (before <=> index = 0 /\ sa.heap[n].back = NULL)
  OBVIOUS
<1> HIDE DEF at, next, before
<1>5. i \in DOMAIN PosOf
  BY PlaceOf
<1>6. n \in DOMAIN sa.heap /\ (at.found <=> key \in DOMAIN MapOf)
  BY <1>1, <1>2, FoundIs DEF Answer
<1>7. CASE at.found /\ Move(i, n, index, "FOUND")
  <2>1. KeyAt(sa, key, n, index) /\ index \in Nat
    BY <1>2, <1>7 DEF Answer
  <2>2. index + 1 \in 1 .. Count(sa, n) /\ KeyOf(sa, n, index + 1) = key
    BY <1>1, <1>6, <2>1, PairsType DEF KeyAt, KeyOf, Sound, Formed
  <2>3. KeyUnder(n, index) = key
    BY <1>1, <1>6, <2>1, <2>2 DEF KeyUnder
  <2>4. Cursors!Stand(i, key, "FOUND")
    BY <1>1, <1>7, <2>3, MoveStands
  <2> QED BY <1>3, <1>5, <1>6, <1>7, <2>4, KeysBeside DEF Cursors!IterSeek
<1>8. ASSUME ~at.found
      PROVE  GapAt(sa, r, key, n, index) /\ index \in 0 .. Count(sa, n) /\ key \notin DOMAIN MapOf
  BY <1>2, <1>6, <1>8 DEF Answer, GapAt, Splits, Count
<1>9. ASSUME NEW res, Refuse(res), UNCHANGED its
      PROVE  Cursors!Refuse(res)
  <2>1. Returns(res, {}) /\ sa' = sa
    BY <1>9 DEF Refuse, Look
  <2> QED BY <1>9, <2>1, StaysPut
<1>10. CASE ~at.found /\ before /\ Refuse("BEFORE_FIRST") /\ UNCHANGED its
  <2>1. \A x \in DOMAIN MapOf : key < x
    BY <1>1, <1>2, <1>4, <1>6, <1>8, <1>10, GapAtEnds
  <2>2. Cursors!Preceding(key) = {}
    BY <1>1, <1>2, <2>1, KeysBeside
  <2> QED BY <1>3, <1>5, <1>8, <1>9, <1>10, <2>2, KeysBeside DEF Cursors!IterSeek
<1>11. CASE /\ ~at.found /\ index = Count(sa, n)
            /\ next = NULL /\ Refuse("AFTER_LAST") /\ UNCHANGED its
  <2>1. \A x \in DOMAIN MapOf : x < key
    BY <1>1, <1>2, <1>4, <1>6, <1>8, <1>11, GapAtEnds
  <2>2. Cursors!Following(key) = {}
    BY <1>1, <1>2, <2>1, KeysBeside
  <2> QED BY <1>3, <1>5, <1>8, <1>9, <1>11, <2>2, KeysBeside DEF Cursors!IterSeek
<1>12. CASE /\ ~at.found /\ ~before /\ index = Count(sa, n)
            /\ next # NULL /\ Move(i, next, 0, "NOT_FOUND")
  <2>1. /\ Cursors!Preceding(key) # {} /\ Cursors!Following(key) # {}
        /\ KeyUnder(next, 0) = Cursors!Least(Cursors!Following(key))
    BY <1>2, <1>4, <1>6, <1>8, <1>12, SeekMisses
  <2>2. Cursors!Stand(i, Cursors!Least(Cursors!Following(key)), "NOT_FOUND")
    BY <1>1, <1>12, <2>1, MoveStands
  <2> QED BY <1>3, <1>5, <1>8, <1>12, <2>1, <2>2, KeysBeside DEF Cursors!IterSeek
<1>13. CASE /\ ~at.found /\ ~before /\ index # Count(sa, n)
            /\ Move(i, n, index, "NOT_FOUND")
  <2>1. index < Count(sa, n)
    BY <1>1, <1>6, <1>8, <1>13
  <2>2. /\ Cursors!Preceding(key) # {} /\ Cursors!Following(key) # {}
        /\ KeyUnder(n, index) = Cursors!Least(Cursors!Following(key))
    BY <1>2, <1>4, <1>6, <1>8, <1>13, <2>1, SeekMisses
  <2>3. Cursors!Stand(i, Cursors!Least(Cursors!Following(key)), "NOT_FOUND")
    BY <1>1, <1>13, <2>2, MoveStands
  <2> QED BY <1>3, <1>5, <1>8, <1>13, <2>2, <2>3, KeysBeside DEF Cursors!IterSeek
<1> QED BY <1>3, <1>7, <1>10, <1>11, <1>12, <1>13

\* No node is behind the last one, and none in front of the first.
LEMMA NoneBeside ==
  ASSUME NEW a, NEW r, Sound(a, r), NEW n \in DOMAIN a.heap
  PROVE  /\ a.heap[n].fwd[0] = NULL => \A q \in DOMAIN a.heap : ~(r[n] < r[q])
         /\ a.heap[n].back = NULL => \A q \in DOMAIN a.heap : ~(r[q] < r[n])
<1> DEFINE next == a.heap[n].fwd[0]
           back == a.heap[n].back
<1>1. next = a.heap[n].fwd[0] /\ back = a.heap[n].back
  OBVIOUS
<1> HIDE DEF next, back
<1>2. /\ next = NULL => \A q \in DOMAIN a.heap : ~(r[n] < r[q])
      /\ back = NULL => \A q \in DOMAIN a.heap : ~(r[q] < r[n])
  BY <1>1, NodesBeside
<1> QED BY <1>1, <1>2

\* The key in front of j is the greatest of those that are.
LEMMA GreatestInFront ==
  ASSUME NEW m, DOMAIN m \subseteq Nat, NEW k, NEW j, Adjoin(m, k, j),
         NEW S, S = {x \in DOMAIN m : x < j}
  PROVE  S # {} /\ Cursors!Greatest(S) = k
BY AdjoinIs

\* skiparray_iter_next of an iterator on a pair.
LEMMA NextCursor ==
  ASSUME ~StepPastEnd, NEW r, Stands(r), NEW i \in DOMAIN its,
         Spot(its[i].n, its[i].index), IterNext(i)
  PROVE  Cursors!IterNext(i)
<1> DEFINE n == its[i].n
           index == its[i].index
           next == sa.heap[n].fwd[0]
           k == KeyOf(sa, n, index + 1)
<1>1. /\ Sound(sa, r) /\ Represents(sa, MapOf) /\ DOMAIN MapOf \subseteq Nat /\ Live(its)
      /\ \A y \in DOMAIN sa.heap : Count(sa, y) \in Nat /\ Count(sa, y) > 0
  BY DEF Stands
<1>2. /\ call' = <<"iter_next", i>> /\ index < Count(sa, n)
      /\ \/ index + 1 = Count(sa, n) /\ next = NULL /\ Move(i, n, index + 1, "END")
         \/ index + 1 = Count(sa, n) /\ next # NULL /\ Move(i, next, 0, "OK")
         \/ index + 1 # Count(sa, n) /\ Move(i, n, index + 1, "OK")
  BY DEF IterNext, OnPair
<1>3. n \in DOMAIN sa.heap /\ index \in Nat
  BY DEF Spot, Nodes
<1>4. next = sa.heap[n].fwd[0] /\ k = KeyOf(sa, n, index + 1) /\ PosOf[i] = KeyUnder(n, index)
  BY PlaceOf
<1> HIDE DEF n, index, next, k
<1>5. PosOf[i] = k
  BY <1>2, <1>4 DEF KeyUnder
<1>6. index + 1 \in 1 .. Count(sa, n) /\ Count(sa, n) \in Nat
  BY <1>1, <1>2, <1>3
<1>7. k \in DOMAIN MapOf /\ k # 0
  BY <1>1, <1>3, <1>4, <1>6, KeysAtPlaces
<1>8. i \in DOMAIN PosOf
  BY PlaceOf
<1>9. ASSUME NEW q, NEW x, Adjoin(MapOf, k, KeyUnder(q, x)), Move(i, q, x, "OK")
      PROVE  Cursors!IterNext(i)
  <2>1. /\ Cursors!Following(k) # {}
        /\ Cursors!Least(Cursors!Following(k)) = KeyUnder(q, x)
    BY <1>1, <1>9, AdjoinIs, KeysBeside
  <2>2. Cursors!Stand(i, KeyUnder(q, x), "OK")
    BY <1>1, <1>9, MoveStands
  <2> QED BY <1>2, <1>5, <1>7, <1>8, <2>1, <2>2, CommonWords DEF Cursors!IterNext
<1>10. CASE index + 1 = Count(sa, n) /\ next = NULL /\ Move(i, n, index + 1, "END")
  <2>1. \A q \in DOMAIN sa.heap : ~(r[n] < r[q])
    BY <1>1, <1>3, <1>4, <1>10, NoneBeside
  <2>2. \A x \in DOMAIN MapOf : x <= k
    BY <1>1, <1>3, <1>4, <1>10, <2>1, LastPlace
  <2>3. Cursors!Following(k) = {}
    BY <1>1, <1>7, <2>2, KeysBeside
  <2>4. KeyUnder(n, index + 1) = 0
    BY <1>6, <1>10 DEF KeyUnder
  <2>5. Cursors!Stand(i, 0, "END")
    BY <1>1, <1>10, <2>4, MoveStands
  <2> QED BY <1>2, <1>5, <1>8, <2>3, <2>5, CommonWords DEF Cursors!IterNext
<1>11. CASE index + 1 = Count(sa, n) /\ next # NULL /\ Move(i, next, 0, "OK")
  <2>1. /\ next \in DOMAIN sa.heap /\ r[n] < r[next]
        /\ \A q \in DOMAIN sa.heap : r[n] < r[q] => r[next] <= r[q]
    BY <1>1, <1>3, <1>4, <1>11, NodesBeside
  <2>2. Adjoin(MapOf, KeyOf(sa, n, Count(sa, n)), KeyOf(sa, next, 1))
    BY <1>1, <1>3, <2>1, NextInNextNode
  <2>3. KeyUnder(next, 0) = KeyOf(sa, next, 1) /\ k = KeyOf(sa, n, Count(sa, n))
    BY <1>1, <1>4, <1>11, <2>1 DEF KeyUnder
  <2> QED BY <1>9, <1>11, <2>2, <2>3
<1>12. CASE index + 1 # Count(sa, n) /\ Move(i, n, index + 1, "OK")
  <2>1. index + 1 + 1 \in 1 .. Count(sa, n)
    BY <1>6, <1>3, <1>12
  <2>2. Adjoin(MapOf, k, KeyOf(sa, n, index + 1 + 1))
    BY <1>1, <1>3, <1>4, <1>6, <2>1, NextInNode
  <2>3. KeyUnder(n, index + 1) = KeyOf(sa, n, index + 1 + 1)
    BY <1>3, <1>6, <2>1 DEF KeyUnder
  <2> QED BY <1>9, <1>12, <2>2, <2>3
<1> QED BY <1>2, <1>10, <1>11, <1>12

\* skiparray_iter_prev, of an iterator that may be behind the last pair.
LEMMA PrevCursor ==
  ASSUME NEW r, Stands(r), NEW i \in DOMAIN its,
         Spot(its[i].n, its[i].index), IterPrev(i)
  PROVE  Cursors!IterPrev(i)
<1> DEFINE n == its[i].n
           index == its[i].index
           back == sa.heap[n].back
           before == IF PosOf[i] = 0 THEN DOMAIN MapOf ELSE Cursors!Preceding(PosOf[i])
<1>1. /\ Sound(sa, r) /\ Represents(sa, MapOf) /\ DOMAIN MapOf \subseteq Nat /\ Live(its)
      /\ \A y \in DOMAIN sa.heap : Count(sa, y) \in Nat /\ Count(sa, y) > 0
  BY DEF Stands
<1>2. /\ call' = <<"iter_prev", i>>
      /\ \/ index = 0 /\ back = NULL /\ Refuse("END") /\ UNCHANGED its
         \/ index = 0 /\ back # NULL /\ Move(i, back, LastIndex(back), "OK")
         \/ index > 0 /\ Move(i, n, index - 1, "OK")
  BY DEF IterPrev
<1>3. /\ n \in DOMAIN sa.heap /\ index \in Nat /\ Count(sa, n) \in Nat /\ Count(sa, n) > 0
      /\ index < Count(sa, n) \/ (sa.heap[n].fwd[0] = NULL /\ index = Count(sa, n))
  BY <1>1 DEF Spot, Nodes
<1>4. back = sa.heap[n].back /\ PosOf[i] = KeyUnder(n, index) /\ i \in DOMAIN PosOf
  BY PlaceOf
<1>5. before = IF PosOf[i] = 0 THEN DOMAIN MapOf ELSE Cursors!Preceding(PosOf[i])
  OBVIOUS
<1> HIDE DEF n, index, back, before
<1>6. ASSUME index < Count(sa, n)
      PROVE  /\ PosOf[i] = KeyOf(sa, n, index + 1)
             /\ before = {x \in DOMAIN MapOf : x < PosOf[i]}
  <2>1. index + 1 \in 1 .. Count(sa, n)
    BY <1>3, <1>6
  <2>2. PosOf[i] = KeyOf(sa, n, index + 1)
    BY <1>4, <1>6 DEF KeyUnder
  <2>3. PosOf[i] # 0
    BY <1>1, <1>3, <2>1, <2>2, KeysAtPlaces
  <2> QED BY <1>5, <2>2, <2>3, KeysBeside
<1>7. ASSUME NEW q, NEW x, before # {}, Cursors!Greatest(before) = KeyUnder(q, x),
             Move(i, q, x, "OK")
      PROVE  Cursors!IterPrev(i)
  <2>1. Cursors!Stand(i, Cursors!Greatest(before), "OK")
    BY <1>1, <1>7, MoveStands
  <2> QED BY <1>2, <1>4, <1>5, <1>7, <2>1, CommonWords, KeysBeside DEF Cursors!IterPrev
<1>8. CASE index = 0 /\ back = NULL /\ Refuse("END") /\ UNCHANGED its
  <2>1. index < Count(sa, n) /\ PosOf[i] = KeyOf(sa, n, 1)
    BY <1>3, <1>6, <1>8
  <2>2. \A q \in DOMAIN sa.heap : ~(r[q] < r[n])
    BY <1>1, <1>3, <1>4, <1>8, NoneBeside
  <2>3. \A x \in DOMAIN MapOf : PosOf[i] <= x
    BY <1>1, <1>3, <2>1, <2>2, FirstPlace
  <2>4. PosOf[i] \in Nat
    BY <1>1, <1>3, <2>1, KeysAtPlaces
  <2>5. before = {}
    BY <1>1, <1>6, <2>1, <2>3, <2>4
  <2>6. Returns("END", {}) /\ sa' = sa /\ its' = its
    BY <1>8 DEF Refuse, Look
  <2>7. PosOf' = PosOf /\ MapOf' = MapOf
    BY <2>6, StaysPut
  <2>8. Cursors!Stand(i, PosOf[i], "END")
    <3>1. PosOf = [PosOf EXCEPT ![i] = PosOf[i]]
      BY PlaceOf
    <3> QED BY <2>6, <2>7, <3>1 DEF Cursors!Stand, Cursors!Returns, Returns
  <2> QED BY <1>2, <1>4, <1>5, <2>5, <2>8, CommonWords, KeysBeside DEF Cursors!IterPrev
<1>9. CASE index = 0 /\ back # NULL /\ Move(i, back, LastIndex(back), "OK")
  <2>1. /\ back \in DOMAIN sa.heap /\ r[back] < r[n]
        /\ \A q \in DOMAIN sa.heap : r[q] < r[n] => r[q] <= r[back]
    BY <1>1, <1>3, <1>4, <1>9, NodesBeside
  <2>2. \A q \in DOMAIN sa.heap : r[back] < r[q] => r[n] <= r[q]
    <3>1. \A q \in DOMAIN sa.heap : r[q] \in Nat
      BY <1>1, FormedFacts DEF Sound
    <3> QED BY <1>3, <2>1, <3>1
  <2>3. Adjoin(MapOf, KeyOf(sa, back, Count(sa, back)), KeyOf(sa, n, 1))
    BY <1>1, <1>3, <2>1, <2>2, NextInNextNode
  <2>4. PosOf[i] = KeyOf(sa, n, 1) /\ before = {x \in DOMAIN MapOf : x < PosOf[i]}
    BY <1>3, <1>6, <1>9
  <2>5. LastIndex(back) < Count(sa, back) /\ LastIndex(back) + 1 = Count(sa, back)
    BY <1>1, <2>1 DEF LastIndex
  <2>6. KeyUnder(back, LastIndex(back)) = KeyOf(sa, back, Count(sa, back))
    BY <2>5 DEF KeyUnder
  <2>7. before # {} /\ Cursors!Greatest(before) = KeyUnder(back, LastIndex(back))
    BY <1>1, <2>3, <2>4, <2>6, GreatestInFront
  <2> QED BY <1>7, <1>9, <2>7
<1>10. CASE index > 0 /\ Move(i, n, index - 1, "OK")
  <2>1. index \in 1 .. Count(sa, n) /\ KeyUnder(n, index - 1) = KeyOf(sa, n, index)
    BY <1>3, <1>10 DEF KeyUnder
  <2>2. CASE index < Count(sa, n)
    <3>1. index + 1 \in 1 .. Count(sa, n)
      BY <1>3, <2>2
    <3>2. Adjoin(MapOf, KeyOf(sa, n, index), KeyOf(sa, n, index + 1))
      BY <1>1, <1>3, <2>1, <3>1, NextInNode
    <3>3. before # {} /\ Cursors!Greatest(before) = KeyUnder(n, index - 1)
      BY <1>1, <1>6, <2>1, <2>2, <3>2, GreatestInFront
    <3> QED BY <1>7, <1>10, <3>3
  <2>3. CASE sa.heap[n].fwd[0] = NULL /\ index = Count(sa, n)
    <3>1. before = DOMAIN MapOf
      BY <1>3, <1>4, <1>5, <2>3 DEF KeyUnder
    <3>2. \A q \in DOMAIN sa.heap : ~(r[n] < r[q])
      BY <1>1, <1>3, <2>3, NoneBeside
    <3>3. \A x \in DOMAIN MapOf : x <= KeyOf(sa, n, index)
      BY <1>1, <1>3, <2>3, <3>2, LastPlace
    <3>4. KeyOf(sa, n, index) \in DOMAIN MapOf
      BY <1>1, <1>3, <2>1, KeysAtPlaces
    <3>5. Promise!Greatest(DOMAIN MapOf) = KeyOf(sa, n, index)
      BY <1>1, <3>3, <3>4, GreatestIs
    <3>6. before # {} /\ Cursors!Greatest(before) = KeyUnder(n, index - 1)
      BY <2>1, <3>1, <3>4, <3>5, CommonWords
    <3> QED BY <1>7, <1>10, <3>6
  <2> QED BY <1>3, <2>2, <2>3
<1> QED BY <1>2, <1>8, <1>9, <1>10

\* skiparray_iter_get.
LEMMA GetCursor ==
  ASSUME NEW r, Stands(r), NEW i \in DOMAIN its,
         Spot(its[i].n, its[i].index), IterGet(i)
  PROVE  Cursors!IterGet(i)
<1> DEFINE n == its[i].n
           index == its[i].index
<1>1. Sound(sa, r) /\ Represents(sa, MapOf)
  BY DEF Stands
<1>2. /\ call' = <<"iter_get", i>> /\ index < Count(sa, n)
      /\ Returns("OK", {sa.heap[n].pairs[index + 1]}) /\ sa' = sa /\ its' = its
  BY DEF IterGet, OnPair, Look, PairAt
<1>3. n \in DOMAIN sa.heap /\ index + 1 \in 1 .. Count(sa, n)
  BY <1>1, <1>2, PairsType DEF Spot, Nodes, Sound, Formed
<1>4. PosOf[i] = KeyUnder(n, index) /\ i \in DOMAIN PosOf
  BY PlaceOf
<1> HIDE DEF n, index
<1>5. PosOf[i] = KeyOf(sa, n, index + 1)
  BY <1>2, <1>4 DEF KeyUnder
<1>6. MapOf[PosOf[i]] = sa.heap[n].pairs[index + 1] /\ PosOf[i] # 0
  BY <1>1, <1>3, <1>5, KeysAtPlaces
<1>7. Cursors!Look("OK", {MapOf[PosOf[i]]})
  BY <1>2, <1>6, StaysPut
<1> QED BY <1>2, <1>4, <1>6, <1>7, CommonWords DEF Cursors!IterGet

\* Each step of an iterator is one of OrderedMap.
LEMMA StepsWithCursors ==
  ASSUME ~StepPastEnd, ListInv, SpotInv, IterStep
  PROVE  Cursors!Next
<1>1. Cursors!Keys = Keys /\ DOMAIN its \subseteq IterIds
  BY CommonWords DEF ListInv, Live
<1>2. CASE \E i \in IterIds : IterNew(i)
  BY <1>2, NewCursor DEF Cursors!Next
<1>3. CASE \E i \in DOMAIN its : IterFree(i)
  BY <1>1, <1>3, FreedCursor DEF Cursors!Next
<1>4. ASSUME NEW i \in DOMAIN its, \/ \E end \in {"FIRST", "LAST"} : IterSeekEndpoint(i, end)
                                   \/ \E key \in Keys : IterSeek(i, key)
                                   \/ IterNext(i)
                                   \/ IterPrev(i)
                                   \/ IterGet(i)
      PROVE  Cursors!Next
  <2>1. PICK r : Stands(r) /\ Spot(its[i].n, its[i].index)
    BY StandsNow
  <2>2. \A end \in {"FIRST", "LAST"} : IterSeekEndpoint(i, end) => Cursors!IterSeekEndpoint(i, end)
    BY <2>1, EndpointCursor
  <2>3. \A key \in Keys : IterSeek(i, key) => Cursors!IterSeek(i, key)
    BY <2>1, SeekCursor
  <2>4. /\ IterNext(i) => Cursors!IterNext(i)
        /\ IterPrev(i) => Cursors!IterPrev(i)
        /\ IterGet(i) => Cursors!IterGet(i)
    BY <2>1, NextCursor, PrevCursor, GetCursor
  <2> QED BY <1>1, <1>4, <2>2, <2>3, <2>4 DEF Cursors!Next
<1> QED BY <1>2, <1>3, <1>4 DEF IterStep

\* However the calls of a client that stops at END interleave with those of any
\* number of iterators: each iterator stands on a key, goes to the keys the
\* header says, and locks the map; no link, node or index shows through.
THEOREM IteratorsAreCursors ==
  ASSUME ~StepPastEnd
  PROVE  IterSpec => RefinesCursors
<1>1. IterInit => Cursors!Init /\ SpotInv
  <2> SUFFICES ASSUME IterInit
               PROVE  Cursors!Init /\ SpotInv
    OBVIOUS
  <2>1. PICK r : Sound(sa, r) /\ DOMAIN sa.heap = {1} /\ sa.heap[1].pairs = << >>
    BY skiparray_newSound DEF IterInit, Init
  <2>2. MapOf = [k \in {} |-> 0]
    BY <2>1, NewMap
  <2>3. DOMAIN its = {}
    BY DEF IterInit
  <2>4. PosOf = [i \in {} |-> 0]
    BY <2>3 DEF PosOf
  <2> QED BY <2>1, <2>2, <2>3, <2>4 DEF IterInit, Init, Cursors!Init, SpotInv, IsSound
<1>2. ListInv /\ SpotInv /\ [IterNextState]_iterVars => SpotInv'
  BY SpotStep
<1>3. ListInv /\ SpotInv /\ [IterNextState]_iterVars => [Cursors!Next]_Cursors!vars
  <2> SUFFICES ASSUME ListInv, SpotInv, [IterNextState]_iterVars
               PROVE  [Cursors!Next]_Cursors!vars
    OBVIOUS
  <2>1. CASE Next /\ UNCHANGED its
    <3>1. PICK r : Sound(sa, r)
      BY DEF SpotInv, IsSound
    <3> QED BY <2>1, <3>1, CallsWithCursors
  <2>2. CASE IterStep
    BY <2>2, StepsWithCursors
  <2>3. CASE UNCHANGED iterVars
    BY <2>3, StaysPut DEF iterVars, Cursors!vars
  <2> QED BY <2>1, <2>2, <2>3 DEF IterNextState
<1> QED BY <1>1, <1>2, <1>3, ListAlways, PTL DEF IterSpec, RefinesCursors, Cursors!Spec

-----------------------------------------------------------------------------
(* How full the nodes are. *)

\* Only a node with no next one may be less than half full.
LowIsLast(a) ==
  \A n \in DOMAIN a.heap : After(a, n, 0) # NULL => Count(a, n) >= Required

\* The same by the ranks of the nodes, but perhaps for x.
LowBut(a, r, x) ==
  \A m, q \in DOMAIN a.heap : r[m] < r[q] /\ m # x => Count(a, m) >= Required

\* A node without a next one is the last.
LEMMA NoneAfter ==
  ASSUME NEW a, NEW r, Formed(a, r), NEW n \in DOMAIN a.heap
  PROVE  After(a, n, 0) = NULL <=> \A q \in DOMAIN a.heap : ~(r[n] < r[q])
<1> DEFINE T == OnLevel(a, 0)
           f == Hops(a, T, 0)
<1>1. T = DOMAIN a.heap /\ 0 \in LevelSet /\ NULL \notin DOMAIN a.heap
  BY LevelZeroIsAll, FormedFacts DEF Formed
<1>2. Follows(r, T, n, f[n]) /\ f[n] = After(a, n, 0) /\ n # NULL
  BY <1>1 DEF Formed, Linked, Chained, Hops
<1> HIDE DEF f
<1> QED BY <1>1, <1>2 DEF Follows, Behind

\* So the links say of the nodes what the ranks say.
LEMMA LowByRank ==
  ASSUME NEW a, NEW r, Formed(a, r)
  PROVE  LowIsLast(a) <=> LowBut(a, r, NULL)
<1>1. \A n \in DOMAIN a.heap : n # NULL
  BY FormedFacts
<1>2. \A n \in DOMAIN a.heap : After(a, n, 0) # NULL <=> \E q \in DOMAIN a.heap : r[n] < r[q]
  BY NoneAfter
<1> QED BY <1>1, <1>2 DEF LowIsLast, LowBut

\* The number of pairs a node has at most, and half of it.
LEMMA Halves ==
  /\ NodeSize \in Nat /\ NodeSize >= 2 /\ Required \in Nat /\ Required >= 1
  /\ NodeSize - NodeSize \div 2 >= Required /\ Required + Required <= NodeSize
  /\ NodeSize - NodeSize \div 2 \in 1 .. NodeSize - 1
BY SkipListAssumption DEF Required

\* A merge or a refill leaves no node low but the last.
LEMMA RebalancedLow ==
  ASSUME NEW a, NEW r, Formed(a, r), NEW n \in DOMAIN a.heap, LowBut(a, r, n),
         NEW c, Rebalanced(a, r, n, c)
  PROVE  LowBut(c, r, NULL)
<1>1. /\ Required \in Nat /\ NodeSize \in Nat /\ Required + Required <= NodeSize
      /\ \A m \in DOMAIN a.heap : /\ Count(a, m) \in Nat /\ m # NULL /\ r[m] \in Nat
                                  /\ a.heap[m].pairs \in Seq(AllPairs)
      /\ \A m, q \in DOMAIN a.heap : r[m] = r[q] => m = q
  BY Halves, PairsType, FormedFacts
<1>2. CASE c = a /\ (Count(a, n) < Required =>
                       /\ ~\E x : Adjacent(a, r, n, x)
                       /\ \A x : Adjacent(a, r, x, n) => ~fits(a, x, n))
  <2>1. CASE ~(Count(a, n) < Required)
    BY <1>1, <1>2, <2>1 DEF LowBut
  <2>2. CASE ~\E x : Adjacent(a, r, n, x)
    <3>1. After(a, n, 0) = NULL
      BY <2>2, NextIsAdjacent
    <3>2. \A q \in DOMAIN a.heap : ~(r[n] < r[q])
      BY <3>1, NoneAfter
    <3> QED BY <1>2, <3>2 DEF LowBut
  <2> QED BY <1>2, <2>1, <2>2
<1>3. ASSUME NEW x, Adjacent(a, r, n, x), Merged(a, c, n, x)
      PROVE  LowBut(c, r, NULL)
  <2>1. x \in DOMAIN a.heap /\ n # x
    BY <1>1, <1>3 DEF Adjacent
  <2>2. Len(a.heap[n].pairs \o a.heap[x].pairs) = Len(a.heap[n].pairs) + Len(a.heap[x].pairs)
    BY <1>1, <2>1, RowOfPairs
  <2>3. Count(c, n) = Count(a, n) + Count(a, x)
    BY <1>3, <2>2 DEF Merged, Joined, Count
  <2>4. ASSUME NEW m \in DOMAIN c.heap, NEW q \in DOMAIN c.heap, r[m] < r[q]
        PROVE  Count(c, m) >= Required
    <3>1. m \in DOMAIN a.heap /\ q \in DOMAIN a.heap /\ m # x /\ q # x
      BY <1>3 DEF Merged
    <3>2. CASE m # n
      <4>1. Count(c, m) = Count(a, m)
        BY <1>3, <3>1, <3>2 DEF Merged, Joined, Count
      <4> QED BY <2>4, <3>1, <3>2, <4>1 DEF LowBut
    <3>3. CASE m = n
      <4>1. r[x] < r[q]
        BY <1>1, <1>3, <2>1, <2>4, <3>1, <3>3 DEF Adjacent
      <4>2. Count(a, x) >= Required
        BY <2>1, <3>1, <4>1 DEF LowBut
      <4> QED BY <1>1, <2>1, <2>3, <3>3, <4>2
    <3> QED BY <3>2, <3>3
  <2> QED BY <2>4 DEF LowBut
<1>4. ASSUME NEW x, Adjacent(a, r, n, x), Count(a, n) < Required, ~fits(a, n, x),
             NEW k, k = Count(a, x) - Required, Refilled(a, c, n, x, k)
      PROVE  LowBut(c, r, NULL)
  <2>1. x \in DOMAIN a.heap /\ n # x
    BY <1>1, <1>4 DEF Adjacent
  <2>2. k \in Nat /\ k <= Count(a, x) /\ Count(a, n) + k >= Required
    BY <1>1, <1>4, <2>1 DEF fits
  <2> DEFINE s == a.heap[n].pairs
             t == a.heap[x].pairs
  <2>3. s \in Seq(AllPairs) /\ t \in Seq(AllPairs) /\ k \in 0 .. Len(t) /\ Len(t) \in Nat
    BY <1>1, <2>1, <2>2 DEF Count
  <2>4. Len(s \o SubSeq(t, 1, k)) = Len(s) + k /\ Len(SubSeq(t, k + 1, Len(t))) = Len(t) - k
    <3> HIDE DEF s, t
    <3>1. SubSeq(t, 1, k) \in Seq(AllPairs) /\ Len(SubSeq(t, 1, k)) = k
      BY <2>3
    <3>2. Len(s \o SubSeq(t, 1, k)) = Len(s) + k
      BY <2>3, <3>1
    <3>3. Len(SubSeq(t, k + 1, Len(t))) = Len(t) - k
      BY <2>3
    <3> QED BY <3>2, <3>3
  <2>5. Count(c, n) = Count(a, n) + k /\ Count(c, x) = Count(a, x) - k
    BY <1>4, <2>4 DEF Refilled, Count
  <2>6. Count(c, x) = Required
    BY <1>1, <1>4, <2>1, <2>5
  <2>7. \A m \in DOMAIN a.heap : m # n /\ m # x => Count(c, m) = Count(a, m)
    BY <1>4 DEF Refilled, Count
  <2>8. DOMAIN c.heap = DOMAIN a.heap
    BY <1>4 DEF Refilled
  <2> HIDE DEF s, t
  <2>9. \A m, q \in DOMAIN c.heap : r[m] < r[q] => Count(c, m) >= Required
    BY <1>1, <2>2, <2>5, <2>6, <2>7, <2>8 DEF LowBut
  <2> QED BY <2>9 DEF LowBut
<1>5. ASSUME NEW x, Adjacent(a, r, x, n), ~\E y : Adjacent(a, r, n, y), Merged(a, c, x, n)
      PROVE  LowBut(c, r, NULL)
  <2>1. After(a, n, 0) = NULL
    BY <1>5, NextIsAdjacent
  <2>2. \A q \in DOMAIN a.heap : ~(r[n] < r[q])
    BY <2>1, NoneAfter
  <2>3. ASSUME NEW m \in DOMAIN c.heap, NEW q \in DOMAIN c.heap, r[m] < r[q]
        PROVE  Count(c, m) >= Required
    <3>1. m \in DOMAIN a.heap /\ q \in DOMAIN a.heap /\ m # n /\ q # n /\ x \in DOMAIN a.heap
      BY <1>5 DEF Merged, Adjacent
    <3>2. m # x
      <4>1. r[q] <= r[n] /\ r[q] # r[n]
        BY <1>1, <2>2, <3>1
      <4>2. r[q] <= r[x]
        BY <1>1, <1>5, <3>1, <4>1 DEF Adjacent
      <4> QED BY <1>1, <2>3, <3>1, <4>2
    <3>3. Count(c, m) = Count(a, m)
      BY <1>5, <3>1, <3>2 DEF Merged, Joined, Count
    <3> QED BY <2>3, <3>1, <3>3 DEF LowBut
  <2> QED BY <2>3 DEF LowBut
<1> QED BY <1>2, <1>3, <1>4, <1>5 DEF Rebalanced

\* b has the nodes of a, with the pairs s in n.
RowChanged(a, b, n, s) ==
  /\ DOMAIN b.heap = DOMAIN a.heap /\ b.heap[n].pairs = s
  /\ \A m \in DOMAIN a.heap : m # n => b.heap[m].pairs = a.heap[m].pairs

\* The pairs of a skiparray with the pairs of one node replaced.
LEMMA OneRowChanged ==
  ASSUME NEW a, a \in SkipArrays, NEW n \in DOMAIN a.heap, NEW s \in Seq(AllPairs),
         NEW b, b = SetPairs(a, n, s)
  PROVE  RowChanged(a, b, n, s)
BY SetPairsEffect DEF SameNodes, RowChanged

\* insert_pair gives one node one pair more.
LEMMA PairInserted ==
  ASSUME NEW a, a \in SkipArrays, NEW n \in DOMAIN a.heap, NEW index \in 0 .. Count(a, n),
         NEW pair \in AllPairs, NEW b, b = insert_pair(a, n, index, pair)
  PROVE  /\ RowChanged(a, b, n, InsertAt(a.heap[n].pairs, index + 1, pair))
         /\ Count(b, n) = Count(a, n) + 1
<1> DEFINE p == a.heap[n].pairs
           s == InsertAt(p, index + 1, pair)
<1>1. p \in Seq(AllPairs) /\ Len(p) = Count(a, n) /\ Count(a, n) \in Nat
  BY PairsType DEF Count
<1>2. index + 1 \in 1 .. Len(p) + 1
  BY <1>1
<1>3. s = InsertAt(p, index + 1, pair) /\ b = SetPairs(a, n, s)
  BY DEF insert_pair, SetPairs
<1> HIDE DEF p, s
<1>4. s \in Seq(AllPairs) /\ PutIn(s, p, index + 1, pair)
  BY ONLY <1>1, <1>2, <1>3, pair \in AllPairs, PairPutIn, Zenon
<1>5. Len(s) = Len(p) + 1
  BY <1>4 DEF PutIn
<1>6. RowChanged(a, b, n, s)
  BY <1>3, <1>4, OneRowChanged
<1>7. b.heap[n].pairs = s
  BY <1>6 DEF RowChanged
<1> QED BY <1>1, <1>3, <1>5, <1>6, <1>7 DEF Count, p

\* remove_pair takes one.
LEMMA PairRemoved ==
  ASSUME NEW a, a \in SkipArrays, NEW n \in DOMAIN a.heap, NEW index \in 0 .. Count(a, n) - 1,
         NEW b, b = remove_pair(a, n, index)
  PROVE  RowChanged(a, b, n, RemoveAt(a.heap[n].pairs, index + 1))
<1> DEFINE p == a.heap[n].pairs
           s == RemoveAt(p, index + 1)
<1>1. p \in Seq(AllPairs) /\ Len(p) = Count(a, n) /\ Count(a, n) \in Nat
  BY PairsType DEF Count
<1>2. index + 1 \in 1 .. Len(p)
  BY <1>1
<1>3. s = RemoveAt(p, index + 1) /\ b = SetPairs(a, n, s)
  BY DEF remove_pair, SetPairs
<1> HIDE DEF p, s
<1>4. s \in Seq(AllPairs)
  BY <1>1, <1>2, <1>3, RemoveAtProperties
<1>5. RowChanged(a, b, n, s)
  BY <1>3, <1>4, OneRowChanged
<1> QED BY <1>3, <1>5 DEF p

\* With no fewer pairs in any node, none is low that was not.
LEMMA MoreIsNotLow ==
  ASSUME NEW a, NEW r, LowBut(a, r, NULL), NEW b, DOMAIN b.heap = DOMAIN a.heap,
         \A m \in DOMAIN a.heap : /\ Count(a, m) \in Nat /\ m # NULL
                                  /\ Count(b, m) \in Nat /\ Count(b, m) >= Count(a, m)
  PROVE  LowBut(b, r, NULL)
BY Halves DEF LowBut

\* So it is when a pair is put in,
LEMMA InsertedLow ==
  ASSUME NEW a, NEW r, Sound(a, r), LowBut(a, r, NULL), NEW n \in DOMAIN a.heap,
         NEW index \in 0 .. Count(a, n), NEW pair \in AllPairs,
         NEW b, b = insert_pair(a, n, index, pair)
  PROVE  LowBut(b, r, NULL)
<1>1. a \in SkipArrays /\ \A m \in DOMAIN a.heap : Count(a, m) \in Nat /\ m # NULL
  BY PairsType, FormedFacts DEF Sound
<1>2. /\ DOMAIN b.heap = DOMAIN a.heap /\ Count(b, n) = Count(a, n) + 1
      /\ \A m \in DOMAIN a.heap : m # n => b.heap[m].pairs = a.heap[m].pairs
  BY <1>1, PairInserted DEF RowChanged
<1>3. \A m \in DOMAIN a.heap : Count(b, m) \in Nat /\ Count(b, m) >= Count(a, m)
  <2>1. \A m \in DOMAIN a.heap : m # n => Count(b, m) = Count(a, m)
    BY <1>2 DEF Count
  <2> QED BY <1>1, <1>2, <2>1
<1> QED BY <1>1, <1>2, <1>3, MoreIsNotLow

\* and in the halves of a split node, which are at least half full.
LEMMA SplitLow ==
  ASSUME NEW a, NEW r, Sound(a, r), LowBut(a, r, NULL), NEW n \in DOMAIN a.heap,
         Count(a, n) = NodeSize, NEW index \in 0 .. Count(a, n), NEW pair \in AllPairs,
         NEW d, NEW s, SplitUp(a, r, n, index, pair, d, s)
  PROVE  LowBut(d, s, NULL)
<1> DEFINE keep == NodeSize - NodeSize \div 2
           p == a.heap[n].pairs
<1>1. PICK new, c :
        /\ Sound(c, s) /\ RoomBehind(r, s, DOMAIN a.heap, n, new) /\ new \notin DOMAIN a.heap
        /\ Shared(a, c, n, new, keep)
        /\ d = IF index > keep THEN insert_pair(c, new, index - keep, pair)
                               ELSE insert_pair(c, n, index, pair)
  BY DEF SplitUp
<1>2. /\ keep \in 1 .. NodeSize - 1 /\ keep >= Required /\ NodeSize \in Nat /\ Required \in Nat
      /\ NodeSize - keep = Required
  BY Halves DEF Required
<1>3. p \in Seq(AllPairs) /\ Len(p) = NodeSize
  BY PairsType DEF Sound, Formed, Count
<1> HIDE DEF keep
<1>4. Count(c, n) = keep /\ Count(c, new) = Required
  <2>1. c.heap[n].pairs = SubSeq(p, 1, keep) /\ c.heap[new].pairs = SubSeq(p, keep + 1, Len(p))
    BY <1>1 DEF Shared
  <2> HIDE DEF p
  <2>2. Len(SubSeq(p, 1, keep)) = keep /\ Len(SubSeq(p, keep + 1, Len(p))) = NodeSize - keep
    BY <1>2, <1>3
  <2> QED BY <1>2, <2>1, <2>2 DEF Count
<1>5. LowBut(c, s, NULL)
  <2>1. ASSUME NEW m \in DOMAIN c.heap, NEW q \in DOMAIN c.heap, s[m] < s[q]
        PROVE  Count(c, m) >= Required
    <3>1. CASE m = n \/ m = new
      BY <1>2, <1>4, <3>1
    <3>2. CASE m # n /\ m # new
      <4>1. m \in DOMAIN a.heap /\ Count(c, m) = Count(a, m) /\ m # NULL
        BY <1>1, <3>2, FormedFacts DEF Shared, Count, Sound
      <4>2. \E y \in DOMAIN a.heap : r[m] < r[y]
        <5>1. CASE q # new
          BY <1>1, <2>1, <4>1, <5>1 DEF Shared, RoomBehind
        <5>2. CASE q = new
          <6>1. s[m] <= s[n] /\ s[m] # s[n] /\ s[m] \in Nat /\ s[n] \in Nat
            <7>1. s[m] \in Nat /\ s[n] \in Nat /\ s[new] \in Nat /\ s[m] # s[n]
              BY <1>1, <3>2, <4>1 DEF RoomBehind, Ranks
            <7> QED BY <1>1, <2>1, <4>1, <5>2, <7>1 DEF RoomBehind
          <6>2. s[m] < s[n]
            BY <6>1
          <6> QED BY <1>1, <4>1, <6>2 DEF RoomBehind
        <5> QED BY <5>1, <5>2
      <4> QED BY <4>1, <4>2 DEF LowBut
    <3> QED BY <3>1, <3>2
  <2> QED BY <2>1 DEF LowBut
<1>6. n \in DOMAIN c.heap /\ new \in DOMAIN c.heap
  BY <1>1 DEF Shared
<1>7. CASE index > keep
  <2>1. index - keep \in 0 .. Count(c, new)
    BY <1>2, <1>4, <1>7
  <2>2. d = insert_pair(c, new, index - keep, pair)
    BY <1>1, <1>7
  <2> QED BY <1>1, <1>5, <1>6, <2>1, <2>2, InsertedLow
<1>8. CASE ~(index > keep)
  <2>1. index \in 0 .. Count(c, n)
    BY <1>2, <1>4, <1>8
  <2>2. d = insert_pair(c, n, index, pair)
    BY <1>1, <1>8
  <2> QED BY <1>1, <1>5, <1>6, <2>1, <2>2, InsertedLow
<1> QED BY <1>7, <1>8

\* A pair goes away: only its node may be low then.
LEMMA RemovedLow ==
  ASSUME NEW a, NEW r, Sound(a, r), LowBut(a, r, NULL), NEW n \in DOMAIN a.heap,
         NEW index \in 0 .. Count(a, n) - 1, NEW b, b = remove_pair(a, n, index)
  PROVE  LowBut(b, r, n)
<1>1. a \in SkipArrays /\ \A m \in DOMAIN a.heap : m # NULL
  BY FormedFacts DEF Sound
<1>2. /\ DOMAIN b.heap = DOMAIN a.heap
      /\ \A m \in DOMAIN a.heap : m # n => b.heap[m].pairs = a.heap[m].pairs
  BY <1>1, PairRemoved DEF RowChanged
<1> QED BY <1>1, <1>2 DEF LowBut, Count

\* The last node may be as low as it is.
LEMMA TrimmedLow ==
  ASSUME NEW b, NEW r, Formed(b, r), NEW x \in DOMAIN b.heap, LowBut(b, r, x),
         \A m \in DOMAIN b.heap : r[m] <= r[x], NEW c, Trimmed(b, x, c)
  PROVE  LowBut(c, r, NULL)
<1>1. \A m \in DOMAIN b.heap : r[m] \in Nat
  BY FormedFacts
<1>2. \A q \in DOMAIN b.heap : ~(r[x] < r[q])
  BY <1>1
<1>3. \A m, q \in DOMAIN b.heap : r[m] < r[q] => Count(b, m) >= Required
  BY <1>2 DEF LowBut
<1>4. DOMAIN c.heap \subseteq DOMAIN b.heap /\ \A m \in DOMAIN c.heap : Count(c, m) = Count(b, m)
  BY DEF Trimmed, Count
<1> QED BY <1>3, <1>4 DEF LowBut

\* A binding is exchanged for another.
LEMMA PairExchanged ==
  ASSUME NEW a, a \in SkipArrays, NEW n \in DOMAIN a.heap, NEW i \in DOMAIN a.heap[n].pairs,
         NEW pair \in AllPairs, NEW b, b = Rebound(a, n, i, pair)
  PROVE  /\ RowChanged(a, b, n, [a.heap[n].pairs EXCEPT ![i] = pair])
         /\ Count(b, n) = Count(a, n)
<1> DEFINE p == a.heap[n].pairs
           s == [p EXCEPT ![i] = pair]
<1>1. p \in Seq(AllPairs) /\ Len(p) = Count(a, n)
  BY PairsType DEF Count
<1>2. s \in Seq(AllPairs) /\ Len(s) = Len(p)
  <2> HIDE DEF p
  <2> QED BY <1>1, ExceptSeq DEF p
<1>3. s = [p EXCEPT ![i] = pair] /\ b = SetPairs(a, n, s)
  BY DEF Rebound, SetPairs
<1> HIDE DEF s
<1>4. RowChanged(a, b, n, s)
  BY <1>2, <1>3, OneRowChanged
<1>5. b.heap[n].pairs = s
  BY <1>4 DEF RowChanged
<1> QED BY <1>1, <1>2, <1>3, <1>4, <1>5 DEF Count

\* set_found is such an exchange.
LEMMA set_foundIs ==
  ASSUME NEW r, Sound(sa, r), NEW pair \in Pair, NEW at, at.n \in DOMAIN sa.heap,
         KeyAt(sa, pair.key, at.n, at.index), NEW replace_key \in BOOLEAN,
         NEW old, old = PairAt(at.n, at.index),
         NEW new, new = IF replace_key THEN pair ELSE [old EXCEPT !.val = pair.val],
         NEW b, b = set_found(at, pair, replace_key)
  PROVE  /\ at.index + 1 \in DOMAIN sa.heap[at.n].pairs
         /\ b = Rebound(sa, at.n, at.index + 1, new)
         /\ new \in AllPairs
<1>1. at.index + 1 \in DOMAIN sa.heap[at.n].pairs /\ old = sa.heap[at.n].pairs[at.index + 1]
  BY DEF KeyAt, PairAt
<1>2. sa.heap[at.n].pairs \in Seq(AllPairs)
  BY PairsType DEF Sound, Formed
<1>3. old \in AllPairs
  BY <1>1, <1>2
<1>4. new \in AllPairs
  <2>1. CASE replace_key
    BY <2>1, PairKeys
  <2>2. CASE ~replace_key
    BY <1>3, <2>2, NewValue
  <2> QED BY <2>1, <2>2
<1>5. b = Rebound(sa, at.n, at.index + 1, new)
  BY DEF set_found, PairAt, Rebound
<1> QED BY <1>1, <1>4, <1>5

\* skiparray_set_with_options.
LEMMA SetLow ==
  ASSUME NEW r, Sound(sa, r), LowBut(sa, r, NULL), NEW pair \in Pair,
         NEW replace_key \in BOOLEAN, Set(pair, replace_key)
  PROVE  \E s : Sound(sa', s) /\ LowBut(sa', s, NULL)
<1> DEFINE at == search(sa, pair.key)
<1>1. pair \in AllPairs /\ pair.key \in Nat
  BY PairKeys
<1>2. Answer(sa, r, pair.key, at.n, at.index, at.found)
  BY <1>1, SearchFinds
<1>3. \/ sa' = sa
      \/ at.found /\ sa' = set_found(at, pair, replace_key)
      \/ /\ ~at.found /\ ~(Count(sa, at.n) = NodeSize)
         /\ sa' = insert_pair(sa, at.n, at.index, pair)
      \/ /\ ~at.found /\ Count(sa, at.n) = NodeSize
         /\ \E lvl \in Levels :
              sa' = split_and_insert(sa, at.n, at.index, node_height(lvl), pair)
  BY DEF Set, Refuse, Look, Reshape
<1> HIDE DEF at
<1>4. at.n \in DOMAIN sa.heap /\ sa \in SkipArrays
  BY <1>2 DEF Answer, Sound, Formed
<1>5. at.found => KeyAt(sa, pair.key, at.n, at.index)
  BY <1>2 DEF Answer
<1>6. ~at.found => /\ GapAt(sa, r, pair.key, at.n, at.index)
                   /\ at.index \in 0 .. Count(sa, at.n)
  BY <1>2 DEF Answer, GapAt, Splits, Count
<1>7. CASE sa' = sa
  BY <1>7
<1>8. CASE at.found /\ sa' = set_found(at, pair, replace_key)
  <2> DEFINE old == PairAt(at.n, at.index)
             new == IF replace_key THEN pair ELSE [old EXCEPT !.val = pair.val]
  <2>1. Sound(sa', r)
    BY <1>4, <1>5, <1>8, set_foundSound
  <2>2. /\ at.index + 1 \in DOMAIN sa.heap[at.n].pairs
        /\ sa' = Rebound(sa, at.n, at.index + 1, new)
        /\ new \in AllPairs
    BY <1>4, <1>5, <1>8, set_foundIs
  <2> HIDE DEF new, old
  <2>3. /\ DOMAIN sa'.heap = DOMAIN sa.heap /\ Count(sa', at.n) = Count(sa, at.n)
        /\ \A m \in DOMAIN sa.heap : m # at.n => sa'.heap[m].pairs = sa.heap[m].pairs
    <3> DEFINE n == at.n
               i == at.index + 1
    <3>1. sa \in SkipArrays /\ n \in DOMAIN sa.heap /\ i \in DOMAIN sa.heap[n].pairs
          /\ new \in AllPairs /\ sa' = Rebound(sa, n, i, new)
      BY <1>4, <2>2
    <3> HIDE DEF n, i
    <3>2. RowChanged(sa, sa', n, [sa.heap[n].pairs EXCEPT ![i] = new])
          /\ Count(sa', n) = Count(sa, n)
      BY ONLY <3>1, PairExchanged
    <3> QED BY <3>2 DEF n, RowChanged
  <2>4. \A m \in DOMAIN sa.heap : Count(sa', m) = Count(sa, m)
    BY <2>3 DEF Count
  <2>5. LowBut(sa', r, NULL)
    BY <2>3, <2>4 DEF LowBut
  <2> QED BY <2>1, <2>5
<1>9. CASE /\ ~at.found /\ ~(Count(sa, at.n) = NodeSize)
           /\ sa' = insert_pair(sa, at.n, at.index, pair)
  <2>1. Count(sa, at.n) < NodeSize
    <3>1. Count(sa, at.n) <= NodeSize
      BY <1>4 DEF Sound, Ordered
    <3>2. Count(sa, at.n) \in Nat
      BY <1>4, PairsType DEF Sound, Formed
    <3> QED BY <1>9, <3>1, <3>2, SkipListAssumption
  <2>2. Sound(sa', r)
    BY <1>1, <1>4, <1>6, <1>9, <2>1, InsertedSound
  <2>3. LowBut(sa', r, NULL)
    BY <1>1, <1>4, <1>6, <1>9, InsertedLow
  <2> QED BY <2>2, <2>3
<1>10. CASE /\ ~at.found /\ Count(sa, at.n) = NodeSize
           /\ \E lvl \in Levels :
                sa' = split_and_insert(sa, at.n, at.index, node_height(lvl), pair)
  <2>1. PICK lvl \in Levels :
          sa' = split_and_insert(sa, at.n, at.index, node_height(lvl), pair)
    BY <1>10
  <2>2. node_height(lvl) \in 1 .. MaxLevel
    BY HeightsDrawn
  <2>3. PICK s : Sound(sa', s) /\ SplitUp(sa, r, at.n, at.index, pair, sa', s)
    BY <1>1, <1>4, <1>6, <1>10, <2>1, <2>2, split_and_insertSound
  <2>4. LowBut(sa', s, NULL)
    BY <1>1, <1>4, <1>6, <1>10, <2>3, SplitLow
  <2> QED BY <2>3, <2>4
<1> QED BY <1>3, <1>7, <1>8, <1>9, <1>10

\* A removal, balanced by a merge or a refill.
LEMMA TakenLow ==
  ASSUME NEW a, NEW r, Sound(a, r), LowBut(a, r, NULL), NEW n \in DOMAIN a.heap,
         NEW index \in 0 .. Count(a, n) - 1,
         NEW c, Rebalanced(remove_pair(a, n, index), r, n, c)
  PROVE  LowBut(c, r, NULL)
<1> DEFINE b == remove_pair(a, n, index)
<1>1. b = remove_pair(a, n, index) /\ Rebalanced(b, r, n, c)
  OBVIOUS
<1> HIDE DEF b
<1>2. Formed(b, r) /\ DOMAIN b.heap = DOMAIN a.heap
  BY <1>1, RemovedOrdered
<1>3. LowBut(b, r, n)
  BY <1>1, RemovedLow
<1> QED BY <1>1, <1>2, <1>3, RebalancedLow

\* skiparray_forget and the pops.
LEMMA RemovalsLow ==
  ASSUME NEW r, Sound(sa, r), LowBut(sa, r, NULL),
         (\E key \in Keys : Forget(key)) \/ PopFirst \/ PopLast
  PROVE  \E s : Sound(sa', s) /\ LowBut(sa', s, NULL)
<1>1. \A n \in DOMAIN sa.heap : Count(sa, n) \in Nat
  BY PairsType DEF Sound, Formed
<1>2. ASSUME NEW key \in Keys, Forget(key)
      PROVE  \E s : Sound(sa', s) /\ LowBut(sa', s, NULL)
  <2> DEFINE at == search(sa, key)
  <2>1. Answer(sa, r, key, at.n, at.index, at.found)
    BY PairKeys, SearchFinds
  <2>2. sa' = sa \/ (at.found /\ sa' = remove_at(sa, at.n, at.index))
    BY <1>2 DEF Forget, Refuse, Look, Reshape
  <2> HIDE DEF at
  <2>3. CASE sa' = sa
    BY <2>3
  <2>4. CASE at.found /\ sa' = remove_at(sa, at.n, at.index)
    <3>1. at.n \in DOMAIN sa.heap /\ at.index \in Nat /\ KeyAt(sa, key, at.n, at.index)
      BY <2>1, <2>4 DEF Answer
    <3>2. at.index + 1 \in 1 .. Count(sa, at.n) /\ Count(sa, at.n) \in Nat
      BY <3>1, PairsType DEF KeyAt, Sound, Formed
    <3>3. at.index \in 0 .. Count(sa, at.n) - 1
      BY <3>1, <3>2
    <3>4. Sound(sa', r) /\ Rebalanced(remove_pair(sa, at.n, at.index), r, at.n, sa')
      BY <2>4, <3>1, <3>3, remove_atSound
    <3> QED BY <3>1, <3>3, <3>4, TakenLow
  <2> QED BY <2>2, <2>3, <2>4
<1>3. CASE PopFirst
  <2> DEFINE n == sa.nodes[0]
  <2>1. sa' = sa \/ (Count(sa, n) > 0 /\ sa' = remove_first(sa))
    BY <1>3 DEF PopFirst, Refuse, Look, Reshape
  <2>2. n \in DOMAIN sa.heap
    BY HeadIsThere DEF Sound
  <2>3. CASE Count(sa, n) > 0 /\ sa' = remove_first(sa)
    <3>1. Sound(sa', r) /\ Rebalanced(remove_pair(sa, n, 0), r, n, sa')
      BY <2>2, <2>3, remove_firstSound
    <3>2. 0 \in 0 .. Count(sa, n) - 1
      BY <1>1, <2>2, <2>3
    <3> QED BY <2>2, <3>1, <3>2, TakenLow
  <2> QED BY <2>1, <2>3
<1>4. CASE PopLast
  <2> DEFINE x == last_node(sa)
             b == remove_pair(sa, x, Count(sa, x) - 1)
  <2>1. sa' = sa \/ (Count(sa, sa.nodes[0]) > 0 /\ sa' = remove_last(sa))
    BY <1>4 DEF PopLast, Refuse, Look, Reshape
  <2>2. sa.nodes[0] \in DOMAIN sa.heap
    BY HeadIsThere DEF Sound
  <2>3. x = last_node(sa) /\ b = remove_pair(sa, x, Count(sa, x) - 1)
    OBVIOUS
  <2> HIDE DEF x, b
  <2>4. x \in DOMAIN sa.heap /\ \A m \in DOMAIN sa.heap : r[m] <= r[x]
    BY <2>3, last_nodeIsLast DEF Sound
  <2>5. CASE Count(sa, sa.nodes[0]) > 0 /\ sa' = remove_last(sa)
    <3>1. Count(sa, x) # 0
      BY <2>2, <2>4, <2>5 DEF Sound, Filled
    <3>2. Count(sa, x) > 0 /\ Count(sa, x) - 1 \in 0 .. Count(sa, x) - 1
      BY <1>1, <2>4, <3>1
    <3>3. Sound(sa', r) /\ Trimmed(b, x, sa')
      BY <2>3, <2>5, <3>2, remove_lastSound
    <3>4. Formed(b, r) /\ DOMAIN b.heap = DOMAIN sa.heap
      BY <2>3, <2>4, <3>2, RemovedOrdered
    <3>5. LowBut(b, r, x)
      BY <2>3, <2>4, <3>2, RemovedLow
    <3>6. LowBut(sa', r, NULL)
      BY <2>4, <3>3, <3>4, <3>5, TrimmedLow
    <3> QED BY <3>3, <3>6
  <2> QED BY <2>1, <2>5
<1> QED BY <1>2, <1>3, <1>4

\* No call leaves a node low but the last.
LEMMA NextLow ==
  ASSUME IsSound(sa), LowIsLast(sa), Next
  PROVE  IsSound(sa') /\ LowIsLast(sa')
<1>1. PICK r : Sound(sa, r)
  BY DEF IsSound
<1>2. LowBut(sa, r, NULL)
  BY <1>1, LowByRank DEF Sound
<1>3. \E s : Sound(sa', s) /\ LowBut(sa', s, NULL)
  <2>1. ASSUME NEW pair \in Pair, NEW replace_key \in BOOLEAN, Set(pair, replace_key)
        PROVE  \E s : Sound(sa', s) /\ LowBut(sa', s, NULL)
    BY <1>1, <1>2, <2>1, SetLow
  <2>2. CASE (\E key \in Keys : Forget(key)) \/ PopFirst \/ PopLast
    BY <1>1, <1>2, <2>2, RemovalsLow
  <2>3. CASE (\E key \in Keys : Get(key)) \/ CountPairs \/ FirstPair \/ LastPair
    <3>1. sa' = sa
      BY <2>3 DEF Get, CountPairs, FirstPair, LastPair, Look
    <3> QED BY <1>1, <1>2, <3>1
  <2> QED BY <2>1, <2>2, <2>3 DEF Next
<1> QED BY <1>3, LowByRank DEF IsSound, Sound

\* Nor does an append.
LEMMA AppendLow ==
  ASSUME NEW b, NEW r, BuilderOK(b, r), LowIsLast(b.sa),
         NEW c, NEW s, BuilderOK(c, s), OthersStay(b, c)
  PROVE  LowIsLast(c.sa)
<1>1. /\ Formed(b.sa, r) /\ Formed(c.sa, s)
      /\ LastIs(b.sa, r, b.last) /\ LastIs(c.sa, s, c.last)
  BY DEF BuilderOK, AtEnd
<1>2. /\ \A m \in DOMAIN b.sa.heap : r[m] \in Nat /\ m # NULL
      /\ \A m, q \in DOMAIN b.sa.heap : r[m] = r[q] => m = q
      /\ \A m \in DOMAIN c.sa.heap : s[m] \in Nat
  BY <1>1, FormedFacts
<1>3. LowBut(b.sa, r, NULL)
  BY <1>1, LowByRank
<1>4. ASSUME NEW m \in DOMAIN c.sa.heap, NEW q \in DOMAIN c.sa.heap, s[m] < s[q]
      PROVE  Count(c.sa, m) >= Required
  <2>1. m # c.last
    BY <1>1, <1>2, <1>4 DEF LastIs
  <2>2. m \in DOMAIN b.sa.heap /\ Count(c.sa, m) = Count(b.sa, m)
        /\ (m = b.last => Count(c.sa, m) = NodeSize)
    BY <2>1 DEF OthersStay
  <2>3. CASE m = b.last
    BY <2>2, <2>3, Halves
  <2>4. CASE m # b.last
    <3>1. b.last \in DOMAIN b.sa.heap /\ r[m] < r[b.last]
      BY <1>1, <1>2, <2>2, <2>4 DEF LastIs
    <3> QED BY <1>2, <1>3, <2>2, <3>1 DEF LowBut
  <2> QED BY <2>3, <2>4
<1>5. LowBut(c.sa, s, NULL)
  BY <1>4 DEF LowBut
<1> QED BY <1>1, <1>5, LowByRank

\* One node is the last.
LEMMA OneIsNotLow ==
  ASSUME NEW a, NEW r, Sound(a, r), DOMAIN a.heap = {1}
  PROVE  LowIsLast(a)
<1>1. LowBut(a, r, NULL)
  BY FormedFacts DEF Sound, LowBut
<1> QED BY <1>1, LowByRank DEF Sound

\* What these say of the chain of nodes.
LEMMA LowIsHalfFull ==
  ASSUME IsSound(sa), LowIsLast(sa)
  PROVE  Level0!HalfFull
<1> DEFINE c == Chain(sa, 0)
           s == Rows(sa)
<1>1. PICK r : Sound(sa, r)
  BY DEF IsSound
<1>2. RowsOf(sa, r, c, s)
  BY <1>1, RowOfNodes DEF Sound
<1>3. s = [i \in DOMAIN LevelZero |-> sa.heap[LevelZero[i]].pairs]
  BY DEF Rows, LevelZero
<1>4. LowBut(sa, r, NULL)
  BY <1>1, LowByRank DEF Sound
<1> HIDE DEF c, s
<1>5. \A i \in 1 .. Len(c) : /\ c[i] \in DOMAIN sa.heap /\ Len(s[i]) = Count(sa, c[i])
                             /\ c[i] # NULL /\ Count(sa, c[i]) \in Nat /\ r[c[i]] \in Nat
  BY <1>1, <1>2, FormedFacts, PairsType DEF RowsOf, Count, Sound
<1>6. ASSUME NEW i \in 1 .. Len(s)
      PROVE  /\ i < Len(s) => Len(s[i]) >= NodeSize \div 2
             /\ Len(s) > 1 => Len(s[i]) > 0
  <2>1. Len(s) = Len(c) /\ Len(c) \in Nat
    BY <1>2 DEF RowsOf
  <2>2. ASSUME i < Len(s)
        PROVE  Len(s[i]) >= NodeSize \div 2
    <3>1. i + 1 \in 1 .. Len(c) /\ i \in 1 .. Len(c) /\ i < i + 1
      BY <2>1, <2>2
    <3>2. r[c[i]] < r[c[i + 1]]
      BY <1>2, <3>1 DEF RowsOf
    <3> QED BY <1>4, <1>5, <3>1, <3>2 DEF LowBut, Required
  <2>3. ASSUME Len(s) > 1
        PROVE  Len(s[i]) > 0
    <3>1. PICK j \in 1 .. Len(c) : j # i
      <4>1. 1 \in 1 .. Len(c) /\ 2 \in 1 .. Len(c)
        BY <2>1, <2>3
      <4> QED BY <4>1
    <3>2. i \in 1 .. Len(c) /\ (i < j \/ j < i)
      BY <2>1, <3>1
    <3>3. r[c[i]] # r[c[j]]
      <4>1. r[c[i]] \in Nat /\ r[c[j]] \in Nat
        BY <1>5, <3>2
      <4>2. \A m, q \in 1 .. Len(c) : m < q => r[c[m]] < r[c[q]]
        BY <1>2 DEF RowsOf
      <4>3. r[c[i]] < r[c[j]] \/ r[c[j]] < r[c[i]]
        BY <3>2, <4>2
      <4> QED BY <4>1, <4>3
    <3>4. c[i] # c[j] /\ c[i] \in DOMAIN sa.heap /\ c[j] \in DOMAIN sa.heap
      BY <1>5, <3>2, <3>3
    <3>5. Count(sa, c[i]) # 0
      BY <1>1, <3>4 DEF Sound, Filled
    <3> QED BY <1>5, <3>2, <3>5
  <2> QED BY <2>2, <2>3
<1>7. /\ Len(s) \in Nat
      /\ \A i \in 1 .. Len(s) : /\ i < Len(s) => Len(s[i]) >= NodeSize \div 2
                                /\ Len(s) > 1 => Len(s[i]) > 0
  BY <1>2, <1>6 DEF RowsOf
<1> QED BY <1>3, <1>7 DEF Level0!HalfFull, Level0!Count, Level0!Required

\* However a builder has packed the nodes, and whatever calls follow, splits
\* leave both halves at least half full, and merges and refills see to it that
\* no node but the last stays low, as no node but a lone one stays empty.
THEOREM BuiltStaysHalfFull == BuiltSpec => []BuiltHalfFull
<1>1. BuilderNew => LowIsLast(sa)
  <2> SUFFICES ASSUME BuilderNew
               PROVE  LowIsLast(sa)
    OBVIOUS
  <2>1. PICK lvl \in Levels, check \in BOOLEAN : builder = {builder_new(lvl, check)}
    BY DEF BuilderNew
  <2>2. sa = skiparray_new(lvl)
    BY <2>1 DEF BuilderNew, builder_new
  <2> QED BY <2>2, skiparray_newSound, OneIsNotLow
<1>2. BuiltInv /\ LowIsLast(sa) /\ [BuiltNext]_BuiltVars => LowIsLast(sa)'
  <2> SUFFICES ASSUME BuiltInv, LowIsLast(sa), [BuiltNext]_BuiltVars
               PROVE  LowIsLast(sa')
    OBVIOUS
  <2>1. CASE sa' = sa
    BY <2>1
  <2>2. ASSUME NEW b \in builder, NEW pair \in Pair, BuilderAppend(b, pair)
        PROVE  LowIsLast(sa')
    <3>1. CASE ~(sa' = sa)
      <4>1. /\ ClientMayAppend(b, pair.key) /\ ~rejects(b, pair.key)
            /\ \E lvl \in IF last_is_full(b) THEN Levels ELSE {0} :
                 builder' = {append(b, pair, lvl)}
            /\ \A grown \in builder' : sa' = grown.sa
        BY <2>2, <3>1 DEF BuilderAppend, BuilderRefuse, Refuse, Look
      <4>2. PICK lvl \in Levels : builder' = {append(b, pair, lvl)}
        <5>1. 0 \in Levels
          BY MaxLevelIs DEF Levels
        <5> QED BY <4>1, <5>1
      <4> DEFINE c == append(b, pair, lvl)
      <4>3. sa' = c.sa /\ sa = b.sa
        BY <4>1, <4>2 DEF BuiltInv
      <4>4. PICK r : BuilderOK(b, r)
        BY DEF BuiltInv
      <4>5. PICK s : BuilderOK(c, s) /\ OthersStay(b, c)
        BY <4>1, <4>4, appendOK
      <4> HIDE DEF c
      <4> QED BY <4>3, <4>4, <4>5, AppendLow
    <3> QED BY <2>1, <3>1
  <2>3. CASE BuilderFinish
    BY <2>1, <2>3 DEF BuilderFinish
  <2>4. CASE Use
    BY <2>4, NextLow DEF Use, BuiltInv
  <2>5. CASE UNCHANGED BuiltVars
    BY <2>1, <2>5 DEF BuiltVars
  <2> QED BY <2>2, <2>3, <2>4, <2>5 DEF BuiltNext
<1>3. BuiltInv /\ LowIsLast(sa) => BuiltHalfFull
  BY LowIsHalfFull DEF BuiltInv, BuiltHalfFull
<1> QED BY <1>1, <1>2, <1>3, BuiltStaysSound, PTL DEF BuiltSpec

=============================================================================
