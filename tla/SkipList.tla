------------------------------ MODULE SkipList ------------------------------
(***************************************************************************)
(* The data structure of src/skiparray.c and the functions that read and   *)
(* reshape it, as operators on a value                                     *)
(*                                                                         *)
(*     sa = [height, nodes, heap]                                          *)
(*                                                                         *)
(* `nodes[l]` is the first node of the chain of level l, `heap` maps the   *)
(* address of every allocated node to its fields                           *)
(*                                                                         *)
(*     [height, pairs, back, fwd]                                          *)
(*                                                                         *)
(* `pairs` is the live slice keys/values[offset .. offset+count-1] as a    *)
(* sequence of bindings [key, inst, val]; where that slice lies in the     *)
(* arrays is the subject of NodeBuffers. `inst` tells apart keys that cmp  *)
(* calls equal.  A node that has been freed is no longer in DOMAIN heap.   *)
(***************************************************************************)
EXTENDS Integers, Sequences, FiniteSets, SequencesExt

CONSTANTS NodeSize,     \* sa->node_size
          MaxLevel      \* sa->max_level

\* skiparray_new refuses node_size = 1, and replaces 0 by a default, as it
\* does for max_level.
ASSUME SkipListAssumption ==
  /\ NodeSize \in Nat /\ NodeSize >= 2
  /\ MaxLevel \in Nat /\ MaxLevel >= 1

NULL == 0

\* An operator whose name ends in _<word> is the one before the underscore with
\* a slip in it.  Nothing uses it; README.md says what each one is for.

Required_Above == NodeSize \div 2 + 1

\* What a node that gives pairs away keeps, and no node but the last goes below.
Required == NodeSize \div 2

-----------------------------------------------------------------------------
(* Fields and links. *)

Count(sa, n) == Len(sa.heap[n].pairs)

FirstKey(sa, n) == sa.heap[n].pairs[1].key

LastKey(sa, n) == sa.heap[n].pairs[Count(sa, n)].key

\* The nodes that are on a level.
OnLevel(sa, level) == {n \in DOMAIN sa.heap : level < sa.heap[n].height}

\* prev ? prev->fwd[level] : sa->nodes[level]
After(sa, prev, level) ==
  IF prev = NULL THEN sa.nodes[level] ELSE sa.heap[prev].fwd[level]

SetAfter(sa, prev, level, n) ==
  IF prev = NULL THEN [sa EXCEPT !.nodes[level] = n]
                 ELSE [sa EXCEPT !.heap[prev].fwd[level] = n]

SetBack_Skip(sa, n, prev) == sa

\* if (n != NULL) n->back = prev
SetBack(sa, n, prev) ==
  IF n = NULL THEN sa ELSE [sa EXCEPT !.heap[n].back = prev]

\* The last node reached from prev on a level while the next one is in passed.
Advance(sa, prev, level, passed) ==
  LET from[p \in {NULL} \cup OnLevel(sa, level)] ==
        LET next == After(sa, p, level)
        IN  IF next \in passed THEN from[next] ELSE p
  IN  from[prev]

\* An address malloc may return; which one is immaterial.
FreshNode(sa) ==
  CHOOSE n \in 1 .. Cardinality(DOMAIN sa.heap) + 1 : n \notin DOMAIN sa.heap

\* node is allocated at the address n.
node_alloc(sa, n, node) ==
  [sa EXCEPT !.heap =
     [m \in {n} \cup DOMAIN sa.heap |-> IF m = n THEN node ELSE sa.heap[m]]]

node_free(sa, n) ==
  [sa EXCEPT !.heap = Restrict(@, DOMAIN @ \ {n})]

\* level() + 1, capped; the node is allocated with one more.
node_height(lvl) ==
  1 + (IF lvl + 1 >= MaxLevel THEN MaxLevel - 1 ELSE lvl + 1)

\* while (height > 1 && nodes[height - 1] == NULL) height--
lower_height(sa) ==
  [sa EXCEPT !.height =
     Max({h \in 1 .. sa.height : h = 1 \/ sa.nodes[h - 1] # NULL})]

\* skiparray_new: one empty node, alone on every level it is tall enough for.
skiparray_new(lvl) ==
  LET h == IF lvl + 1 >= MaxLevel THEN MaxLevel ELSE lvl + 1
  IN  [height |-> h,
       nodes  |-> [l \in 0 .. MaxLevel - 1 |-> IF l < h THEN 1 ELSE NULL],
       heap   |-> [n \in {1} |->
                     [height |-> h, pairs |-> << >>, back |-> NULL,
                      fwd |-> [l \in 0 .. h - 1 |-> NULL]]]]

-----------------------------------------------------------------------------
(* Searching. *)

skiparray_bsearch_Before(pairs, key) ==
  LET between[part \in (0 .. Len(pairs)) \X (0 .. Len(pairs))] ==
        LET low  == part[1]
            high == part[2]
            cur  == (low + high) \div 2
        IN  IF low >= high THEN [found |-> FALSE, index |-> Max({0, low - 1})]
            ELSE IF key < pairs[cur + 1].key THEN between[<<low, cur>>]
            ELSE IF key > pairs[cur + 1].key THEN between[<<cur + 1, high>>]
            ELSE [found |-> TRUE, index |-> cur]
  IN  between[<<0, Len(pairs)>>]

\* Binary search: the index at which the key is, or would be inserted.
skiparray_bsearch(pairs, key) ==
  LET between[part \in (0 .. Len(pairs)) \X (0 .. Len(pairs))] ==
        LET low  == part[1]
            high == part[2]
            cur  == (low + high) \div 2
        IN  IF low >= high THEN [found |-> FALSE, index |-> low]
            ELSE IF key < pairs[cur + 1].key THEN between[<<low, cur>>]
            ELSE IF key > pairs[cur + 1].key THEN between[<<cur + 1, high>>]
            ELSE [found |-> TRUE, index |-> cur]
  IN  between[<<0, Len(pairs)>>]

\* The locals of search, and done once its loop has been left; before that cur
\* has pairs and is what follows prev on the level.
SearchState(sa) ==
  {s \in [level : 0 .. sa.height - 1, prev : {NULL} \cup DOMAIN sa.heap,
          cur : DOMAIN sa.heap, index : Nat,
          found : BOOLEAN, done : BOOLEAN] :
     \/ s.done
     \/ /\ Count(sa, s.cur) > 0
        /\ s.prev \in {NULL} \cup OnLevel(sa, s.level)
        /\ s.cur = After(sa, s.prev, s.level)}

search_descend(sa, s) ==
  [s EXCEPT !.level = @ - 1, !.cur = After(sa, s.prev, s.level - 1)]

prefer_back_Always(sa, cur) == sa.heap[cur].back # NULL

\* Is the node before cur less full?
prefer_back(sa, cur) ==
  LET back == sa.heap[cur].back
  IN  back # NULL /\ Count(sa, back) < Count(sa, cur)

\* The key is before the last key of cur: in cur, or nowhere.  A key that
\* would open cur goes to the end of a less full previous node instead.
search_below(sa, key, s) ==
  IF s.level > 0 THEN search_descend(sa, s)
  ELSE LET at   == skiparray_bsearch(sa.heap[s.cur].pairs, key)
           back == sa.heap[s.cur].back
       IN  IF ~at.found /\ at.index = 0 /\ prefer_back(sa, s.cur)
           THEN [s EXCEPT !.cur = back, !.index = Count(sa, back), !.done = TRUE]
           ELSE [s EXCEPT !.index = at.index, !.found = at.found, !.done = TRUE]

\* The key is after the last key of cur: advance, or drop to the next level on
\* which prev is not followed by cur again.
search_above(sa, key, s) ==
  LET next  == sa.heap[s.cur].fwd[s.level]
      lower == {l \in 0 .. s.level - 1 :
                  l = 0 \/ sa.heap[s.prev].fwd[l] \notin {NULL, s.cur}}
  IN  IF next # NULL THEN [s EXCEPT !.prev = s.cur, !.cur = next]
      ELSE IF s.level = 0
           THEN [s EXCEPT !.index = Count(sa, s.cur), !.done = TRUE]
      ELSE IF s.prev = NULL THEN search_descend(sa, s)
      ELSE [s EXCEPT !.level = Max(lower),
                     !.cur = sa.heap[s.prev].fwd[Max(lower)]]

search_equal(sa, key, s) ==
  LET hit == [s EXCEPT !.found = TRUE, !.index = Count(sa, s.cur) - 1]
  IN  IF s.level = 0 THEN [hit EXCEPT !.done = TRUE]
                     ELSE search_descend(sa, hit)

search_step(sa, key, s) ==
  IF key < LastKey(sa, s.cur) THEN search_below(sa, key, s)
  ELSE IF key > LastKey(sa, s.cur) THEN search_above(sa, key, s)
  ELSE search_equal(sa, key, s)

\* The node and index at which the key is, or at which it would be inserted.
search(sa, key) ==
  LET top   == sa.nodes[sa.height - 1]
      start == [level |-> sa.height - 1, prev |-> NULL, cur |-> top,
                index |-> 0, found |-> FALSE, done |-> Count(sa, top) = 0]
      loop[s \in SearchState(sa)] ==
        IF s.done THEN s ELSE loop[search_step(sa, key, s)]
      end == loop[start]
  IN  [n |-> end.cur, index |-> end.index, found |-> end.found]

\* The rightmost node, from the top level down.
last_node(sa) ==
  LET at[l \in 0 .. sa.height - 1] ==
        Advance(sa, IF l = sa.height - 1 THEN sa.nodes[l] ELSE at[l + 1],
                l, DOMAIN sa.heap)
  IN  at[0]

-----------------------------------------------------------------------------
(* Inserting. *)

insert_pair(sa, n, index, pair) ==
  [sa EXCEPT !.heap[n].pairs = InsertAt(@, index + 1, pair)]

\* The upper half of the pairs moves to a new node behind n.
split_node(sa, n, new, height) ==
  LET pairs == sa.heap[n].pairs
      keep  == Len(pairs) - Len(pairs) \div 2
      fresh == [height |-> height,
                pairs  |-> SubSeq(pairs, keep + 1, Len(pairs)),
                back   |-> n,
                fwd    |-> [l \in 0 .. height - 1 |-> NULL]]
  IN  node_alloc([sa EXCEPT !.heap[n].pairs = SubSeq(pairs, 1, keep)], new, fresh)

\* One turn of the loop that links a taller new node: w = [sa, prev], where
\* prev is the predecessor found on the level above, or NULL.
link_level(w, new, level) ==
  LET prev == Advance(w.sa, w.prev, level,
                {n \in DOMAIN w.sa.heap : LastKey(w.sa, n) < FirstKey(w.sa, new)})
      next == After(w.sa, prev, level)
  IN  IF level > w.sa.height \/ (w.prev = NULL /\ w.sa.nodes[level] = NULL)
      THEN w
      ELSE [sa   |-> SetAfter(SetAfter(w.sa, new, level, next), prev, level, new),
            prev |-> prev]

\* The levels of the new node above those of n, from the top down.
link_above(sa, n, new) ==
  LET top == sa.heap[new].height
      low == sa.heap[n].height
      w[l \in low .. top] == IF l = top THEN [sa |-> sa, prev |-> NULL]
                             ELSE link_level(w[l + 1], new, l)
  IN  IF low >= top THEN sa ELSE w[low].sa

raise_height_Once(sa, new) ==
  IF sa.heap[new].height <= sa.height THEN sa
  ELSE [sa EXCEPT !.height = @ + 1, !.nodes[sa.height] = new]

\* while (new->height > sa->height) nodes[height++] = new
raise_height(sa, new) ==
  LET top == Max({sa.height, sa.heap[new].height})
  IN  [sa EXCEPT !.height = top,
                 !.nodes = [l \in DOMAIN @ |->
                   IF l \in sa.height .. top - 1 THEN new ELSE @[l]]]

link_common_level(sa, n, new, level) ==
  SetAfter(SetAfter(sa, new, level, After(sa, n, level)), n, level, new)

\* for (i < common_height) { new->fwd[i] = n->fwd[i]; n->fwd[i] = new }
link_common(sa, n, new) ==
  LET common == Min({sa.heap[n].height, sa.heap[new].height})
      w[turns \in 0 .. common] ==
        IF turns = 0 THEN sa
        ELSE link_common_level(w[turns - 1], n, new, turns - 1)
  IN  w[common]

link_new(sa, n, new) ==
  LET backed == SetBack(sa, sa.heap[n].fwd[0], new)
      raised == raise_height(link_above(backed, n, new), new)
  IN  link_common(raised, n, new)

\* The full node n is split; the pair goes to the half its index falls in.
split_and_insert(sa, n, index, height, pair) ==
  LET new   == FreshNode(sa)
      split == link_new(split_node(sa, n, new, height), n, new)
      kept  == Count(split, n)
  IN  IF index > kept THEN insert_pair(split, new, index - kept, pair)
                      ELSE insert_pair(split, n, index, pair)

-----------------------------------------------------------------------------
(* Removing. *)

remove_pair(sa, n, index) ==
  [sa EXCEPT !.heap[n].pairs = RemoveAt(@, index + 1)]

\* The first k pairs of next are appended to those of n.
move_pairs(sa, n, next, k) ==
  [sa EXCEPT
     !.heap[n].pairs = @ \o SubSeq(sa.heap[next].pairs, 1, k),
     !.heap[next].pairs = SubSeq(@, k + 1, Len(@))]

\* One turn of the loop of unlink_node: w = [sa, prev] as in link_level.
unlink_level(w, n, nearest, level) ==
  LET prev == Advance(w.sa, w.prev, level,
                {m \in DOMAIN w.sa.heap \ {n} : LastKey(w.sa, m) <= nearest})
      next == w.sa.heap[n].fwd[level]
      cut  == SetAfter(w.sa, prev, level, next)
  IN  IF prev = NULL \/ After(w.sa, prev, level) # n
      THEN [w EXCEPT !.prev = prev]
      ELSE [sa   |-> IF level = 0 THEN SetBack(cut, next, prev) ELSE cut,
            prev |-> prev]

\* n leaves the head pointers, then the chains below the new height.  Only a
\* node with a back is ever unlinked, so nearest is the last key of that.
unlink_node(sa, n) ==
  LET nearest == LastKey(sa, sa.heap[n].back)
      heads   == [sa EXCEPT !.nodes = [l \in DOMAIN @ |->
                    IF @[l] = n THEN sa.heap[n].fwd[l] ELSE @[l]]]
      lowered == lower_height(heads)
      w[l \in 0 .. lowered.height] ==
        IF l = lowered.height THEN [sa |-> lowered, prev |-> NULL]
        ELSE unlink_level(w[l + 1], n, nearest, l)
  IN  node_free(w[0].sa, n)

\* All pairs of next go to the node before it, which next then leaves behind.
merge_next(sa, n, next) ==
  unlink_node([sa EXCEPT !.heap[n].pairs = @ \o sa.heap[next].pairs], next)

fits_OneOver(sa, a, b) == Count(sa, a) + Count(sa, b) <= NodeSize + 1

\* Do the pairs of both nodes fit in one?
fits(sa, a, b) == Count(sa, a) + Count(sa, b) <= NodeSize

shift_or_merge(sa, n) ==
  LET next == sa.heap[n].fwd[0]
      prev == sa.heap[n].back
  IN  IF n = sa.nodes[0] /\ next = NULL THEN sa
      ELSE IF next = NULL
           THEN IF fits(sa, prev, n)
                THEN merge_next(sa, prev, n) ELSE sa
      ELSE IF fits(sa, next, n) THEN merge_next(sa, n, next)
      ELSE move_pairs(sa, n, next, Count(sa, next) - Required)

\* The second node is absorbed by the first, whose forward pointers (or, on
\* the levels the first is not on, the head pointers) skip it.
absorb_second(sa, head, next) ==
  LET h == sa.heap[head]
      x == sa.heap[next]
      skipped == [sa EXCEPT
        !.heap[head].pairs = @ \o x.pairs,
        !.heap[head].fwd = [l \in DOMAIN @ |->
           IF l < x.height THEN x.fwd[l] ELSE @[l]],
        !.nodes = [l \in DOMAIN @ |->
           IF l \in h.height .. x.height - 1 THEN x.fwd[l] ELSE @[l]]]
  IN  lower_height(node_free(SetBack(skipped, x.fwd[0], head), next))

refill_head(sa) ==
  LET head == sa.nodes[0]
      next == sa.heap[head].fwd[0]
  IN  IF Count(sa, head) >= Required \/ next = NULL THEN sa
      ELSE IF fits(sa, head, next) THEN absorb_second(sa, head, next)
      ELSE move_pairs(sa, head, next, Count(sa, next) - Required)

remove_at(sa, n, index) ==
  LET removed == remove_pair(sa, n, index)
  IN  IF Count(removed, n) < Required THEN shift_or_merge(removed, n) ELSE removed

remove_first(sa) == refill_head(remove_pair(sa, sa.nodes[0], 0))

remove_last_Kept(sa) == remove_pair(sa, last_node(sa), Count(sa, last_node(sa)) - 1)

\* No rebalancing at this end: the last node may run low, and is unlinked
\* when it is empty and not the only one.
remove_last(sa) ==
  LET last    == last_node(sa)
      removed == remove_pair(sa, last, Count(sa, last) - 1)
  IN  IF Count(removed, last) > 0 \/ last = sa.nodes[0] THEN removed
      ELSE unlink_node(removed, last)

-----------------------------------------------------------------------------
(* What the structure stands for. *)

\* The nodes met from nodes[l] along fwd[l].  A chain that runs in a cycle,
\* onto a freed node or onto a node too short for the level is cut where it
\* can no longer equal the chain of a well-formed structure.
Chain(sa, level) ==
  LET from[left \in Nat] == [n \in Nat |->
        IF n = NULL \/ left = 0 THEN << >>
        ELSE <<n>> \o (IF n \in DOMAIN sa.heap /\ level < sa.heap[n].height
                       THEN from[left - 1][sa.heap[n].fwd[level]] ELSE << >>)]
  IN  from[Cardinality(DOMAIN sa.heap) + 1][sa.nodes[level]]

\* All bindings, in the order of the nodes of level 0.
Bindings(sa) ==
  LET chain == Chain(sa, 0)
  IN  FlattenSeq([i \in DOMAIN chain |-> sa.heap[chain[i]].pairs])

=============================================================================
