------------------------------ MODULE SkipArray ------------------------------
(***************************************************************************)
(* The calls of src/skiparray.c that read and change the map.  The program *)
(* is sequential, so a call is one step; what it does inside is spelt out  *)
(* in SkipList.  A step chooses the arguments of the call, the result of   *)
(* the level callback and whether the memory callback fails.               *)
(*                                                                         *)
(* `iter` is the head of the list of live iterators: no call here changes  *)
(* it, SkipArrayIter adds the calls that do.                               *)
(***************************************************************************)
EXTENDS SkipList

CONSTANT Pair  \* the pairs of the client: key, by its rank in the order of cmp;
               \* inst, which tells pointers apart that cmp calls equal; val

ASSUME SkipArrayAssumption ==
  \A p \in Pair : p.key \in Nat \ {0} /\ {"key", "inst", "val"} = DOMAIN p

VARIABLES sa,    \* [height, nodes, heap], see SkipList
          iter,  \* sa->iter
          call,  \* the last call and its arguments
          ret    \* what it returned

\* What the level callback may return, 0 <= X < max_level.
Levels == 0 .. MaxLevel - 1

Keys == {p.key : p \in Pair}

has_iterators == iter # NULL

Returns(res, pair) == ret' = [res |-> res, pair |-> pair]

\* The call changes nothing.
Look(res, pair) == Returns(res, pair) /\ UNCHANGED <<sa, iter>>

Refuse(res) == Look(res, {})

Reshape_Unlocked(shape, res, pair) ==
  /\ sa' = shape
  /\ Returns(res, pair)
  /\ UNCHANGED iter

\* The call, on an unlocked skiparray, leaves the structure as `shape`.
Reshape(shape, res, pair) ==
  /\ ~has_iterators
  /\ sa' = shape
  /\ Returns(res, pair)
  /\ UNCHANGED iter

PairAt(n, index) == sa.heap[n].pairs[index + 1]

Init ==
  /\ \E lvl \in Levels : sa = skiparray_new(lvl)
  /\ iter = NULL
  /\ call = <<"new">>
  /\ ret = [res |-> "OK", pair |-> {}]

-----------------------------------------------------------------------------
(* skiparray_set_with_pair.  The allocation of split_node may fail; nothing *)
(* has been changed by then.                                                *)

set_found_NewKey(at, pair, replace_key) ==
  [sa EXCEPT !.heap[at.n].pairs[at.index + 1] = pair]

set_found(at, pair, replace_key) ==
  LET old == PairAt(at.n, at.index)
      new == IF replace_key THEN pair ELSE [old EXCEPT !.val = pair.val]
  IN  [sa EXCEPT !.heap[at.n].pairs[at.index + 1] = new]

Set(pair, replace_key) ==
  LET at   == search(sa, pair.key)
      full == Count(sa, at.n) = NodeSize
  IN  /\ call' = <<"set", pair, replace_key>>
      /\ \/ has_iterators /\ Refuse("LOCKED")
         \/ /\ at.found
            /\ Reshape(set_found(at, pair, replace_key),
                       "REPLACED", {PairAt(at.n, at.index)})
         \/ /\ ~at.found /\ ~full
            /\ Reshape(insert_pair(sa, at.n, at.index, pair), "BOUND", {})
         \/ /\ ~at.found /\ full
            /\ \E lvl \in Levels :
                 Reshape(split_and_insert(sa, at.n, at.index, node_height(lvl), pair),
                         "BOUND", {})
         \/ ~at.found /\ full /\ Reshape(sa, "MEMORY", {})

Forget(key) ==
  LET at == search(sa, key)
  IN  /\ call' = <<"forget", key>>
      /\ \/ has_iterators /\ Refuse("LOCKED")
         \/ ~has_iterators /\ ~at.found /\ Refuse("NOT_FOUND")
         \/ /\ at.found
            /\ Reshape(remove_at(sa, at.n, at.index),
                       "OK", {PairAt(at.n, at.index)})

PopFirst ==
  LET head == sa.nodes[0]
  IN  /\ call' = <<"pop_first">>
      /\ \/ has_iterators /\ Refuse("LOCKED")
         \/ ~has_iterators /\ Count(sa, head) = 0 /\ Refuse("EMPTY")
         \/ /\ Count(sa, head) > 0
            /\ Reshape(remove_first(sa), "OK", {PairAt(head, 0)})

PopLast ==
  LET last == last_node(sa)
  IN  /\ call' = <<"pop_last">>
      /\ \/ has_iterators /\ Refuse("LOCKED")
         \/ ~has_iterators /\ Count(sa, sa.nodes[0]) = 0 /\ Refuse("EMPTY")
         \/ /\ Count(sa, sa.nodes[0]) > 0
            /\ Reshape(remove_last(sa), "OK", {PairAt(last, Count(sa, last) - 1)})

-----------------------------------------------------------------------------
(* Queries. *)

Get(key) ==
  LET at == search(sa, key)
  IN  /\ call' = <<"get", key>>
      /\ \/ at.found /\ Look("OK", {PairAt(at.n, at.index)})
         \/ ~at.found /\ Look("NOT_FOUND", {})

skiparray_count ==
  LET chain == Chain(sa, 0)
      total[i \in 0 .. Len(chain)] ==
        IF i = 0 THEN 0 ELSE total[i - 1] + Count(sa, chain[i])
  IN  total[Len(chain)]

CountPairs == call' = <<"count">> /\ Look(skiparray_count, {})

FirstPair ==
  LET head == sa.nodes[0]
  IN  /\ call' = <<"first">>
      /\ \/ Count(sa, head) = 0 /\ Look("EMPTY", {})
         \/ Count(sa, head) > 0 /\ Look("OK", {PairAt(head, 0)})

LastPair ==
  LET last == last_node(sa)
  IN  /\ call' = <<"last">>
      /\ \/ Count(sa, last) = 0 /\ Look("EMPTY", {})
         \/ /\ Count(sa, last) > 0
            /\ Look("OK", {PairAt(last, Count(sa, last) - 1)})

Next ==
  \/ \E pair \in Pair, replace_key \in BOOLEAN : Set(pair, replace_key)
  \/ \E key \in Keys : Forget(key)
  \/ PopFirst
  \/ PopLast
  \/ \E key \in Keys : Get(key)
  \/ CountPairs
  \/ FirstPair
  \/ LastPair

vars == <<sa, iter, call, ret>>

Spec == Init /\ [][Next]_vars

-----------------------------------------------------------------------------
(* Properties. *)

Nodes == DOMAIN sa.heap

LevelZero == Chain(sa, 0)

\* The variables have the types the code gives them.
TypeOK ==
  /\ sa.height \in 1 .. MaxLevel
  /\ sa.nodes \in [0 .. MaxLevel - 1 -> {NULL} \cup Nodes]
  /\ \A n \in Nodes :
       LET node == sa.heap[n]
       IN  /\ node.height \in 1 .. MaxLevel
           /\ node.pairs \in Seq(Pair) /\ Len(node.pairs) <= NodeSize
           /\ node.back \in {NULL} \cup Nodes
           /\ node.fwd \in [0 .. node.height - 1 -> {NULL} \cup Nodes]
  /\ iter \in Nat
  /\ ret.pair \subseteq Pair

\* The nodes of one chain are in the order of another.
Within(chain, other) ==
  \A i, j \in DOMAIN chain :
    i < j => \E a, b \in DOMAIN other :
               a < b /\ other[a] = chain[i] /\ other[b] = chain[j]

\* Every level is the level below it without the nodes that are too short: a
\* split links the new node on each of its levels at the right place, a merge
\* or an emptied last node unlinks it from each, no node is lost or reached
\* after it is freed, and sa->height is that of the tallest node.
LevelsExact ==
  /\ Len(LevelZero) = Cardinality(Nodes) /\ ToSet(LevelZero) = Nodes
  /\ \A l \in 0 .. MaxLevel - 1 :
       /\ ToSet(Chain(sa, l)) = OnLevel(sa, l)
       /\ Within(Chain(sa, l), LevelZero)
       /\ (sa.nodes[l] # NULL) <=> (l < sa.height)

\* The back pointers are level 0 read backwards, after every split, merge and
\* unlink: unlink_node, iter_prev and search trust them.
BackLinksExact ==
  \A i \in DOMAIN LevelZero :
    sa.heap[LevelZero[i]].back = IF i = 1 THEN NULL ELSE LevelZero[i - 1]

Ascending(pairs) == \A i, j \in DOMAIN pairs : i < j => pairs[i].key < pairs[j].key

\* For every key search takes the same decision as a look at all the bindings:
\* it finds a key that is bound, at its binding; for another one it gives a
\* place where inserting keeps all bindings, across nodes, in order.
SearchExact ==
  \A k \in Keys :
    LET at   == search(sa, k)
        here == sa.heap[at.n].pairs
        all  == Bindings(sa)
        some == CHOOSE p \in Pair : p.key = k
    IN  /\ at.found <=> \E i \in DOMAIN all : all[i].key = k
        /\ at.found  => here[at.index + 1].key = k
        /\ ~at.found => /\ at.index \in 0 .. Len(here)
                        /\ Ascending(Bindings(insert_pair(sa, at.n, at.index, some)))

\* The map the bindings stand for.
BoundPairs == UNION {ToSet(sa.heap[n].pairs) : n \in ToSet(LevelZero)}

MapOf == [k \in {p.key : p \in BoundPairs} |-> CHOOSE p \in BoundPairs : p.key = k]

Promise == INSTANCE OrderedMap
             WITH map <- MapOf, pos <- [i \in {} |-> 0], IterIds <- {}

Level0 == INSTANCE NodeChain
            WITH chain <- [i \in DOMAIN LevelZero |-> sa.heap[LevelZero[i]].pairs],
                 out <- ret.pair, MaxPairs <- Cardinality(Keys)

=============================================================================
