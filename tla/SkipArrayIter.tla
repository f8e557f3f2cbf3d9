--------------------------- MODULE SkipArrayIter ---------------------------
(***************************************************************************)
(* SkipArray with its iterators.  A client holds any number of them at     *)
(* once and calls them, and the map, in any order: that interleaving is    *)
(* what this module adds.  Live iterators form a doubly linked list headed *)
(* by sa->iter (`iter` here), and as long as it is not empty the calls     *)
(* that would move bindings under an iterator's feet return LOCKED.        *)
(***************************************************************************)
EXTENDS SkipArray

CONSTANTS IterIds,      \* addresses of iterators
          StepPastEnd,  \* whether the client calls next again after END
          MaxIndex      \* bound on the index such a client reaches

ASSUME SkipArrayIterAssumption ==
  /\ IterIds \subseteq Nat \ {NULL}
  /\ StepPastEnd \in BOOLEAN
  /\ MaxIndex \in Nat /\ MaxIndex >= NodeSize

VARIABLE its   \* the live iterators: [prev, next, n, index] by address

LastIndex_Behind(n) == Count(sa, n)

LastIndex_Zero(n) == 0

LastIndex(n) == Count(sa, n) - 1

OnPair(i) == its[i].index < Count(sa, its[i].n)

\* Iterator i moves to a position, and the call returns res.
Move(i, n, index, res) ==
  /\ its' = [its EXCEPT ![i].n = n, ![i].index = index]
  /\ Look(res, {})

-----------------------------------------------------------------------------
(* The list of live iterators. *)

list_prev_Skip(list, i, q) == list

\* if (i != NULL) i->prev = q, and likewise for next
list_prev(list, i, q) == IF i = NULL THEN list ELSE [list EXCEPT ![i].prev = q]

list_next(list, i, q) == IF i = NULL THEN list ELSE [list EXCEPT ![i].next = q]

iter_link(list, i) ==
  LET old == list_prev(list, iter, i)
      new == [prev |-> NULL, next |-> iter, n |-> sa.nodes[0], index |-> 0]
  IN  [j \in DOMAIN list \cup {i} |-> IF j = i THEN new ELSE old[j]]

iter_unlink(list, i) ==
  LET prev == list[i].prev
      next == list[i].next
  IN  Restrict(list_prev(list_next(list, prev, next), next, prev),
               DOMAIN list \ {i})

iter_head(list, i) == IF list[i].prev = NULL THEN list[i].next ELSE iter

IterNew(i) ==
  LET empty == sa.heap[sa.nodes[0]].fwd[0] = NULL /\ Count(sa, sa.nodes[0]) = 0
  IN  /\ call' = <<"iter_new", i>>
      /\ i \notin DOMAIN its
      /\ \/ empty /\ Refuse("EMPTY") /\ UNCHANGED its
         \/ ~empty /\ Refuse("MEMORY") /\ UNCHANGED its
         \/ /\ ~empty
            /\ its' = iter_link(its, i)
            /\ iter' = i
            /\ Returns("OK", {})
            /\ UNCHANGED sa

IterFree(i) ==
  /\ call' = <<"iter_free", i>>
  /\ its' = iter_unlink(its, i)
  /\ iter' = iter_head(its, i)
  /\ Returns("OK", {})
  /\ UNCHANGED sa

-----------------------------------------------------------------------------
(* Moving an iterator. *)

IterSeekEndpoint(i, end) ==
  LET last == last_node(sa)
  IN  /\ call' = <<"iter_seek_endpoint", i, end>>
      /\ \/ end = "FIRST" /\ Move(i, sa.nodes[0], 0, "OK")
         \/ end = "LAST" /\ Move(i, last, LastIndex(last), "OK")

SeekBehind_Blind(i, next) == Move(i, next, 0, "NOT_FOUND")

SeekBehind(i, next) ==
  \/ next = NULL /\ Refuse("AFTER_LAST") /\ UNCHANGED its
  \/ next # NULL /\ Move(i, next, 0, "NOT_FOUND")

\* search may answer with the place behind the last pair of a node: the pair
\* sought is then the first one of the next node.
IterSeek(i, key) ==
  LET at     == search(sa, key)
      before == at.index = 0 /\ sa.heap[at.n].back = NULL
      behind == at.index = Count(sa, at.n)
  IN  /\ call' = <<"iter_seek", i, key>>
      /\ \/ at.found /\ Move(i, at.n, at.index, "FOUND")
         \/ ~at.found /\ before /\ Refuse("BEFORE_FIRST") /\ UNCHANGED its
         \/ /\ ~at.found /\ ~before /\ behind
            /\ SeekBehind(i, sa.heap[at.n].fwd[0])
         \/ /\ ~at.found /\ ~before /\ ~behind
            /\ Move(i, at.n, at.index, "NOT_FOUND")

\* The index is stepped before the end is noticed, and compared with = only.
IterNext(i) ==
  LET n    == its[i].n
      step == its[i].index + 1
      next == sa.heap[n].fwd[0]
  IN  /\ OnPair(i) \/ (StepPastEnd /\ step <= MaxIndex)
      /\ call' = <<"iter_next", i>>
      /\ \/ step = Count(sa, n) /\ next = NULL /\ Move(i, n, step, "END")
         \/ step = Count(sa, n) /\ next # NULL /\ Move(i, next, 0, "OK")
         \/ step # Count(sa, n) /\ Move(i, n, step, "OK")

IterPrev(i) ==
  LET n    == its[i].n
      back == sa.heap[n].back
  IN  /\ call' = <<"iter_prev", i>>
      /\ \/ its[i].index = 0 /\ back = NULL /\ Refuse("END") /\ UNCHANGED its
         \/ its[i].index = 0 /\ back # NULL /\ Move(i, back, LastIndex(back), "OK")
         \/ its[i].index > 0 /\ Move(i, n, its[i].index - 1, "OK")

\* Asserts that the iterator is on a pair: a client that has seen END moves it
\* first.
IterGet(i) ==
  /\ OnPair(i)
  /\ call' = <<"iter_get", i>>
  /\ Look("OK", {PairAt(its[i].n, its[i].index)})
  /\ UNCHANGED its

-----------------------------------------------------------------------------

IterInit == Init /\ its = [i \in {} |-> 0]

IterStep ==
  \/ \E i \in IterIds : IterNew(i)
  \/ \E i \in DOMAIN its :
       \/ IterFree(i)
       \/ \E end \in {"FIRST", "LAST"} : IterSeekEndpoint(i, end)
       \/ \E key \in Keys : IterSeek(i, key)
       \/ IterNext(i)
       \/ IterPrev(i)
       \/ IterGet(i)

IterNextState == (Next /\ UNCHANGED its) \/ IterStep

iterVars == <<sa, iter, its, call, ret>>

IterSpec == IterInit /\ [][IterNextState]_iterVars

-----------------------------------------------------------------------------
(* Properties. *)

\* The iterators met from sa->iter along next.
IterList ==
  LET from[at \in Nat \X Nat] ==
        LET i    == at[1]
            left == at[2]
        IN  IF i = NULL \/ left = 0 THEN << >>
            ELSE <<i>> \o (IF i \in DOMAIN its THEN from[<<its[i].next, left - 1>>]
                                               ELSE << >>)
  IN  from[<<iter, Cardinality(DOMAIN its) + 1>>]

\* Iterators have the types the code gives them.
IterTypeOK ==
  /\ TypeOK
  /\ DOMAIN its \subseteq IterIds
  /\ \A i \in DOMAIN its :
       /\ {its[i].prev, its[i].next} \subseteq {NULL} \cup IterIds
       /\ its[i].n \in Nodes
       /\ its[i].index \in 0 .. MaxIndex

\* "Iterators do not need to be freed in any particular order": after any
\* sequence of iter_new and iter_free the list from sa->iter holds exactly the
\* live iterators, with prev the reverse of next.
IterListExact ==
  /\ Len(IterList) = Cardinality(DOMAIN its) /\ ToSet(IterList) = DOMAIN its
  /\ \A x \in DOMAIN IterList :
       its[IterList[x]].prev = IF x = 1 THEN NULL ELSE IterList[x - 1]

\* While any iterator is live no call changes a node, so that the node and
\* index every iterator holds stay valid.
LockHolds == [][DOMAIN its # {} => sa' = sa]_iterVars

\* Every iterator of a client that stops at END is on a pair, or just behind
\* the last pair of the last node, where iter_next leaves it when it answers
\* END, and nowhere else: after any other answer it may be given to iter_get,
\* whose assertion fails behind the last pair.
IterOnPairOrEnd ==
  \A i \in DOMAIN its :
    OnPair(i) \/ (/\ sa.heap[its[i].n].fwd[0] = NULL
                  /\ its[i].index = Count(sa, its[i].n))

PosOf ==
  [i \in DOMAIN its |->
     IF OnPair(i) THEN PairAt(its[i].n, its[i].index).key ELSE 0]

Cursors == INSTANCE OrderedMap WITH map <- MapOf, pos <- PosOf

\* Maps and iterators together do what the header promises: seek lands on the
\* first binding >= the key, next and prev on the neighbouring key across node
\* boundaries, no matter what the other iterators do, and the map is locked
\* exactly while one is live.
RefinesCursors == Cursors!Spec

\* "Seek to the next binding; returns END if at the last pair"
\* (include/skiparray.h): when iter_next says OK the iterator is on a binding.
NextOkIsOnPair ==
  [][\A i \in DOMAIN its' :
       call' = <<"iter_next", i>> /\ ret'.res = "OK" => OnPair(i)']_iterVars

=============================================================================
