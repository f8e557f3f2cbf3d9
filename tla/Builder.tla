------------------------------- MODULE Builder -------------------------------
(***************************************************************************)
(* skiparray_builder of src/skiparray.c, as operators on a value           *)
(*                                                                         *)
(*     b = [sa, last, trail, check, prev]                                  *)
(*                                                                         *)
(* sa is the skiparray being built (see SkipList), last its last node,     *)
(* trail[l] the last node of level l so far, prev the last key appended,   *)
(* kept only by a builder that checks keys.                                *)
(***************************************************************************)
EXTENDS SkipList

builder_new(lvl, check) ==
  LET sa == skiparray_new(lvl)
  IN  [sa    |-> sa,
       last  |-> sa.nodes[0],
       trail |-> [l \in 0 .. MaxLevel - 1 |->
                    IF l < sa.heap[sa.nodes[0]].height THEN sa.nodes[0] ELSE NULL],
       check |-> check,
       prev  |-> NULL]

rejects_Smaller(b, key) == b.prev # NULL /\ key < b.prev

\* Not above the previous key, by a builder that checks.
rejects(b, key) == b.prev # NULL /\ key <= b.prev

last_is_full(b) == Count(b.sa, b.last) = NodeSize

\* The previous last node points to the new one on the levels both have.
link_last(sa, last, new) ==
  [sa EXCEPT !.heap[last].fwd =
     [l \in DOMAIN @ |-> IF l < sa.heap[new].height THEN new ELSE @[l]]]

\* On every level of the new node the last node of that level points to it.
link_trail(sa, trail, new) ==
  LET Links(n) == [l \in DOMAIN sa.heap[n].fwd |->
                     IF l < sa.heap[new].height /\ trail[l] = n THEN new
                     ELSE sa.heap[n].fwd[l]]
  IN  [sa EXCEPT !.heap = [n \in DOMAIN @ |-> [sa.heap[n] EXCEPT !.fwd = Links(n)]]]

advance_trail_New(trail, new, height) ==
  [l \in DOMAIN trail |-> IF l < height /\ trail[l] # NULL THEN new ELSE trail[l]]

advance_trail(trail, new, height) ==
  [l \in DOMAIN trail |-> IF l < height THEN new ELSE trail[l]]

\* The node behind last that is `back` of the new one.
new_last_Unbacked(b, height) ==
  [height |-> height, pairs |-> << >>, back |-> NULL,
   fwd |-> [l \in 0 .. height - 1 |-> NULL]]

new_last(b, height) ==
  [height |-> height, pairs |-> << >>, back |-> b.last,
   fwd |-> [l \in 0 .. height - 1 |-> NULL]]

\* A new, empty last node.
extend(b, height) ==
  LET new    == FreshNode(b.sa)
      grown  == node_alloc(b.sa, new, new_last(b, height))
      linked == link_trail(link_last(grown, b.last, new), b.trail, new)
  IN  [b EXCEPT !.sa    = raise_height(linked, new),
                !.last  = new,
                !.trail = advance_trail(@, new, height)]

put(b, pair) ==
  [b EXCEPT !.sa   = insert_pair(@, b.last, Count(@, b.last), pair),
            !.prev = IF b.check THEN pair.key ELSE @]

\* An append that succeeds; lvl is used when a new last node is needed.
append(b, pair, lvl) ==
  put(IF last_is_full(b) THEN extend(b, node_height(lvl)) ELSE b, pair)

=============================================================================
