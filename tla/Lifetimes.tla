------------------------------ MODULE Lifetimes ------------------------------
(***************************************************************************)
(* Who owns which block of memory: the calls of src/skiparray.c and        *)
(* src/skiparray_fold.c that allocate and free, with what is in the blocks *)
(* left out.  The memory callback fails at any point of any call: the      *)
(* first `left` allocations of a call succeed, the next one does not.      *)
(*                                                                         *)
(* A block is named by an address.  The operators below take and return    *)
(* the memory as a value                                                   *)
(*                                                                         *)
(*     m = [live, left, bad]                                               *)
(*                                                                         *)
(* with the blocks that are allocated, and whether a block that was not    *)
(* has been freed.                                                         *)
(***************************************************************************)
EXTENDS Integers, Sequences, FiniteSets, FiniteSetsExt, Functions

CONSTANTS Configs,     \* configurations the client tries
          MaxArrays,   \* bound on the skiparrays of the client,
          MaxNodes,    \* on the nodes of each,
          MaxIters,    \* on the iterators the client holds
          MaxCount     \* and on skiparray_count of a fold

Config == [given : BOOLEAN, node_size : Nat, cmp : BOOLEAN, values : BOOLEAN]

ASSUME LifetimesAssumption ==
  /\ Configs \subseteq Config
  /\ {MaxArrays, MaxNodes, MaxIters, MaxCount} \subseteq Nat

VARIABLES live, bad,  \* the memory
          arrays,     \* the skiparrays of the client, by the handle of each
          built,      \* the set of the builder, or empty
          fold,       \* the set of the fold in progress, or empty
          held,       \* the iterators of the client: [block, sa]
          ret         \* what the last call returned

vars == <<live, bad, arrays, built, fold, held, ret>>

\* The most allocations of one call: five of builder_new, or two of a fold and
\* an iterator per skiparray.
MaxLeft == Max({5, 2 + MaxCount})

-----------------------------------------------------------------------------
(* Memory. *)

Fresh(m) ==
  CHOOSE p \in 1 .. Cardinality(m.live) + 1 : p \notin m.live

\* One more allocation of a call: t = [m, got, ok], with the blocks it got so
\* far.  Once one has failed no further one succeeds.
malloc(t) ==
  IF t.m.left = 0 THEN [t EXCEPT !.ok = FALSE]
  ELSE [m   |-> [t.m EXCEPT !.live = @ \cup {Fresh(t.m)}, !.left = @ - 1],
        got |-> t.got \cup {Fresh(t.m)},
        ok  |-> t.ok]

None(m) == [m |-> m, got |-> {}, ok |-> TRUE]

release(m, blocks) ==
  [m EXCEPT !.live = @ \ blocks, !.bad = @ \/ ~(blocks \subseteq m.live)]

node_cleanup_Struct(m, got) ==
  release(m, {b \in got : \A c \in got : b <= c})

\* What node_alloc gives back when an allocation after the first one fails.
node_cleanup(m, got) == release(m, got)

\* A node, its keys and, if there are any, its values: [m, node].
node_alloc(m, values) ==
  LET keys == malloc(malloc(None(m)))
      t    == IF values THEN malloc(keys) ELSE keys
  IN  IF t.ok THEN [m |-> t.m, node |-> t.got]
              ELSE [m |-> node_cleanup(t.m, t.got), node |-> {}]

-----------------------------------------------------------------------------
(* Skiparrays and iterators, as [values, block, nodes, iters, empty]: nodes  *)
(* are sets of blocks, iters is what is in the list from sa->iter on.       *)

\* [m, sa]; sa is empty when memory runs out.
skiparray_new(m, cfg) ==
  LET t    == malloc(None(m))
      root == node_alloc(t.m, cfg.values)
  IN  IF ~t.ok THEN [m |-> t.m, sa |-> {}]
      ELSE IF root.node = {} THEN [m |-> release(root.m, t.got), sa |-> {}]
      ELSE [m  |-> root.m,
            sa |-> {[values |-> cfg.values, block |-> b, nodes |-> {root.node},
                     iters |-> {}, empty |-> TRUE] : b \in t.got}]

\* The nodes, the iterators that are left, then the skiparray itself.
skiparray_free(m, sa) ==
  release(release(release(m, UNION sa.nodes), sa.iters), {sa.block})

\* [m, sa, got]
iter_new(m, sa) ==
  LET t == malloc(None(m))
  IN  IF sa.empty THEN [m |-> m, sa |-> sa, got |-> {}]
      ELSE [m |-> t.m, sa |-> [sa EXCEPT !.iters = @ \cup t.got], got |-> t.got]

\* The iterators `blocks` are freed: w = [m, arrays].
free_iters(w, blocks) ==
  [m      |-> release(w.m, blocks),
   arrays |-> [p \in DOMAIN w.arrays |->
                [w.arrays[p] EXCEPT !.iters = @ \ blocks]]]

fold_cleanup_Kept(w, own, iters) ==
  [m |-> release(w.m, own), arrays |-> w.arrays]

\* skiparray_fold_multi_init gives back its own two blocks, and the iterators
\* made so far.
fold_cleanup(w, own, iters) ==
  free_iters([m |-> release(w.m, own), arrays |-> w.arrays], iters)

\* The iterator for one more skiparray, or none if it is empty; w = [m, arrays,
\* iters, ok], and nothing more happens once an allocation has failed.
fold_iter(w, p) ==
  LET r == iter_new(w.m, w.arrays[p])
  IN  IF ~w.ok THEN w
      ELSE [m      |-> r.m,
            arrays |-> [w.arrays EXCEPT ![p] = r.sa],
            iters  |-> w.iters \cup r.got,
            ok     |-> r.sa.empty \/ r.got # {}]

\* An iterator for each skiparray of sas, until one cannot be allocated.
fold_iters(m, sas) ==
  LET none == [m |-> m, arrays |-> arrays, iters |-> {}, ok |-> TRUE]
      w[i \in 0 .. Len(sas)] ==
        IF i = 0 THEN none ELSE fold_iter(w[i - 1], sas[i])
  IN  w[Len(sas)]

-----------------------------------------------------------------------------
(* The calls. *)

Mem(left) == [live |-> live, left |-> left, bad |-> bad]

Commit(m) == live' = m.live /\ bad' = m.bad

Answer(res) == ret' = res

Refuse(res) == Answer(res) /\ UNCHANGED <<live, bad, arrays, built, fold, held>>

\* The handles of the client, and one it has not used yet.
Handles == 1 .. MaxArrays

Unused == CHOOSE p \in Handles : p \notin DOMAIN arrays

CanKeepMore == DOMAIN arrays # Handles

With(p, sa) == [q \in DOMAIN arrays \cup {p} |-> IF q = p THEN sa ELSE arrays[q]]

Without(p) == [q \in DOMAIN arrays \ {p} |-> arrays[q]]

Valid(cfg) == cfg.given /\ cfg.node_size # 1 /\ cfg.cmp

New(cfg, left) ==
  LET r == skiparray_new(Mem(left), cfg)
  IN  \/ ~cfg.given /\ Refuse("NULL")
      \/ cfg.given /\ ~Valid(cfg) /\ Refuse("CONFIG")
      \/ /\ Valid(cfg) /\ CanKeepMore
         /\ Commit(r.m)
         /\ \/ r.sa = {} /\ Answer("MEMORY") /\ UNCHANGED arrays
            \/ \E sa \in r.sa : arrays' = With(Unused, sa) /\ Answer("OK")
         /\ UNCHANGED <<built, fold, held>>

\* The client does not free a skiparray in the middle of a fold over it, and
\* forgets its iterators with it: "pointers to them will become stale".
InFold(p) == \E f \in fold : p \in Range(f.of)

Free(p) ==
  /\ ~InFold(p)
  /\ Commit(skiparray_free(Mem(0), arrays[p]))
  /\ arrays' = Without(p)
  /\ held' = {h \in held : h.sa # p}
  /\ Answer("OK")
  /\ UNCHANGED <<built, fold>>

\* A pair is added: to a node that has room, or with a new node, of which
\* grown = [m, node] is the allocation.
Grow(sa, grown) == [sa EXCEPT !.nodes = @ \cup {grown.node}]

\* skiparray_set_with_pair: when it allocates is for SkipArray to say.
Set(p, left) ==
  LET sa    == arrays[p]
      grown == node_alloc(Mem(left), sa.values)
  IN  \/ sa.iters # {} /\ Refuse("LOCKED")
      \/ /\ sa.iters = {}
         /\ arrays' = With(p, [sa EXCEPT !.empty = FALSE])
         /\ Answer("OK")
         /\ UNCHANGED <<live, bad, built, fold, held>>
      \/ /\ sa.iters = {} /\ ~sa.empty /\ Cardinality(sa.nodes) < MaxNodes
         /\ Commit(grown.m)
         /\ \/ grown.node = {} /\ Answer("MEMORY") /\ UNCHANGED arrays
            \/ grown.node # {} /\ arrays' = With(p, Grow(sa, grown)) /\ Answer("OK")
         /\ UNCHANGED <<built, fold, held>>

\* skiparray_forget, pop_first and pop_last: a node may go, the last one stays.
Unbind(p) ==
  LET sa == arrays[p]
  IN  \/ sa.iters # {} /\ Refuse("LOCKED")
      \/ sa.iters = {} /\ Refuse("NOT_FOUND")
      \/ /\ sa.iters = {} /\ ~sa.empty
         /\ \E node \in sa.nodes :
              /\ sa.nodes # {node}
              /\ Commit(release(Mem(0), node))
              /\ arrays' = With(p, [sa EXCEPT !.nodes = @ \ {node}])
         /\ Answer("OK")
         /\ UNCHANGED <<built, fold, held>>
      \/ /\ sa.iters = {} /\ ~sa.empty
         /\ \E node \in sa.nodes : sa.nodes = {node}
         /\ arrays' = With(p, [sa EXCEPT !.empty = TRUE])
         /\ Answer("OK")
         /\ UNCHANGED <<live, bad, built, fold, held>>

IterNew(p, left) ==
  LET sa == arrays[p]
      r  == iter_new(Mem(left), sa)
  IN  \/ sa.empty /\ Refuse("EMPTY")
      \/ /\ ~sa.empty /\ Cardinality(held) < MaxIters
         /\ Commit(r.m)
         /\ arrays' = With(p, r.sa)
         /\ held' = held \cup {[block |-> i, sa |-> p] : i \in r.got}
         /\ Answer(IF r.got = {} THEN "MEMORY" ELSE "OK")
         /\ UNCHANGED <<built, fold>>

IterFree(h) ==
  /\ Commit(release(Mem(0), {h.block}))
  /\ arrays' = With(h.sa, [arrays[h.sa] EXCEPT !.iters = @ \ {h.block}])
  /\ held' = held \ {h}
  /\ Answer("OK")
  /\ UNCHANGED <<built, fold>>

-----------------------------------------------------------------------------
(* Builders, as [block, sa]. *)

builder_cleanup_Header(m, sa) == release(m, {sa.block})

\* builder_new frees the skiparray when the builder cannot be allocated.
builder_cleanup(m, sa) == skiparray_free(m, sa)

BuilderNew(cfg, left) ==
  LET r == skiparray_new(Mem(left), cfg)
      t == malloc(None(r.m))
  IN  \/ ~Valid(cfg) /\ Refuse("MISUSE")
      \/ /\ Valid(cfg) /\ built = {}
         /\ \/ r.sa = {} /\ Commit(r.m) /\ Answer("MEMORY") /\ UNCHANGED built
            \/ \E sa \in r.sa :
                 \/ /\ ~t.ok
                    /\ Commit(builder_cleanup(t.m, sa))
                    /\ Answer("MEMORY")
                    /\ UNCHANGED built
                 \/ /\ t.ok
                    /\ Commit(t.m)
                    /\ built' = {[block |-> b, sa |-> sa] : b \in t.got}
                    /\ Answer("OK")
         /\ UNCHANGED <<arrays, fold, held>>

BuilderAppend(b, left) ==
  LET grown == node_alloc(Mem(left), b.sa.values)
  IN  \/ ~b.sa.empty /\ Refuse("MISUSE")
      \/ /\ built' = {[b EXCEPT !.sa.empty = FALSE]}
         /\ Answer("OK")
         /\ UNCHANGED <<live, bad, arrays, fold, held>>
      \/ /\ ~b.sa.empty /\ Cardinality(b.sa.nodes) < MaxNodes
         /\ Commit(grown.m)
         /\ \/ grown.node = {} /\ Answer("MEMORY") /\ UNCHANGED built
            \/ /\ grown.node # {}
               /\ built' = {[b EXCEPT !.sa = Grow(@, grown)]}
               /\ Answer("OK")
         /\ UNCHANGED <<arrays, fold, held>>

BuilderFinish(b) ==
  /\ CanKeepMore
  /\ Commit(release(Mem(0), {b.block}))
  /\ arrays' = With(Unused, b.sa)
  /\ built' = {}
  /\ Answer("OK")
  /\ UNCHANGED <<fold, held>>

BuilderFree(b) ==
  /\ Commit(skiparray_free(release(Mem(0), {b.block}), b.sa))
  /\ built' = {}
  /\ Answer("OK")
  /\ UNCHANGED <<arrays, fold, held>>

-----------------------------------------------------------------------------
(* Folds, as [blocks, iters, of]: the state and its ids, the iterators that *)
(* are left, and the skiparrays.                                            *)

\* The skiparrays have to agree in whether they have values, and more than one
\* needs a merge callback. All skiparrays here share the callbacks cmp, mem and
\* free, and no argument is NULL: the checks of those are left out. They come
\* before anything is allocated and answer MISUSE, as these do.
FoldMayStart(sas, merge) ==
  /\ Len(sas) > 1 => merge
  /\ \A i \in DOMAIN sas : arrays[sas[i]].values = arrays[sas[1]].values

FoldInit(sas, merge, left) ==
  LET own  == malloc(malloc(None(Mem(left))))
      w    == fold_iters(own.m, sas)
      back == fold_cleanup(w, own.got, w.iters)
  IN  \/ ~FoldMayStart(sas, merge) /\ Refuse("MISUSE")
      \/ /\ FoldMayStart(sas, merge) /\ fold = {}
         /\ \/ /\ ~own.ok
               /\ Commit(release(own.m, own.got))
               /\ Answer("MEMORY")
               /\ UNCHANGED <<arrays, fold>>
            \/ /\ own.ok /\ ~w.ok
               /\ Commit(back.m) /\ arrays' = back.arrays
               /\ Answer("MEMORY")
               /\ UNCHANGED fold
            \/ /\ own.ok /\ w.ok
               /\ Commit(w.m) /\ arrays' = w.arrays
               /\ fold' = {[blocks |-> own.got, iters |-> w.iters, of |-> sas]}
               /\ Answer("OK")
         /\ UNCHANGED <<built, held>>

\* Frees the iterators that are left, the ids and the state.
FoldHalt(f) ==
  LET w == free_iters([m |-> Mem(0), arrays |-> arrays], f.iters)
  IN  /\ Commit(release(w.m, f.blocks))
      /\ arrays' = w.arrays
      /\ fold' = {}
      /\ Answer("OK")
      /\ UNCHANGED <<built, held>>

end_iters_Twice(f, ends) == {f}

\* An iterator at its end is freed, and not to be freed again by fold_halt.
end_iters(f, ends) == {[f EXCEPT !.iters = @ \ ends]}

\* Any of the iterators may meet their ends; the fold ends with a call that
\* finds none left, and no pair pending.
FoldNext(f) ==
  \/ f.iters = {} /\ FoldHalt(f)
  \/ \E ends \in SUBSET f.iters :
       LET w == free_iters([m |-> Mem(0), arrays |-> arrays], ends)
       IN  /\ Commit(w.m)
           /\ arrays' = w.arrays
           /\ fold' = end_iters(f, ends)
           /\ Answer("OK")
           /\ UNCHANGED <<built, held>>

-----------------------------------------------------------------------------

Init ==
  /\ live = {} /\ bad = FALSE
  /\ arrays = [p \in {} |-> {}]
  /\ built = {} /\ fold = {} /\ held = {}
  /\ ret = "OK"

Next ==
  \/ \E left \in 0 .. MaxLeft :
       \/ \E cfg \in Configs : New(cfg, left) \/ BuilderNew(cfg, left)
       \/ \E p \in DOMAIN arrays : Set(p, left) \/ IterNew(p, left)
       \/ \E b \in built : BuilderAppend(b, left)
       \/ \E n \in 1 .. MaxCount, merge \in BOOLEAN :
            \E sas \in [1 .. n -> DOMAIN arrays] : FoldInit(sas, merge, left)
  \/ \E p \in DOMAIN arrays : Free(p) \/ Unbind(p)
  \/ \E h \in held : IterFree(h)
  \/ \E b \in built : BuilderFinish(b) \/ BuilderFree(b)
  \/ \E f \in fold : FoldNext(f) \/ FoldHalt(f)

Spec == Init /\ [][Next]_vars

-----------------------------------------------------------------------------
(* Properties. *)

Blocks(sa) == {sa.block} \cup sa.iters \cup UNION sa.nodes

\* The blocks of one skiparray are each for one thing.
Split(sa) ==
  /\ sa.block \notin sa.iters \cup UNION sa.nodes
  /\ sa.iters \cap UNION sa.nodes = {}
  /\ \A n1, n2 \in sa.nodes : n1 # n2 => n1 \cap n2 = {}

Apart(A, B) == A \cap B = {}

BlocksOfArrays == UNION {Blocks(arrays[p]) : p \in DOMAIN arrays}

BlocksOfBuilder == UNION {{b.block} \cup Blocks(b.sa) : b \in built}

BlocksOfFold == UNION {f.blocks : f \in fold}

\* No block leaks, is freed too early or belongs to two: what is allocated is
\* what the client's handles lead to, each block once, wherever in a call the
\* memory ran out.
LedgerExact ==
  /\ live = BlocksOfArrays \cup BlocksOfBuilder \cup BlocksOfFold
  /\ \A p \in DOMAIN arrays : Split(arrays[p])
  /\ \A p, q \in DOMAIN arrays : p # q => Apart(Blocks(arrays[p]), Blocks(arrays[q]))
  /\ \A b \in built : Split(b.sa) /\ b.block \notin Blocks(b.sa)
  /\ Apart(BlocksOfArrays, BlocksOfBuilder)
  /\ Apart(BlocksOfArrays, BlocksOfFold)
  /\ Apart(BlocksOfBuilder, BlocksOfFold)

\* Nothing is freed that is not allocated, or twice: also not by fold_halt
\* after some iterators have ended, or by skiparray_free with iterators left.
NoBadFree == ~bad

\* A skiparray is locked just by iterators someone can still free: a fold that
\* could not start, or was halted, has unlocked all its skiparrays.
LocksHeld ==
  \A p \in DOMAIN arrays :
    arrays[p].iters =
      {h.block : h \in {h \in held : h.sa = p}}
        \cup UNION {f.iters \cap arrays[p].iters : f \in fold}

\* A call that runs out of memory leaves everything as it found it.
FailureLeavesNothing ==
  [][ret' = "MEMORY" => UNCHANGED <<live, bad, arrays, built, fold, held>>]_vars

=============================================================================
