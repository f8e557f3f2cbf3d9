-------------------------- MODULE LifetimesProofs --------------------------
(***************************************************************************)
(* Lifetimes is right for any number of skiparrays, nodes, iterators and   *)
(* merged skiparrays, with the memory failing at any allocation of any     *)
(* call: every allocated block has one owner (BlocksOwnedOnce), nothing is *)
(* freed that is not allocated (NothingFreedTwice), a lock on a map is an  *)
(* iterator that somebody holds and will free (LocksHaveHolders), and a    *)
(* call that runs out of memory leaves no trace (FailureUndoes).           *)
(*                                                                         *)
(* LedgerExact alone is not inductive: freeing an iterator twice keeps the *)
(* blocks of the skiparrays in order as long as nothing says that the      *)
(* client, or the fold, names an iterator that is in a list.  LifetimesInv *)
(* says so (Refs), and adds that the blocks are finitely many addresses    *)
(* (Types), without which there might be no fresh one.                     *)
(*                                                                         *)
(* The lemmas go from the memory up: an allocation, a skiparray, what a    *)
(* change of one part of the world does to the ledger and to the           *)
(* invariant, the iterators of a fold by induction on the skiparrays it is *)
(* over, and last each call.                                               *)
(***************************************************************************)
EXTENDS Lifetimes, SequenceLemmas, FiniteSetTheorems

-----------------------------------------------------------------------------
(* Memory. *)

Memory == [live : SUBSET Nat, left : Nat, bad : BOOLEAN]

\* The memory of a call: finitely many blocks are allocated.
IsMemory(m) == m \in Memory /\ IsFiniteSet(m.live)

\* There is always an address that is not allocated.
LEMMA FreshExists ==
  ASSUME NEW m, IsMemory(m)
  PROVE  Fresh(m) \in Nat \ m.live
<1> DEFINE n == Cardinality(m.live)
<1>1. m.live \in SUBSET Nat /\ IsFiniteSet(m.live)
  BY DEF IsMemory, Memory
<1>2. n \in Nat
  BY <1>1, FS_CardinalityType
<1>3. Cardinality(1 .. n + 1) = n + 1
  BY <1>2, FS_Interval
<1>4. \E p \in 1 .. n + 1 : p \notin m.live
  <2>1. SUFFICES ASSUME 1 .. n + 1 \in SUBSET m.live PROVE FALSE
    BY Zenon
  <2>2. Cardinality(1 .. n + 1) <= n
    BY <2>1, <1>1, FS_Subset
  <2> QED BY <2>2, <1>2, <1>3
<1>5. Fresh(m) \in 1 .. n + 1 /\ Fresh(m) \notin m.live
  BY <1>4, Zenon DEF Fresh
<1> HIDE DEF n
<1> QED BY <1>2, <1>5

\* What a call has of the allocations it made from the memory m on: blocks
\* that were not allocated before.
Made(m, t) ==
  /\ IsMemory(t.m) /\ t.m.bad = m.bad
  /\ t.got \in SUBSET Nat /\ IsFiniteSet(t.got)
  /\ t.got \cap m.live = {}
  /\ t.m.live = m.live \cup t.got
  /\ t.ok \in BOOLEAN

\* A call begins with no allocation.
LEMMA NoneMade ==
  ASSUME NEW m, IsMemory(m)
  PROVE  Made(m, None(m))
<1>1. /\ None(m).m = m /\ None(m).got = {} /\ None(m).ok = TRUE
  BY DEF None
<1> QED BY <1>1, FS_EmptySet DEF Made

\* malloc makes one more block, or none.
LEMMA MallocMakes ==
  ASSUME NEW m, NEW t, Made(m, t), t = [m |-> t.m, got |-> t.got, ok |-> t.ok],
         NEW u, u = malloc(t)
  PROVE  Made(m, u) /\ u = [m |-> u.m, got |-> u.got, ok |-> u.ok]
<1> DEFINE p == Fresh(t.m)
<1>1. CASE t.m.left = 0
  <2>1. u = [t EXCEPT !.ok = FALSE]
    BY <1>1 DEF malloc
  <2>2. u.m = t.m /\ u.got = t.got /\ u.ok = FALSE
        /\ u = [m |-> u.m, got |-> u.got, ok |-> u.ok]
    BY <2>1
  <2> QED BY <2>2 DEF Made
<1>2. CASE t.m.left # 0
  <2>1. u = [m   |-> [t.m EXCEPT !.live = @ \cup {p}, !.left = @ - 1],
             got |-> t.got \cup {p}, ok |-> t.ok]
    BY <1>2 DEF malloc
  <2>2. p \in Nat \ t.m.live
    BY FreshExists DEF Made
  <2> HIDE DEF p
  <2>3. u.m = [t.m EXCEPT !.live = @ \cup {p}, !.left = @ - 1]
        /\ u.got = t.got \cup {p} /\ u.ok = t.ok
        /\ u = [m |-> u.m, got |-> u.got, ok |-> u.ok]
    BY <2>1
  <2>4. t.m \in Memory /\ t.m.left \in Nat /\ IsFiniteSet(t.m.live) /\ IsFiniteSet(t.got)
    BY DEF Made, IsMemory, Memory
  <2>5. u.m \in Memory /\ u.m.live = t.m.live \cup {p} /\ u.m.bad = t.m.bad
    <3>1. /\ t.m = [live |-> t.m.live, left |-> t.m.left, bad |-> t.m.bad]
          /\ t.m.live \in SUBSET Nat /\ t.m.bad \in BOOLEAN
      BY <2>4 DEF Memory
    <3>2. u.m = [live |-> t.m.live \cup {p}, left |-> t.m.left - 1, bad |-> t.m.bad]
      BY <2>3, <3>1
    <3>3. t.m.left - 1 \in Nat /\ t.m.live \cup {p} \in SUBSET Nat
      BY <1>2, <2>2, <2>4, <3>1
    <3> QED BY <3>1, <3>2, <3>3 DEF Memory
  <2>6. IsFiniteSet(t.m.live \cup {p}) /\ IsFiniteSet(t.got \cup {p})
    BY <2>4, FS_AddElement
  <2>7. IsMemory(u.m) /\ IsFiniteSet(u.got)
    BY <2>3, <2>5, <2>6 DEF IsMemory
  <2>8. /\ u.m.bad = m.bad /\ u.ok \in BOOLEAN /\ u.got \in SUBSET Nat
        /\ u.got \cap m.live = {} /\ u.m.live = m.live \cup u.got
    BY <2>2, <2>3, <2>5 DEF Made
  <2> QED BY <2>3, <2>7, <2>8 DEF Made
<1> QED BY <1>1, <1>2

\* The first allocation of a call: one block, or nothing has changed.
LEMMA MallocOne ==
  ASSUME NEW m, IsMemory(m), NEW t, t = malloc(None(m))
  PROVE  /\ Made(m, t)
         /\ t = [m |-> t.m, got |-> t.got, ok |-> t.ok]
         /\ \/ t.ok /\ \E b \in Nat \ m.live : t.got = {b}
            \/ ~t.ok /\ t.got = {} /\ t.m = m
<1>1. /\ None(m).m = m /\ None(m).got = {} /\ None(m).ok = TRUE
      /\ None(m) = [m |-> None(m).m, got |-> None(m).got, ok |-> None(m).ok]
  BY DEF None
<1>2. Made(m, t) /\ t = [m |-> t.m, got |-> t.got, ok |-> t.ok]
  BY <1>1, NoneMade, MallocMakes
<1>3. \/ t.ok /\ \E b \in Nat \ m.live : t.got = {b}
      \/ ~t.ok /\ t.got = {} /\ t.m = m
  <2>1. CASE m.left = 0
    <3>1. t = [None(m) EXCEPT !.ok = FALSE]
      BY <1>1, <2>1 DEF malloc
    <3> QED BY <1>1, <3>1
  <2>2. CASE m.left # 0
    <3>1. t.got = {} \cup {Fresh(m)} /\ t.ok = TRUE
      BY <1>1, <2>2 DEF malloc
    <3> QED BY <3>1, FreshExists
  <2> QED BY <2>1, <2>2
<1> QED BY <1>2, <1>3

\* Giving back allocated blocks leaves the others.
LEMMA ReleaseMemory ==
  ASSUME NEW m, IsMemory(m), NEW blocks, blocks \subseteq m.live,
         NEW r, r = release(m, blocks)
  PROVE  IsMemory(r) /\ r.live = m.live \ blocks /\ r.bad = m.bad /\ r.left = m.left
<1>1. r = [m EXCEPT !.live = @ \ blocks, !.bad = @ \/ ~(blocks \subseteq m.live)]
  BY DEF release
<1>2. m \in Memory /\ IsFiniteSet(m.live)
  BY DEF IsMemory
<1>3. r \in Memory /\ r.live = m.live \ blocks /\ r.bad = m.bad /\ r.left = m.left
  BY <1>1, <1>2 DEF Memory
<1>4. IsFiniteSet(m.live \ blocks)
  BY <1>2, FS_Difference
<1> QED BY <1>3, <1>4 DEF IsMemory

\* A call that fails gives back what it made.
LEMMA ReleaseMade ==
  ASSUME NEW m, IsMemory(m), NEW t, Made(m, t), NEW r, r = release(t.m, t.got)
  PROVE  IsMemory(r) /\ r.live = m.live /\ r.bad = m.bad
<1>1. IsMemory(t.m) /\ t.got \subseteq t.m.live
  BY DEF Made
<1>2. IsMemory(r) /\ r.live = t.m.live \ t.got /\ r.bad = t.m.bad
  BY <1>1, ReleaseMemory
<1>3. m.live = t.m.live \ t.got
  BY DEF Made
<1> QED BY <1>2, <1>3 DEF Made

\* node_alloc makes the blocks of the node, or nothing has changed.
LEMMA NodeAlloc ==
  ASSUME NEW m, IsMemory(m), NEW values, NEW r, r = node_alloc(m, values)
  PROVE  /\ IsMemory(r.m) /\ r.m.bad = m.bad
         /\ r.node \in SUBSET Nat /\ IsFiniteSet(r.node)
         /\ r.node \cap m.live = {}
         /\ r.m.live = m.live \cup r.node
<1> DEFINE two == malloc(malloc(None(m)))
           t   == IF values THEN malloc(two) ELSE two
<1>1. Made(m, two) /\ two = [m |-> two.m, got |-> two.got, ok |-> two.ok]
  BY MallocOne, MallocMakes
<1> HIDE DEF two
<1>2. Made(m, t)
  BY <1>1, MallocMakes
<1>3. r = IF t.ok THEN [m |-> t.m, node |-> t.got]
                  ELSE [m |-> release(t.m, t.got), node |-> {}]
  BY DEF node_alloc, node_cleanup, two
<1> HIDE DEF t
<1>4. CASE t.ok
  BY <1>2, <1>3, <1>4 DEF Made
<1>5. CASE ~t.ok
  <2>1. r.m = release(t.m, t.got) /\ r.node = {}
    BY <1>3, <1>5
  <2> QED BY <2>1, <1>2, ReleaseMade, FS_EmptySet
<1> QED BY <1>4, <1>5

-----------------------------------------------------------------------------
(* The ledger, block by block, of the blocks L that are allocated, the      *)
(* skiparrays A, the builders B and the folds F.                            *)

InArrays(x, A) == \E p \in DOMAIN A : x \in Blocks(A[p])

InBuilder(x, b) == x = b.block \/ x \in Blocks(b.sa)

InBuilders(x, B) == \E b \in B : InBuilder(x, b)

InFolds(x, F) == \E f \in F : x \in f.blocks

Ledger(L, A, B, F) ==
  /\ \A x : x \in L <=> InArrays(x, A) \/ InBuilders(x, B) \/ InFolds(x, F)
  /\ \A p \in DOMAIN A : Split(A[p])
  /\ \A p, q \in DOMAIN A : \A x : x \in Blocks(A[p]) /\ x \in Blocks(A[q]) => p = q
  /\ \A b \in B : Split(b.sa) /\ b.block \notin Blocks(b.sa)
  /\ \A x : ~(InArrays(x, A) /\ InBuilders(x, B))
  /\ \A x : ~(InArrays(x, A) /\ InFolds(x, F))
  /\ \A x : ~(InBuilders(x, B) /\ InFolds(x, F))

\* LedgerExact says the same, before a step
LEMMA LedgerMeans == LedgerExact <=> Ledger(live, arrays, built, fold)
<1>1. \A x : x \in BlocksOfArrays <=> InArrays(x, arrays)
  BY DEF BlocksOfArrays, InArrays
<1>2. \A x : x \in BlocksOfBuilder <=> InBuilders(x, built)
  BY DEF BlocksOfBuilder, InBuilders, InBuilder
<1>3. \A x : x \in BlocksOfFold <=> InFolds(x, fold)
  BY DEF BlocksOfFold, InFolds
<1> QED BY <1>1, <1>2, <1>3 DEF LedgerExact, Ledger, Apart

\* and after it.
LEMMA LedgerMeansNext == LedgerExact' <=> Ledger(live', arrays', built', fold')
<1>1. \A x : x \in BlocksOfArrays' <=> InArrays(x, arrays')
  BY DEF BlocksOfArrays, InArrays
<1>2. \A x : x \in BlocksOfBuilder' <=> InBuilders(x, built')
  BY DEF BlocksOfBuilder, InBuilders, InBuilder
<1>3. \A x : x \in BlocksOfFold' <=> InFolds(x, fold')
  BY DEF BlocksOfFold, InFolds
<1> QED BY <1>1, <1>2, <1>3 DEF LedgerExact, Ledger, Apart

\* The skiparrays A with sa at p, and without what is at p.
Plus(A, p, sa) == [q \in DOMAIN A \cup {p} |-> IF q = p THEN sa ELSE A[q]]

Minus(A, p) == [q \in DOMAIN A \ {p} |-> A[q]]

\* A skiparray of blocks that were not allocated is added,
LEMMA LedgerPlus ==
  ASSUME NEW L, NEW A, NEW B, NEW F, Ledger(L, A, B, F),
         NEW p, p \notin DOMAIN A, NEW sa, Split(sa), Blocks(sa) \cap L = {},
         NEW M, M = L \cup Blocks(sa)
  PROVE  Ledger(M, Plus(A, p, sa), B, F)
<1> DEFINE P == Plus(A, p, sa)
<1>1. /\ DOMAIN P = DOMAIN A \cup {p} /\ P[p] = sa
      /\ \A q \in DOMAIN A : P[q] = A[q]
  BY DEF Plus
<1> HIDE DEF P
<1>2. \A x : InArrays(x, P) <=> InArrays(x, A) \/ x \in Blocks(sa)
  BY <1>1 DEF InArrays
<1>3. \A x : x \in Blocks(sa) => ~InArrays(x, A) /\ ~InBuilders(x, B) /\ ~InFolds(x, F)
  BY DEF Ledger
<1>4. \A x : x \in M <=> InArrays(x, P) \/ InBuilders(x, B) \/ InFolds(x, F)
  BY <1>2 DEF Ledger
<1>5. \A q \in DOMAIN P : Split(P[q])
  BY <1>1 DEF Ledger
<1>6. ASSUME NEW q \in DOMAIN P, NEW r \in DOMAIN P, NEW x,
             x \in Blocks(P[q]), x \in Blocks(P[r])
      PROVE  q = r
  BY <1>1, <1>3, <1>6 DEF Ledger, InArrays
<1>7. /\ \A b \in B : Split(b.sa) /\ b.block \notin Blocks(b.sa)
      /\ \A x : ~(InArrays(x, P) /\ InBuilders(x, B))
      /\ \A x : ~(InArrays(x, P) /\ InFolds(x, F))
      /\ \A x : ~(InBuilders(x, B) /\ InFolds(x, F))
  BY <1>2, <1>3 DEF Ledger
<1>8. Ledger(M, P, B, F)
  BY <1>4, <1>5, <1>6, <1>7 DEF Ledger
<1> QED BY <1>8 DEF P

\* or one is freed.
LEMMA LedgerMinus ==
  ASSUME NEW L, NEW A, NEW B, NEW F, Ledger(L, A, B, F),
         NEW p \in DOMAIN A, NEW M, M = L \ Blocks(A[p])
  PROVE  Ledger(M, Minus(A, p), B, F) /\ Blocks(A[p]) \subseteq L
<1> DEFINE P == Minus(A, p)
<1>1. DOMAIN P = DOMAIN A \ {p} /\ \A q \in DOMAIN P : P[q] = A[q]
  BY DEF Minus
<1> HIDE DEF P
<1>2. \A x : InArrays(x, P) <=> InArrays(x, A) /\ x \notin Blocks(A[p])
  BY <1>1 DEF InArrays, Ledger
<1>3. \A x : x \in Blocks(A[p]) => InArrays(x, A)
  BY DEF InArrays
<1>4. \A x : x \in M <=> InArrays(x, P) \/ InBuilders(x, B) \/ InFolds(x, F)
  BY <1>2, <1>3 DEF Ledger
<1>5. Blocks(A[p]) \subseteq L
  BY <1>3 DEF Ledger
<1>6. Ledger(M, P, B, F)
  BY <1>1, <1>2, <1>4 DEF Ledger
<1> QED BY <1>5, <1>6 DEF P

\* So one may take the place of another.
LEMMA LedgerReplace ==
  ASSUME NEW L, NEW A, NEW B, NEW F, Ledger(L, A, B, F),
         NEW p \in DOMAIN A, NEW sa, Split(sa),
         Blocks(sa) \cap (L \ Blocks(A[p])) = {},
         NEW M, M = (L \ Blocks(A[p])) \cup Blocks(sa)
  PROVE  Ledger(M, Plus(A, p, sa), B, F)
<1> DEFINE K == L \ Blocks(A[p])
<1>1. Ledger(K, Minus(A, p), B, F)
  BY LedgerMinus
<1>2. p \notin DOMAIN Minus(A, p)
  BY DEF Minus
<1>3. Ledger(M, Plus(Minus(A, p), p, sa), B, F)
  BY <1>1, <1>2, LedgerPlus
<1>4. Plus(Minus(A, p), p, sa) = Plus(A, p, sa)
  BY DEF Plus, Minus
<1> QED BY <1>3, <1>4

\* A builder is added,
LEMMA LedgerBuilder ==
  ASSUME NEW L, NEW A, NEW F, Ledger(L, A, {}, F),
         NEW b, Split(b.sa), b.block \notin Blocks(b.sa),
         \A x : InBuilder(x, b) => x \notin L,
         NEW M, M = L \cup {b.block} \cup Blocks(b.sa)
  PROVE  Ledger(M, A, {b}, F)
<1>1. \A x : InBuilders(x, {b}) <=> InBuilder(x, b)
  BY DEF InBuilders
<1>2. \A x : ~InBuilders(x, {})
  BY DEF InBuilders
<1>3. \A x : x \in M <=> x \in L \/ InBuilder(x, b)
  BY DEF InBuilder
<1> QED BY <1>1, <1>2, <1>3 DEF Ledger

\* or goes.
LEMMA LedgerNoBuilder ==
  ASSUME NEW L, NEW A, NEW F, NEW b, Ledger(L, A, {b}, F),
         NEW M, M = L \ ({b.block} \cup Blocks(b.sa))
  PROVE  /\ Ledger(M, A, {}, F) /\ {b.block} \cup Blocks(b.sa) \subseteq L
         /\ Split(b.sa) /\ b.block \notin Blocks(b.sa)
<1>1. \A x : InBuilders(x, {b}) <=> InBuilder(x, b)
  BY DEF InBuilders
<1>2. \A x : ~InBuilders(x, {})
  BY DEF InBuilders
<1>3. \A x : x \in M <=> x \in L /\ ~InBuilder(x, b)
  BY DEF InBuilder
<1>4. \A x : InBuilder(x, b) => x \in L
  BY <1>1 DEF Ledger
<1>5. {b.block} \cup Blocks(b.sa) \subseteq L
  BY <1>4 DEF InBuilder
<1> QED BY <1>1, <1>2, <1>3, <1>5 DEF Ledger

\* A fold starts,
LEMMA LedgerFold ==
  ASSUME NEW L, NEW A, NEW B, Ledger(L, A, B, {}),
         NEW f, f.blocks \cap L = {}, NEW M, M = L \cup f.blocks
  PROVE  Ledger(M, A, B, {f})
<1>1. \A x : InFolds(x, {f}) <=> x \in f.blocks
  BY DEF InFolds
<1>2. \A x : ~InFolds(x, {})
  BY DEF InFolds
<1> QED BY <1>1, <1>2 DEF Ledger

\* or ends.
LEMMA LedgerNoFold ==
  ASSUME NEW L, NEW A, NEW B, NEW f, Ledger(L, A, B, {f}),
         NEW M, M = L \ f.blocks
  PROVE  Ledger(M, A, B, {}) /\ f.blocks \subseteq L
<1>1. \A x : InFolds(x, {f}) <=> x \in f.blocks
  BY DEF InFolds
<1>2. \A x : ~InFolds(x, {})
  BY DEF InFolds
<1> QED BY <1>1, <1>2 DEF Ledger

-----------------------------------------------------------------------------
(* Skiparrays. *)

SA == [values : BOOLEAN, block : Nat, nodes : SUBSET SUBSET Nat,
       iters : SUBSET Nat, empty : BOOLEAN]

\* r is what skiparray_new gives when it makes sa.
MakesArray(m, r, sa) ==
  /\ r.sa = {sa} /\ sa.iters = {} /\ Split(sa)
  /\ Blocks(sa) \cap m.live = {}
  /\ r.m.live = m.live \cup Blocks(sa)

\* What skiparray_new makes: a skiparray of blocks that were not allocated, or
\* nothing.
LEMMA SkiparrayNew ==
  ASSUME NEW m, IsMemory(m), NEW cfg, cfg.values \in BOOLEAN,
         NEW r, r = skiparray_new(m, cfg)
  PROVE  /\ IsMemory(r.m) /\ r.m.bad = m.bad
         /\ \/ r.sa = {} /\ r.m.live = m.live
            \/ \E sa \in SA : MakesArray(m, r, sa)
<1> DEFINE t    == malloc(None(m))
           root == node_alloc(t.m, cfg.values)
           Made1(b) == [values |-> cfg.values, block |-> b, nodes |-> {root.node},
                        iters |-> {}, empty |-> TRUE]
<1>1. /\ Made(m, t)
      /\ \/ t.ok /\ \E b \in Nat \ m.live : t.got = {b}
         \/ ~t.ok /\ t.got = {} /\ t.m = m
  BY MallocOne
<1>2. r = IF ~t.ok THEN [m |-> t.m, sa |-> {}]
          ELSE IF root.node = {} THEN [m |-> release(root.m, t.got), sa |-> {}]
          ELSE [m |-> root.m, sa |-> {Made1(b) : b \in t.got}]
  BY DEF skiparray_new
<1> HIDE DEF t
<1>3. IsMemory(t.m) /\ t.m.bad = m.bad /\ t.m.live = m.live \cup t.got
      /\ t.got \cap m.live = {}
  BY <1>1 DEF Made
<1>4. /\ IsMemory(root.m) /\ root.m.bad = t.m.bad
      /\ root.node \in SUBSET Nat
      /\ root.node \cap t.m.live = {} /\ root.m.live = t.m.live \cup root.node
  BY <1>3, NodeAlloc
<1> HIDE DEF root
<1>5. CASE ~t.ok
  BY <1>1, <1>2, <1>5
<1>6. CASE t.ok /\ root.node = {}
  <2>1. r.m = release(root.m, t.got) /\ r.sa = {}
    BY <1>2, <1>6
  <2>2. t.got \subseteq root.m.live
    BY <1>3, <1>4
  <2>3. IsMemory(r.m) /\ r.m.live = root.m.live \ t.got /\ r.m.bad = root.m.bad
    BY <2>1, <2>2, <1>4, ReleaseMemory
  <2>4. r.m.live = m.live
    BY <2>3, <1>3, <1>4, <1>6
  <2> QED BY <2>1, <2>3, <2>4, <1>3, <1>4
<1>7. CASE t.ok /\ root.node # {}
  <2>1. PICK b \in Nat \ m.live : t.got = {b}
    BY <1>1, <1>7
  <2> DEFINE sa == Made1(b)
  <2>2. r.m = root.m /\ r.sa = {sa}
    BY <1>2, <1>7, <2>1
  <2>3. sa \in SA /\ sa.iters = {} /\ sa.block = b /\ sa.nodes = {root.node}
    BY <1>4 DEF SA
  <2> HIDE DEF sa
  <2>4. Blocks(sa) = {b} \cup root.node
    BY <2>3 DEF Blocks
  <2>5. Split(sa)
    BY <2>1, <2>3, <1>3, <1>4 DEF Split
  <2>6. Blocks(sa) \cap m.live = {} /\ r.m.live = m.live \cup Blocks(sa)
    BY <2>1, <2>2, <2>4, <1>3, <1>4
  <2>7. MakesArray(m, r, sa)
    BY <2>2, <2>3, <2>5, <2>6 DEF MakesArray
  <2>8. IsMemory(r.m) /\ r.m.bad = m.bad
    BY <2>2, <1>3, <1>4
  <2> QED BY <2>3, <2>7, <2>8
<1> QED BY <1>5, <1>6, <1>7

\* skiparray_free gives back the blocks of the skiparray, each once.
LEMMA SkiparrayFree ==
  ASSUME NEW m, IsMemory(m), NEW sa, Split(sa), Blocks(sa) \subseteq m.live,
         NEW r, r = skiparray_free(m, sa)
  PROVE  IsMemory(r) /\ r.live = m.live \ Blocks(sa) /\ r.bad = m.bad
<1> DEFINE nodes == UNION sa.nodes
           r1 == release(m, nodes)
           r2 == release(r1, sa.iters)
<1>1. r = release(r2, {sa.block})
  BY DEF skiparray_free
<1>2. /\ Blocks(sa) = {sa.block} \cup sa.iters \cup nodes
      /\ sa.block \notin sa.iters \cup nodes /\ sa.iters \cap nodes = {}
  BY DEF Blocks, Split
<1> HIDE DEF nodes
<1>3. IsMemory(r1) /\ r1.live = m.live \ nodes /\ r1.bad = m.bad
  BY <1>2, ReleaseMemory
<1> HIDE DEF r1
<1>4. sa.iters \subseteq r1.live
  BY <1>2, <1>3
<1>5. IsMemory(r2) /\ r2.live = r1.live \ sa.iters /\ r2.bad = r1.bad
  BY <1>3, <1>4, ReleaseMemory
<1> HIDE DEF r2
<1>6. {sa.block} \subseteq r2.live
  BY <1>2, <1>3, <1>5
<1>7. IsMemory(r) /\ r.live = r2.live \ {sa.block} /\ r.bad = r2.bad
  BY <1>1, <1>5, <1>6, ReleaseMemory
<1> QED BY <1>2, <1>3, <1>5, <1>7

\* A node more, of blocks that were not allocated, or one less keeps the blocks
\* apart.
LEMMA GrowSplit ==
  ASSUME NEW sa \in SA, Split(sa), NEW grown, grown.node \in SUBSET Nat,
         grown.node \cap Blocks(sa) = {}, NEW s, s = Grow(sa, grown)
  PROVE  /\ s \in SA /\ Split(s) /\ Blocks(s) = Blocks(sa) \cup grown.node
         /\ s.iters = sa.iters
<1>1. /\ s = [sa EXCEPT !.nodes = @ \cup {grown.node}]
  BY DEF Grow
<1>2. /\ s \in SA /\ s.block = sa.block /\ s.iters = sa.iters
      /\ s.nodes = sa.nodes \cup {grown.node}
  BY <1>1 DEF SA
<1>3. UNION s.nodes = (UNION sa.nodes) \cup grown.node
  <2>1. \A x : (\E n \in s.nodes : x \in n) <=> (\E n \in sa.nodes : x \in n) \/ x \in grown.node
    BY <1>2
  <2>2. \A x : x \in UNION s.nodes <=> x \in (UNION sa.nodes) \cup grown.node
    BY <2>1, Zenon
  <2> QED BY <2>2, Zenon
<1>4. Blocks(s) = Blocks(sa) \cup grown.node
  BY <1>2, <1>3 DEF Blocks
<1>5. \A n \in sa.nodes : n \cap grown.node = {}
  BY DEF Blocks
<1>6. \A n1, n2 \in s.nodes : n1 # n2 => n1 \cap n2 = {}
  BY <1>2, <1>5 DEF Split
<1>7. /\ s.block \notin s.iters \cup UNION s.nodes
      /\ s.iters \cap UNION s.nodes = {}
  BY <1>2, <1>3 DEF Split, Blocks
<1> QED BY <1>2, <1>4, <1>6, <1>7 DEF Split

\* One node less keeps them apart too.
LEMMA ShrinkSplit ==
  ASSUME NEW sa \in SA, Split(sa), NEW node \in sa.nodes,
         NEW s, s = [sa EXCEPT !.nodes = @ \ {node}]
  PROVE  /\ s \in SA /\ Split(s) /\ Blocks(s) = Blocks(sa) \ node
         /\ s.iters = sa.iters /\ node \subseteq Blocks(sa)
<1>1. /\ s \in SA /\ s.block = sa.block /\ s.iters = sa.iters
      /\ s.nodes = sa.nodes \ {node}
  BY DEF SA
<1>2. UNION s.nodes = (UNION sa.nodes) \ node
  <2>1. \A n \in sa.nodes : n # node => n \cap node = {}
    BY DEF Split
  <2>2. ASSUME NEW x
        PROVE  (\E n \in s.nodes : x \in n) <=> (\E n \in sa.nodes : x \in n) /\ x \notin node
    BY <1>1, <2>1
  <2>3. \A x : x \in UNION s.nodes <=> x \in (UNION sa.nodes) \ node
    BY <2>2, Zenon
  <2> QED BY <2>3, Zenon
<1>3. node \subseteq UNION sa.nodes
  OBVIOUS
<1>4. Blocks(s) = Blocks(sa) \ node /\ node \subseteq Blocks(sa)
  BY <1>1, <1>2, <1>3 DEF Blocks, Split
<1>5. Split(s)
  BY <1>1, <1>2 DEF Split
<1> QED BY <1>1, <1>4, <1>5

\* Iterators more or less.
LEMMA ItersSplit ==
  ASSUME NEW sa \in SA, Split(sa), NEW X \in SUBSET Nat,
         X \cap (Blocks(sa) \ sa.iters) = {},
         NEW s, s = [sa EXCEPT !.iters = X]
  PROVE  /\ s \in SA /\ Split(s) /\ Blocks(s) = (Blocks(sa) \ sa.iters) \cup X
         /\ s.iters = X
<1>1. /\ s \in SA /\ s.block = sa.block /\ s.iters = X /\ s.nodes = sa.nodes
  BY DEF SA
<1>2. Blocks(sa) \ sa.iters = {sa.block} \cup UNION sa.nodes
  BY DEF Blocks, Split
<1>3. Blocks(s) = {sa.block} \cup X \cup UNION sa.nodes
  BY <1>1, Zenon DEF Blocks
<1>4. Blocks(s) = (Blocks(sa) \ sa.iters) \cup X
  BY <1>2, <1>3
<1>5. Split(s)
  BY <1>1, <1>2 DEF Split
<1> QED BY <1>1, <1>5, <1>4

-----------------------------------------------------------------------------
(* The inductive invariant: the types and the ledger, and that whatever     *)
(* names an iterator names one that is in the list of its skiparray.        *)

ABuilder == [block : Nat, sa : SA]

Types(L, A, B, F, H) ==
  /\ L \in SUBSET Nat /\ IsFiniteSet(L)
  /\ DOMAIN A \subseteq Handles /\ A \in [DOMAIN A -> SA]
  /\ B \subseteq ABuilder /\ \A b, c \in B : b = c
  /\ F \subseteq [blocks : SUBSET Nat, iters : SUBSET Nat, of : Seq(Handles)]
  /\ \A f, g \in F : f = g
  /\ H \subseteq [block : Nat, sa : Handles]

\* An iterator in a list is the client's or the fold's and not both, a fold has
\* iterators on just the skiparrays it is over, a builder has none.
Refs(A, B, F, H) ==
  /\ \A h \in H : h.sa \in DOMAIN A /\ h.block \in A[h.sa].iters
  /\ \A f \in F : \A i \in f.iters :
       \E p \in DOMAIN A : i \in A[p].iters /\ p \in Range(f.of)
  /\ \A f \in F, h \in H : h.block \notin f.iters
  /\ \A p \in DOMAIN A : \A i \in A[p].iters :
       \/ \E h \in H : h.sa = p /\ h.block = i
       \/ \E f \in F : i \in f.iters
  /\ \A b \in B : b.sa.iters = {}

World(L, A, B, F, H) ==
  Types(L, A, B, F, H) /\ Ledger(L, A, B, F) /\ Refs(A, B, F, H)

LifetimesInv == World(live, arrays, built, fold, held) /\ bad = FALSE

\* A new skiparray.
LEMMA WorldPlus ==
  ASSUME NEW L, NEW A, NEW B, NEW F, NEW H, World(L, A, B, F, H),
         NEW p \in Handles \ DOMAIN A,
         NEW sa \in SA, Split(sa), sa.iters = {}, Blocks(sa) \cap L = {},
         NEW M, M = L \cup Blocks(sa), M \in SUBSET Nat, IsFiniteSet(M)
  PROVE  World(M, Plus(A, p, sa), B, F, H)
<1> DEFINE P == Plus(A, p, sa)
<1>1. Ledger(M, P, B, F)
  BY LedgerPlus DEF World
<1>2. /\ DOMAIN P = DOMAIN A \cup {p} /\ P \in [DOMAIN A \cup {p} -> SA]
      /\ P[p] = sa /\ \A q \in DOMAIN A : P[q] = A[q]
  <2>1. \A q \in DOMAIN A : A[q] \in SA
    BY DEF World, Types
  <2>2. /\ DOMAIN P = DOMAIN A \cup {p} /\ P \in [DOMAIN A \cup {p} -> SA]
        /\ P[p] = sa /\ \A q \in DOMAIN A \ {p} : P[q] = A[q]
    BY <2>1 DEF Plus
  <2> QED BY <2>2
<1> HIDE DEF P
<1>3. Types(M, P, B, F, H)
  BY <1>2 DEF World, Types
<1>4. Refs(P, B, F, H)
  BY <1>2 DEF World, Refs
<1>5. World(M, P, B, F, H)
  BY <1>1, <1>3, <1>4 DEF World
<1> QED BY <1>5 DEF P

\* A skiparray whose nodes change, and not its iterators.
LEMMA WorldKeep ==
  ASSUME NEW L, NEW A, NEW B, NEW F, NEW H, World(L, A, B, F, H),
         NEW p \in DOMAIN A,
         NEW sa \in SA, Split(sa), sa.iters = A[p].iters,
         Blocks(sa) \cap (L \ Blocks(A[p])) = {},
         NEW M, M = (L \ Blocks(A[p])) \cup Blocks(sa), M \in SUBSET Nat, IsFiniteSet(M)
  PROVE  World(M, Plus(A, p, sa), B, F, H)
<1> DEFINE P == Plus(A, p, sa)
<1>1. Ledger(M, P, B, F)
  BY LedgerReplace DEF World
<1>2. /\ DOMAIN P = DOMAIN A /\ P \in [DOMAIN A -> SA]
      /\ P[p] = sa /\ \A q \in DOMAIN A \ {p} : P[q] = A[q]
  <2>1. DOMAIN A \cup {p} = DOMAIN A
    OBVIOUS
  <2>2. \A q \in DOMAIN A : A[q] \in SA
    BY DEF World, Types
  <2>3. /\ DOMAIN P = DOMAIN A \cup {p} /\ P \in [DOMAIN A \cup {p} -> SA]
        /\ P[p] = sa /\ \A q \in DOMAIN A \ {p} : P[q] = A[q]
    BY <2>2 DEF Plus
  <2> QED BY <2>1, <2>3
<1> HIDE DEF P
<1>3. Types(M, P, B, F, H)
  BY <1>2 DEF World, Types
<1>4. \A q \in DOMAIN A : P[q].iters = A[q].iters
  BY <1>2
<1>5. Refs(P, B, F, H)
  BY <1>2, <1>4 DEF World, Refs
<1>6. World(M, P, B, F, H)
  BY <1>1, <1>3, <1>5 DEF World
<1> QED BY <1>6 DEF P

\* A skiparray is freed, that no fold is over.
LEMMA WorldMinus ==
  ASSUME NEW L, NEW A, NEW B, NEW F, NEW H, World(L, A, B, F, H),
         NEW p \in DOMAIN A, \A f \in F : p \notin Range(f.of),
         NEW M, M = L \ Blocks(A[p]),
         NEW K, K = {h \in H : h.sa # p}
  PROVE  World(M, Minus(A, p), B, F, K)
<1> DEFINE P == Minus(A, p)
<1>1. Ledger(M, P, B, F)
  BY LedgerMinus DEF World
<1>2. /\ DOMAIN P = DOMAIN A \ {p} /\ P \in [DOMAIN P -> SA]
      /\ \A q \in DOMAIN P : P[q] = A[q]
  BY DEF Minus, World, Types
<1> HIDE DEF P
<1>3. M \in SUBSET Nat /\ IsFiniteSet(M)
  BY FS_Difference DEF World, Types
<1>4. Types(M, P, B, F, K)
  BY <1>2, <1>3 DEF World, Types
<1>5. Refs(P, B, F, K)
  BY <1>2 DEF World, Refs
<1>6. World(M, P, B, F, K)
  BY <1>1, <1>4, <1>5 DEF World
<1> QED BY <1>6 DEF P

\* The client gets an iterator,
LEMMA WorldIterPlus ==
  ASSUME NEW L, NEW A, NEW B, NEW F, NEW H, World(L, A, B, F, H),
         NEW p \in DOMAIN A, NEW i \in Nat \ L,
         NEW sa, sa = [A[p] EXCEPT !.iters = @ \cup {i}],
         NEW M, M = L \cup {i}, NEW K, K = H \cup {[block |-> i, sa |-> p]}
  PROVE  World(M, Plus(A, p, sa), B, F, K)
<1> DEFINE P == Plus(A, p, sa)
           X == A[p].iters \cup {i}
<1>1. A[p] \in SA /\ Split(A[p]) /\ A[p].iters \in SUBSET Nat /\ p \in Handles
  BY DEF World, Types, Ledger, SA
<1>2. Blocks(A[p]) \subseteq L
  BY DEF World, Ledger, InArrays
<1>3. X \in SUBSET Nat /\ X \cap (Blocks(A[p]) \ A[p].iters) = {}
  BY <1>1, <1>2
<1>4. A[p].iters \subseteq Blocks(A[p])
  BY DEF Blocks
<1>5. /\ sa \in SA /\ Split(sa) /\ Blocks(sa) = (Blocks(A[p]) \ A[p].iters) \cup X
      /\ sa.iters = X
  <2>1. sa = [A[p] EXCEPT !.iters = X]
    OBVIOUS
  <2> HIDE DEF X
  <2> QED BY <2>1, <1>1, <1>3, ItersSplit
<1>6. Blocks(sa) = Blocks(A[p]) \cup {i}
  BY <1>4, <1>5
<1>7. M = (L \ Blocks(A[p])) \cup Blocks(sa) /\ Blocks(sa) \cap (L \ Blocks(A[p])) = {}
  BY <1>2, <1>6
<1>8. Ledger(M, P, B, F)
  BY <1>5, <1>7, LedgerReplace DEF World
<1>9. /\ DOMAIN P = DOMAIN A /\ P \in [DOMAIN A -> SA]
      /\ P[p] = sa /\ \A q \in DOMAIN A \ {p} : P[q] = A[q]
  <2>1. DOMAIN A \cup {p} = DOMAIN A
    OBVIOUS
  <2>2. \A q \in DOMAIN A : A[q] \in SA
    BY DEF World, Types
  <2>3. /\ DOMAIN P = DOMAIN A \cup {p} /\ P \in [DOMAIN A \cup {p} -> SA]
        /\ P[p] = sa /\ \A q \in DOMAIN A \ {p} : P[q] = A[q]
    BY <2>2, <1>5 DEF Plus
  <2> QED BY <2>1, <2>3
<1>10. M \in SUBSET Nat /\ IsFiniteSet(M)
  BY FS_AddElement DEF World, Types
<1> HIDE DEF P
<1>11. Types(M, P, B, F, K)
  BY <1>1, <1>9, <1>10 DEF World, Types
<1>12. \A f \in F : i \notin f.iters
  BY DEF World, Ledger, Refs, InArrays, Blocks
<1>13. /\ P[p].iters = A[p].iters \cup {i}
       /\ \A q \in DOMAIN A : q # p => P[q].iters = A[q].iters
  BY <1>5, <1>9
<1>14. Refs(P, B, F, K)
  <2>1. \A q \in DOMAIN A : A[q].iters \subseteq P[q].iters
    BY <1>13
  <2>2. \A k \in K : k.sa \in DOMAIN P /\ k.block \in P[k.sa].iters
    <3>1. \A k \in H : k.sa \in DOMAIN P /\ k.block \in P[k.sa].iters
      BY <1>9, <2>1 DEF World, Refs
    <3>2. p \in DOMAIN P /\ i \in P[p].iters
      BY <1>9, <1>13
    <3> QED BY <3>1, <3>2
  <2>3. \A f \in F : \A j \in f.iters :
          \E q \in DOMAIN P : j \in P[q].iters /\ q \in Range(f.of)
    BY <1>9, <2>1 DEF World, Refs
  <2>4. \A f \in F, k \in K : k.block \notin f.iters
    BY <1>12 DEF World, Refs
  <2>5. \A q \in DOMAIN P : \A j \in P[q].iters :
          \/ \E k \in K : k.sa = q /\ k.block = j
          \/ \E f \in F : j \in f.iters
    <3>1. SUFFICES ASSUME NEW q \in DOMAIN A, NEW j \in P[q].iters,
                          \A f \in F : j \notin f.iters
                   PROVE  \E k \in K : k.sa = q /\ k.block = j
      BY <1>9
    <3>2. CASE j \in A[q].iters
      <4>1. PICK k \in H : k.sa = q /\ k.block = j
        BY <3>1, <3>2 DEF World, Refs
      <4> QED BY <4>1
    <3>3. CASE j \notin A[q].iters
      <4>1. q = p /\ j = i
        BY <3>3, <1>13
      <4>2. [block |-> i, sa |-> p] \in K
        OBVIOUS
      <4> QED BY <4>1, <4>2
    <3> QED BY <3>2, <3>3
  <2> QED BY <2>2, <2>3, <2>4, <2>5 DEF World, Refs
<1>15. World(M, P, B, F, K)
  BY <1>8, <1>11, <1>14 DEF World
<1> QED BY <1>15 DEF P

\* or frees one.
LEMMA WorldIterMinus ==
  ASSUME NEW L, NEW A, NEW B, NEW F, NEW H, World(L, A, B, F, H),
         NEW h \in H,
         NEW sa, sa = [A[h.sa] EXCEPT !.iters = @ \ {h.block}],
         NEW M, M = L \ {h.block}, NEW K, K = H \ {h}
  PROVE  /\ World(M, Plus(A, h.sa, sa), B, F, K)
         /\ h.block \in L /\ h.sa \in DOMAIN A
<1> DEFINE p == h.sa
           P == Plus(A, p, sa)
           X == A[p].iters \ {h.block}
<1>1. /\ p \in DOMAIN A /\ h.block \in A[p].iters
      /\ h = [block |-> h.block, sa |-> h.sa]
  BY DEF World, Refs, Types
<1>2. A[p] \in SA /\ Split(A[p]) /\ A[p].iters \in SUBSET Nat
  BY <1>1 DEF World, Types, Ledger, SA
<1> HIDE DEF p
<1>3. Blocks(A[p]) \subseteq L
  BY <1>1 DEF World, Ledger, InArrays
<1>4. A[p].iters \subseteq Blocks(A[p])
  BY DEF Blocks
<1>5. /\ sa \in SA /\ Split(sa) /\ Blocks(sa) = (Blocks(A[p]) \ A[p].iters) \cup X
      /\ sa.iters = X
  <2>1. sa = [A[p] EXCEPT !.iters = X]
    BY DEF p
  <2>2. X \in SUBSET Nat /\ X \cap (Blocks(A[p]) \ A[p].iters) = {}
    BY <1>2
  <2> HIDE DEF X
  <2> QED BY <2>1, <2>2, <1>2, ItersSplit
<1>6. Blocks(sa) = Blocks(A[p]) \ {h.block}
  BY <1>1, <1>4, <1>5
<1>7. /\ M = (L \ Blocks(A[p])) \cup Blocks(sa) /\ Blocks(sa) \cap (L \ Blocks(A[p])) = {}
      /\ h.block \in L
  BY <1>1, <1>3, <1>4, <1>6
<1>8. Ledger(M, P, B, F)
  BY <1>1, <1>5, <1>7, LedgerReplace DEF World
<1>9. /\ DOMAIN P = DOMAIN A /\ P \in [DOMAIN A -> SA]
      /\ P[p] = sa /\ \A q \in DOMAIN A \ {p} : P[q] = A[q]
  <2>1. DOMAIN A \cup {p} = DOMAIN A
    BY <1>1
  <2>2. \A q \in DOMAIN A : A[q] \in SA
    BY DEF World, Types
  <2>3. /\ DOMAIN P = DOMAIN A \cup {p} /\ P \in [DOMAIN A \cup {p} -> SA]
        /\ P[p] = sa /\ \A q \in DOMAIN A \ {p} : P[q] = A[q]
    BY <2>2, <1>5 DEF Plus
  <2> QED BY <2>1, <2>3
<1>10. M \in SUBSET Nat /\ IsFiniteSet(M)
  BY FS_Difference DEF World, Types
<1> HIDE DEF P
<1>11. Types(M, P, B, F, K)
  BY <1>9, <1>10 DEF World, Types
<1>12. /\ P[p].iters = A[p].iters \ {h.block}
       /\ \A q \in DOMAIN A : q # p => P[q].iters = A[q].iters
  BY <1>5, <1>9
<1>13. \A k \in K : k.block # h.block
  <2>1. SUFFICES ASSUME NEW k \in H, k.block = h.block PROVE k = h
    OBVIOUS
  <2>2. k.sa \in DOMAIN A /\ k.block \in A[k.sa].iters /\ k = [block |-> k.block, sa |-> k.sa]
    BY DEF World, Refs, Types
  <2>3. k.block \in Blocks(A[k.sa]) /\ h.block \in Blocks(A[p])
    BY <1>1, <2>2 DEF Blocks
  <2>4. k.sa = p
    BY <1>1, <2>1, <2>2, <2>3 DEF World, Ledger
  <2> QED BY <1>1, <2>1, <2>2, <2>4 DEF p
<1>14. Refs(P, B, F, K)
  <2>1. \A k \in K : k.sa \in DOMAIN P /\ k.block \in P[k.sa].iters
    BY <1>9, <1>12, <1>13 DEF World, Refs
  <2>2. \A f \in F : \A i \in f.iters :
          \E q \in DOMAIN P : i \in P[q].iters /\ q \in Range(f.of)
    <3> TAKE f \in F
    <3> TAKE i \in f.iters
    <3>1. PICK q \in DOMAIN A : i \in A[q].iters /\ q \in Range(f.of)
      BY DEF World, Refs
    <3>2. i # h.block
      BY DEF World, Refs
    <3> QED BY <3>1, <3>2, <1>9, <1>12
  <2>3. \A q \in DOMAIN P : \A i \in P[q].iters :
          \/ \E k \in K : k.sa = q /\ k.block = i
          \/ \E f \in F : i \in f.iters
    <3>1. SUFFICES ASSUME NEW q \in DOMAIN A, NEW i \in P[q].iters,
                          \A f \in F : i \notin f.iters
                   PROVE  \E k \in K : k.sa = q /\ k.block = i
      BY <1>9
    <3>2. i \in A[q].iters /\ (q = p => i # h.block)
      BY <1>9, <1>12
    <3>3. PICK k \in H : k.sa = q /\ k.block = i
      BY <3>1, <3>2 DEF World, Refs
    <3>4. k # h
      BY <3>2, <3>3 DEF p
    <3> QED BY <3>3, <3>4
  <2> QED BY <2>1, <2>2, <2>3 DEF World, Refs
<1>15. World(M, P, B, F, K)
  BY <1>8, <1>11, <1>14 DEF World
<1> QED BY <1>1, <1>7, <1>15 DEF P, p

\* A builder is made,
LEMMA WorldBuilder ==
  ASSUME NEW L, NEW A, NEW F, NEW H, World(L, A, {}, F, H),
         NEW b \in ABuilder,
         Split(b.sa), b.sa.iters = {}, b.block \notin Blocks(b.sa),
         b.block \notin L, Blocks(b.sa) \cap L = {},
         NEW M, M = L \cup {b.block} \cup Blocks(b.sa), M \in SUBSET Nat, IsFiniteSet(M)
  PROVE  World(M, A, {b}, F, H)
<1>1. \A x : InBuilder(x, b) => x \notin L
  BY DEF InBuilder
<1>2. Ledger(M, A, {b}, F)
  BY <1>1, LedgerBuilder DEF World
<1>3. Types(M, A, {b}, F, H)
  BY DEF World, Types
<1>4. Refs(A, {b}, F, H)
  BY DEF World, Refs
<1> QED BY <1>2, <1>3, <1>4 DEF World

\* or goes.
LEMMA WorldNoBuilder ==
  ASSUME NEW L, NEW A, NEW F, NEW H, NEW b, World(L, A, {b}, F, H)
  PROVE  /\ World(L \ ({b.block} \cup Blocks(b.sa)), A, {}, F, H)
         /\ {b.block} \cup Blocks(b.sa) \subseteq L
         /\ b \in ABuilder /\ b.sa.iters = {}
         /\ Split(b.sa) /\ b.block \notin Blocks(b.sa)
<1> DEFINE M == L \ ({b.block} \cup Blocks(b.sa))
<1>1. /\ Ledger(M, A, {}, F) /\ {b.block} \cup Blocks(b.sa) \subseteq L
      /\ Split(b.sa) /\ b.block \notin Blocks(b.sa)
  BY LedgerNoBuilder DEF World
<1> HIDE DEF M
<1>2. M \in SUBSET Nat /\ IsFiniteSet(M)
  BY FS_Difference DEF World, Types, M
<1>3. Types(M, A, {}, F, H) /\ b \in ABuilder
  BY <1>2 DEF World, Types
<1>4. Refs(A, {}, F, H) /\ b.sa.iters = {}
  BY DEF World, Refs
<1>5. World(M, A, {}, F, H)
  BY <1>1, <1>3, <1>4 DEF World
<1> QED BY <1>1, <1>3, <1>4, <1>5 DEF M

\* The skiparrays A without the iterators X.
Freed(A, X) == [p \in DOMAIN A |-> [A[p] EXCEPT !.iters = @ \ X]]

\* Iterators in the lists are freed.
LEMMA LedgerFreed ==
  ASSUME NEW L, NEW A, NEW B, NEW F, Ledger(L, A, B, F),
         \A p \in DOMAIN A : A[p] \in SA,
         NEW X, \A i \in X : \E p \in DOMAIN A : i \in A[p].iters
  PROVE  /\ Ledger(L \ X, Freed(A, X), B, F) /\ X \subseteq L
         /\ \A p \in DOMAIN A : /\ Freed(A, X)[p] \in SA
                                /\ Freed(A, X)[p].iters = A[p].iters \ X
<1> DEFINE P == Freed(A, X)
           M == L \ X
<1>1. /\ DOMAIN P = DOMAIN A
      /\ \A p \in DOMAIN A : P[p] = [A[p] EXCEPT !.iters = A[p].iters \ X]
  BY DEF Freed
<1> HIDE DEF P
<1>2. ASSUME NEW p \in DOMAIN A
      PROVE  /\ X \cap (Blocks(A[p]) \ A[p].iters) = {}
             /\ A[p].iters \subseteq Blocks(A[p])
  <2>1. A[p].iters \subseteq Blocks(A[p])
    BY DEF Blocks
  <2>2. SUFFICES ASSUME NEW i \in X, i \in Blocks(A[p])
                 PROVE  i \in A[p].iters
    BY <2>1
  <2>3. PICK q \in DOMAIN A : i \in A[q].iters
    OBVIOUS
  <2>4. i \in Blocks(A[q])
    BY <2>3 DEF Blocks
  <2> QED BY <2>2, <2>3, <2>4 DEF Ledger
<1>3. ASSUME NEW p \in DOMAIN A
      PROVE  /\ P[p] \in SA /\ P[p].iters = A[p].iters \ X
             /\ Split(P[p]) /\ Blocks(P[p]) = Blocks(A[p]) \ X
  <2> DEFINE Y == A[p].iters \ X
  <2>1. A[p] \in SA /\ Split(A[p]) /\ A[p].iters \in SUBSET Nat
    BY DEF Ledger, SA
  <2>2. Y \in SUBSET Nat /\ Y \cap (Blocks(A[p]) \ A[p].iters) = {}
    BY <2>1
  <2>3. P[p] = [A[p] EXCEPT !.iters = Y]
    BY <1>1
  <2>4. /\ P[p] \in SA /\ Split(P[p])
        /\ Blocks(P[p]) = (Blocks(A[p]) \ A[p].iters) \cup Y
        /\ P[p].iters = Y
    <3> HIDE DEF Y
    <3> QED BY <2>1, <2>2, <2>3, ItersSplit
  <2>5. Blocks(P[p]) = Blocks(A[p]) \ X
    BY <1>2, <2>4
  <2> QED BY <2>4, <2>5
<1>4. \A x : InArrays(x, P) <=> InArrays(x, A) /\ x \notin X
  BY <1>1, <1>3 DEF InArrays
<1>5. \A x \in X : InArrays(x, A)
  BY DEF InArrays, Blocks
<1>6. \A x : x \in M <=> InArrays(x, P) \/ InBuilders(x, B) \/ InFolds(x, F)
  BY <1>4, <1>5 DEF Ledger
<1>7. X \subseteq L
  BY <1>5 DEF Ledger
<1>8. \A p, q \in DOMAIN P : \A x : x \in Blocks(P[p]) /\ x \in Blocks(P[q]) => p = q
  BY <1>1, <1>3 DEF Ledger
<1>9. \A p \in DOMAIN P : Split(P[p])
  BY <1>1, <1>3
<1>10. Ledger(M, P, B, F)
  BY <1>4, <1>6, <1>8, <1>9 DEF Ledger
<1> QED BY <1>3, <1>7, <1>10 DEF P

\* What is left of a fold when the iterators X have met their ends.
Left(f, X) == [f EXCEPT !.iters = @ \ X]

\* The world stays in order when iterators of the fold are freed, and taken out
\* of the lists of their skiparrays.
LEMMA WorldFreed ==
  ASSUME NEW L, NEW A, NEW B, NEW H, NEW f, World(L, A, B, {f}, H),
         NEW X \in SUBSET f.iters
  PROVE  World(L \ X, Freed(A, X), B, {Left(f, X)}, H) /\ X \subseteq L
<1> DEFINE P == Freed(A, X)
           M == L \ X
           g == Left(f, X)
<1>1. /\ \A p \in DOMAIN A : A[p] \in SA
      /\ f \in [blocks : SUBSET Nat, iters : SUBSET Nat, of : Seq(Handles)]
  BY DEF World, Types
<1>2. \A i \in f.iters : \E p \in DOMAIN A : i \in A[p].iters /\ p \in Range(f.of)
  BY DEF World, Refs
<1>3. /\ Ledger(M, P, B, {f}) /\ X \subseteq L
      /\ \A p \in DOMAIN A : P[p] \in SA /\ P[p].iters = A[p].iters \ X
  <2>1. Ledger(L, A, B, {f})
    BY DEF World
  <2>2. \A i \in X : \E p \in DOMAIN A : i \in A[p].iters
    BY <1>2
  <2> QED BY <1>1, <2>1, <2>2, LedgerFreed
<1>4. /\ g \in [blocks : SUBSET Nat, iters : SUBSET Nat, of : Seq(Handles)]
      /\ g.iters = f.iters \ X /\ g.of = f.of /\ g.blocks = f.blocks
  BY <1>1 DEF Left
<1> HIDE DEF g
<1>5. DOMAIN P = DOMAIN A /\ P \in [DOMAIN A -> SA]
  BY <1>3 DEF Freed
<1> HIDE DEF P
<1>6. \A x : InFolds(x, {g}) <=> InFolds(x, {f})
  BY <1>4 DEF InFolds
<1>7. Ledger(M, P, B, {g})
  BY <1>3, <1>6 DEF Ledger
<1>8. M \in SUBSET Nat /\ IsFiniteSet(M)
  BY FS_Difference DEF World, Types
<1> HIDE DEF M
<1>9. Types(M, P, B, {g}, H)
  BY <1>4, <1>5, <1>8 DEF World, Types
<1>10. Refs(P, B, {g}, H)
  <2>1. \A h \in H : h.block \notin f.iters
    BY DEF World, Refs
  <2>2. \A h \in H : h.sa \in DOMAIN P /\ h.block \in P[h.sa].iters
    BY <1>3, <1>5, <2>1 DEF World, Refs
  <2>3. \A i \in g.iters : \E p \in DOMAIN P : i \in P[p].iters /\ p \in Range(g.of)
    BY <1>2, <1>3, <1>4, <1>5
  <2>4. \A p \in DOMAIN P : \A i \in P[p].iters :
          (\E h \in H : h.sa = p /\ h.block = i) \/ i \in g.iters
    BY <1>3, <1>4, <1>5 DEF World, Refs
  <2>5. \A b \in B : b.sa.iters = {}
    BY DEF World, Refs
  <2> QED BY <2>1, <2>2, <2>3, <2>4, <2>5, <1>4 DEF Refs
<1>11. World(M, P, B, {g}, H)
  BY <1>7, <1>9, <1>10 DEF World
<1> QED BY <1>3, <1>11 DEF P, M, g

\* A fold that has no iterators left ends.
LEMMA WorldNoFold ==
  ASSUME NEW L, NEW A, NEW B, NEW H, NEW f, World(L, A, B, {f}, H),
         f.iters = {}, NEW M, M = L \ f.blocks
  PROVE  World(M, A, B, {}, H) /\ f.blocks \subseteq L
<1>1. Ledger(M, A, B, {}) /\ f.blocks \subseteq L
  BY LedgerNoFold DEF World
<1>2. M \in SUBSET Nat /\ IsFiniteSet(M)
  BY FS_Difference DEF World, Types
<1>3. Types(M, A, B, {}, H)
  BY <1>2 DEF World, Types
<1>4. Refs(A, B, {}, H)
  BY DEF World, Refs
<1> QED BY <1>1, <1>3, <1>4 DEF World

-----------------------------------------------------------------------------
(* The iterators of a fold. *)

\* r is what iter_new gives when it gets the block i.
Gets(m, sa, r, i) ==
  /\ ~sa.empty /\ r.got = {i} /\ r.sa = [sa EXCEPT !.iters = @ \cup {i}]
  /\ IsMemory(r.m) /\ r.m.bad = m.bad /\ r.m.live = m.live \cup {i}

\* A new iterator of an address that was not allocated, or nothing changes.
LEMMA IterNewMakes ==
  ASSUME NEW m, IsMemory(m), NEW sa \in SA, NEW r, r = iter_new(m, sa)
  PROVE  /\ r.sa \in SA /\ r.sa.empty = sa.empty
         /\ \/ r.got = {} /\ r.m = m /\ r.sa = sa
            \/ \E i \in Nat \ m.live : Gets(m, sa, r, i)
<1> DEFINE t == malloc(None(m))
<1>1. /\ Made(m, t)
      /\ \/ t.ok /\ \E b \in Nat \ m.live : t.got = {b}
         \/ ~t.ok /\ t.got = {} /\ t.m = m
  BY MallocOne
<1>2. r = IF sa.empty THEN [m |-> m, sa |-> sa, got |-> {}]
          ELSE [m |-> t.m, sa |-> [sa EXCEPT !.iters = @ \cup t.got], got |-> t.got]
  BY DEF iter_new
<1> HIDE DEF t
<1>3. CASE sa.empty
  <2>1. r.m = m /\ r.got = {} /\ r.sa = sa
    BY <1>2, <1>3
  <2> QED BY <2>1
<1>4. CASE ~sa.empty /\ t.got = {}
  <2>1. r.m = m /\ r.got = {} /\ r.sa = [sa EXCEPT !.iters = @ \cup {}]
    BY <1>1, <1>2, <1>4
  <2>2. [sa EXCEPT !.iters = @ \cup {}] = sa
    <3>1. sa.iters \cup {} = sa.iters
      OBVIOUS
    <3> QED BY <3>1 DEF SA
  <2> QED BY <2>1, <2>2
<1>5. CASE ~sa.empty /\ t.got # {}
  <2>1. PICK i \in Nat \ m.live : t.got = {i}
    BY <1>1, <1>5
  <2>2. r.m = t.m /\ r.got = {i} /\ r.sa = [sa EXCEPT !.iters = @ \cup {i}]
    BY <1>2, <1>5, <2>1
  <2>3. IsMemory(t.m) /\ t.m.bad = m.bad /\ t.m.live = m.live \cup {i}
    BY <1>1, <2>1 DEF Made
  <2>4. r.sa \in SA /\ r.sa.empty = sa.empty
    BY <2>1, <2>2 DEF SA
  <2>5. Gets(m, sa, r, i)
    BY <1>5, <2>2, <2>3 DEF Gets
  <2> QED BY <2>1, <2>4, <2>5
<1> QED BY <1>3, <1>4, <1>5

\* The fold that owns the blocks X and no iterators yet.
Owner(X) == [blocks |-> X]

\* What fold_iters has done to the skiparrays A, from the memory m on, for the
\* skiparrays at R: iterators were added, each on one of them.
FoldMade(m, A, B, X, R, w) ==
  /\ IsMemory(w.m) /\ w.m.bad = m.bad
  /\ w.iters \cap m.live = {} /\ w.m.live = m.live \cup w.iters
  /\ \A p \in DOMAIN A :
       /\ w.arrays[p] = [A[p] EXCEPT !.iters = w.arrays[p].iters]
       /\ w.arrays[p].iters \ w.iters = A[p].iters
  /\ \A i \in w.iters : \E p \in DOMAIN A : i \in w.arrays[p].iters /\ p \in R
  /\ Ledger(w.m.live, w.arrays, B, {Owner(X)})

FoldIters(A) ==
  [m : Memory, arrays : [DOMAIN A -> SA], iters : SUBSET Nat, ok : BOOLEAN]

\* One more skiparray.
LEMMA FoldIterMade ==
  ASSUME NEW m, NEW A, NEW B, NEW X, NEW R,
         NEW w \in FoldIters(A), FoldMade(m, A, B, X, R, w),
         NEW p \in DOMAIN A, p \in R,
         NEW v, v = fold_iter(w, p)
  PROVE  v \in FoldIters(A) /\ FoldMade(m, A, B, X, R, v)
<1> DEFINE r == iter_new(w.m, w.arrays[p])
<1>1. v = IF ~w.ok THEN w
          ELSE [m |-> r.m, arrays |-> [w.arrays EXCEPT ![p] = r.sa],
                iters |-> w.iters \cup r.got, ok |-> r.sa.empty \/ r.got # {}]
  BY DEF fold_iter
<1>2. /\ w.arrays \in [DOMAIN A -> SA] /\ w.arrays[p] \in SA /\ IsMemory(w.m)
      /\ w.m \in Memory /\ w.iters \in SUBSET Nat /\ w.ok \in BOOLEAN
      /\ w.arrays[p].iters \in SUBSET Nat
  BY DEF FoldIters, FoldMade, SA
<1>3. /\ r.sa \in SA /\ r.sa.empty = w.arrays[p].empty
      /\ \/ r.got = {} /\ r.m = w.m /\ r.sa = w.arrays[p]
         \/ \E i \in Nat \ w.m.live : Gets(w.m, w.arrays[p], r, i)
  BY <1>2, IterNewMakes
<1> HIDE DEF r
<1>4. CASE ~w.ok
  BY <1>1, <1>4
<1>5. CASE w.ok /\ r.got = {}
  <2>1. \A i : ~Gets(w.m, w.arrays[p], r, i)
    <3>1. \A i : Gets(w.m, w.arrays[p], r, i) => r.got = {i}
      BY DEF Gets
    <3> QED BY <3>1, <1>5
  <2>2. r.m = w.m /\ r.sa = w.arrays[p]
    BY <1>3, <1>5, <2>1
  <2>3. [w.arrays EXCEPT ![p] = w.arrays[p]] = w.arrays /\ w.iters \cup {} = w.iters
    BY <1>2
  <2>4. /\ v = [m |-> w.m, arrays |-> w.arrays, iters |-> w.iters, ok |-> v.ok]
        /\ v.ok \in BOOLEAN
    BY <1>1, <1>5, <2>2, <2>3
  <2>5. v.m = w.m /\ v.arrays = w.arrays /\ v.iters = w.iters
    BY <2>4
  <2> QED BY <1>2, <2>4, <2>5 DEF FoldIters, FoldMade
<1>6. CASE w.ok /\ r.got # {}
  <2>1. PICK i \in Nat \ w.m.live : Gets(w.m, w.arrays[p], r, i)
    BY <1>3, <1>6
  <2>2. /\ i \in Nat \ w.m.live
        /\ r.got = {i} /\ r.sa = [w.arrays[p] EXCEPT !.iters = @ \cup {i}]
        /\ IsMemory(r.m) /\ r.m.bad = w.m.bad /\ r.m.live = w.m.live \cup {i}
    BY <2>1 DEF Gets
  <2> DEFINE Y == w.arrays[p].iters \cup {i}
             N == [w.arrays EXCEPT ![p] = r.sa]
  <2>3. v = [m |-> r.m, arrays |-> N, iters |-> w.iters \cup {i}, ok |-> TRUE]
    BY <1>1, <1>6, <2>2
  <2>4. /\ DOMAIN N = DOMAIN A /\ N \in [DOMAIN A -> SA] /\ N[p] = r.sa
        /\ \A q \in DOMAIN A \ {p} : N[q] = w.arrays[q]
    BY <1>2, <1>3
  <2>5. N = Plus(w.arrays, p, r.sa)
    BY <1>2 DEF Plus
  <2> HIDE DEF N
  <2>6. v \in FoldIters(A)
    BY <1>2, <2>2, <2>3, <2>4 DEF FoldIters, IsMemory
  <2>7. v.m = r.m /\ v.arrays = N /\ v.iters = w.iters \cup {i}
    BY <2>3
  <2>8. /\ Split(w.arrays[p]) /\ Blocks(w.arrays[p]) \subseteq w.m.live
        /\ w.arrays[p].iters \subseteq Blocks(w.arrays[p])
    BY <1>2 DEF FoldMade, Ledger, InArrays, Blocks
  <2>9. Y \in SUBSET Nat /\ Y \cap (Blocks(w.arrays[p]) \ w.arrays[p].iters) = {}
    BY <1>2, <2>2, <2>8
  <2>10. r.sa = [w.arrays[p] EXCEPT !.iters = Y]
    BY <2>2
  <2>11. /\ Split(r.sa) /\ r.sa.iters = Y
         /\ Blocks(r.sa) = (Blocks(w.arrays[p]) \ w.arrays[p].iters) \cup Y
    <3> HIDE DEF Y
    <3> QED BY <1>2, <2>8, <2>9, <2>10, ItersSplit
  <2>12. Blocks(r.sa) = Blocks(w.arrays[p]) \cup {i}
    BY <2>8, <2>11
  <2>13. /\ r.m.live = (w.m.live \ Blocks(w.arrays[p])) \cup Blocks(r.sa)
         /\ Blocks(r.sa) \cap (w.m.live \ Blocks(w.arrays[p])) = {}
    BY <2>2, <2>8, <2>12
  <2>14. Ledger(v.m.live, v.arrays, B, {Owner(X)})
    <3>1. Ledger(w.m.live, w.arrays, B, {Owner(X)}) /\ p \in DOMAIN w.arrays
      BY <1>2 DEF FoldMade
    <3>2. Ledger(r.m.live, Plus(w.arrays, p, r.sa), B, {Owner(X)})
      BY <3>1, <2>11, <2>13, LedgerReplace
    <3> QED BY <3>2, <2>5, <2>7
  <2>15. /\ IsMemory(v.m) /\ v.m.bad = m.bad
         /\ v.iters \cap m.live = {} /\ v.m.live = m.live \cup v.iters
    BY <2>2, <2>7 DEF FoldMade
  <2>16. ASSUME NEW q \in DOMAIN A
         PROVE  /\ v.arrays[q] = [A[q] EXCEPT !.iters = v.arrays[q].iters]
                /\ v.arrays[q].iters \ v.iters = A[q].iters
    <3>1. /\ w.arrays[q] = [A[q] EXCEPT !.iters = w.arrays[q].iters]
          /\ w.arrays[q].iters \ w.iters = A[q].iters
      BY DEF FoldMade
    <3>2. CASE q = p
      <4>1. v.arrays[q] = r.sa /\ v.arrays[q].iters = Y
        BY <2>4, <2>7, <2>11, <3>2
      <4>2. r.sa = [A[q] EXCEPT !.iters = Y]
        BY <2>10, <3>1, <3>2
      <4>3. i \notin A[q].iters
        BY <2>2, <2>8, <3>1, <3>2
      <4>4. Y \ (w.iters \cup {i}) = A[q].iters
        BY <3>1, <3>2, <4>3
      <4> QED BY <2>7, <4>1, <4>2, <4>4
    <3>3. CASE q # p
      <4>1. v.arrays[q] = w.arrays[q]
        BY <2>4, <2>7, <3>3
      <4>2. w.arrays[q].iters \subseteq w.m.live
        BY <1>2 DEF FoldMade, Ledger, InArrays, Blocks
      <4>3. i \notin w.arrays[q].iters
        BY <2>2, <4>2
      <4> QED BY <2>7, <3>1, <4>1, <4>3
    <3> QED BY <3>2, <3>3
  <2>17. \A j \in v.iters : \E q \in DOMAIN A : j \in v.arrays[q].iters /\ q \in R
    <3>1. \A q \in DOMAIN A : w.arrays[q].iters \subseteq v.arrays[q].iters
      BY <2>4, <2>7, <2>11
    <3>2. i \in v.arrays[p].iters
      BY <2>4, <2>7, <2>11
    <3> QED BY <2>7, <3>1, <3>2 DEF FoldMade
  <2> QED BY <2>6, <2>14, <2>15, <2>16, <2>17 DEF FoldMade
<1> QED BY <1>4, <1>5, <1>6

\* fold_iters makes iterators, each on one of the skiparrays it was given.
LEMMA FoldItersMade ==
  ASSUME NEW m, IsMemory(m), NEW B, NEW X,
         \A p \in DOMAIN arrays : arrays[p] \in SA,
         arrays \in [DOMAIN arrays -> SA],
         Ledger(m.live, arrays, B, {Owner(X)}),
         NEW n \in Nat, NEW sas \in [1 .. n -> DOMAIN arrays],
         NEW w, w = fold_iters(m, sas)
  PROVE  w \in FoldIters(arrays) /\ FoldMade(m, arrays, B, X, Range(sas), w)
<1> DEFINE S == {v \in FoldIters(arrays) : FoldMade(m, arrays, B, X, Range(sas), v)}
           none == [m |-> m, arrays |-> arrays, iters |-> {}, ok |-> TRUE]
           Is(f) == f = [i \in 0 .. Len(sas) |->
                          IF i = 0 THEN none ELSE fold_iter(f[i - 1], sas[i])]
           f == CHOOSE f : Is(f)
           step == [p \in Nat \X S |->
                     IF p[1] + 1 <= n THEN fold_iter(p[2], sas[p[1] + 1]) ELSE p[2]]
<1>1. Len(sas) = n
  BY LenProperties
<1>2. none \in S
  <2>1. none \in FoldIters(arrays)
    BY DEF FoldIters, IsMemory
  <2>2. /\ none.m = m /\ none.arrays = arrays /\ none.iters = {}
    OBVIOUS
  <2>3. \A p \in DOMAIN arrays :
          /\ arrays[p] = [arrays[p] EXCEPT !.iters = arrays[p].iters]
          /\ arrays[p].iters \ {} = arrays[p].iters
    BY DEF SA
  <2> HIDE DEF none
  <2>4. FoldMade(m, arrays, B, X, Range(sas), none)
    BY <2>2, <2>3 DEF FoldMade
  <2> QED BY <2>1, <2>4
<1>3. ASSUME NEW v \in S, NEW i \in 1 .. n
      PROVE  fold_iter(v, sas[i]) \in S
  <2>1. sas[i] \in DOMAIN arrays /\ sas[i] \in Range(sas)
    BY DEF Range
  <2> QED BY <2>1, FoldIterMade
<1>4. step \in [Nat \X S -> S]
  <2>1. ASSUME NEW p \in Nat \X S
        PROVE  (IF p[1] + 1 <= n THEN fold_iter(p[2], sas[p[1] + 1]) ELSE p[2]) \in S
    <3>1. p[1] \in Nat /\ p[2] \in S
      OBVIOUS
    <3> HIDE DEF S
    <3>2. CASE p[1] + 1 <= n
      <4>1. p[1] + 1 \in 1 .. n
        BY <3>1, <3>2
      <4> QED BY <3>1, <3>2, <4>1, <1>3
    <3>3. CASE ~(p[1] + 1 <= n)
      BY <3>1, <3>3
    <3> QED BY <3>2, <3>3
  <2> HIDE DEF S
  <2> QED BY <2>1
<1> HIDE DEF S, none
<1>5. \E g : Is(g)
  <2> HIDE DEF step
  <2>1. PICK g \in [Nat -> S] : \A k \in Nat : Recurs(g, k, none, step)
    BY <1>2, <1>4, RecursionExists
  <2> DEFINE h == [i \in 0 .. n |-> g[i]]
  <2>2. ASSUME NEW i \in 0 .. n
        PROVE  g[i] = IF i = 0 THEN none ELSE fold_iter(h[i - 1], sas[i])
    <3>1. CASE i = 0
      <4>1. Recurs(g, 0, none, step)
        BY <2>1
      <4> QED BY <3>1, <4>1 DEF Recurs
    <3>2. CASE i # 0
      <4>1. i - 1 \in Nat /\ i \in Nat /\ i - 1 \in 0 .. i - 1 /\ i - 1 \in 0 .. n
            /\ (i - 1) + 1 = i /\ i <= n
        BY <3>2
      <4>2. g[(i - 1) + 1] = step[<<i - 1, g[i - 1]>>]
        BY <2>1, <4>1 DEF Recurs
      <4>3. <<i - 1, g[i - 1]>> \in Nat \X S
        BY <4>1
      <4>4. step[<<i - 1, g[i - 1]>>] = fold_iter(g[i - 1], sas[i])
        BY <4>1, <4>3 DEF step
      <4>5. h[i - 1] = g[i - 1]
        BY <4>1
      <4> QED BY <3>2, <4>1, <4>2, <4>4, <4>5
    <3> QED BY <3>1, <3>2
  <2>3. Is(h)
    BY <1>1, <2>2
  <2> QED BY <2>3
<1>6. Is(f)
  <2> HIDE DEF Is
  <2> QED BY <1>5
<1>7. w = f[n]
  BY <1>1 DEF fold_iters, none
<1> HIDE DEF f
<1> DEFINE T == {k \in Nat : k <= n => f[k] \in S}
<1>8. 0 \in T
  BY <1>1, <1>2, <1>6
<1>9. ASSUME NEW k \in Nat, k \in T
      PROVE  k + 1 \in T
  <2>1. SUFFICES ASSUME k + 1 <= n
                 PROVE  f[k + 1] \in S
    OBVIOUS
  <2>2. f[k] \in S /\ k + 1 \in 1 .. n /\ k + 1 \in 0 .. n /\ (k + 1) - 1 = k /\ k + 1 # 0
    BY <1>9, <2>1
  <2>3. f[k + 1] = IF k + 1 = 0 THEN none ELSE fold_iter(f[(k + 1) - 1], sas[k + 1])
    BY <1>1, <1>6, <2>2, Zenon
  <2>4. f[k + 1] = fold_iter(f[k], sas[k + 1])
    BY <2>2, <2>3
  <2> QED BY <1>3, <2>2, <2>4
<1>10. Nat \subseteq T
  <2> HIDE DEF T
  <2> QED BY <1>8, <1>9, NaturalsInSet
<1> QED BY <1>7, <1>10 DEF S

\* A fold starts with the iterators it has made.
LEMMA WorldFold ==
  ASSUME NEW L, NEW A, NEW B, NEW H, World(L, A, B, {}, H),
         NEW X \in SUBSET Nat, NEW m, m.live = L \cup X,
         NEW sas \in Seq(Handles),
         NEW w \in FoldIters(A), FoldMade(m, A, B, X, Range(sas), w),
         NEW f, f = [blocks |-> X, iters |-> w.iters, of |-> sas]
  PROVE  World(w.m.live, w.arrays, B, {f}, H)
<1>1. /\ f.blocks = X /\ f.iters = w.iters /\ f.of = sas
  OBVIOUS
<1>2. /\ w.arrays \in [DOMAIN A -> SA] /\ w.iters \in SUBSET Nat
      /\ DOMAIN w.arrays = DOMAIN A
      /\ w.m.live \in SUBSET Nat /\ IsFiniteSet(w.m.live)
  BY DEF FoldIters, FoldMade, IsMemory, Memory
<1>3. f \in [blocks : SUBSET Nat, iters : SUBSET Nat, of : Seq(Handles)]
  BY <1>2
<1>4. Types(w.m.live, w.arrays, B, {f}, H)
  BY <1>2, <1>3 DEF World, Types
<1>5. Ledger(w.m.live, w.arrays, B, {f})
  <2>1. Owner(X).blocks = X
    BY DEF Owner
  <2>2. \A x : InFolds(x, {f}) <=> InFolds(x, {Owner(X)})
    BY <1>1, <2>1 DEF InFolds
  <2> QED BY <2>2 DEF FoldMade, Ledger
<1>6. \A p \in DOMAIN A : A[p].iters \subseteq L
  BY DEF World, Ledger, InArrays, Blocks
<1>7. \A p \in DOMAIN A : w.arrays[p].iters \ w.iters = A[p].iters
  BY DEF FoldMade
<1>8. \A x \in L : x \notin w.iters
  BY DEF FoldMade
<1>9. Refs(w.arrays, B, {f}, H)
  <2>1. \A h \in H : h.sa \in DOMAIN A /\ h.block \in A[h.sa].iters
    BY DEF World, Refs
  <2>2. \A h \in H : h.sa \in DOMAIN w.arrays /\ h.block \in w.arrays[h.sa].iters
    BY <1>2, <1>7, <2>1
  <2>3. \A h \in H : h.block \notin f.iters
    BY <1>1, <1>6, <1>8, <2>1
  <2>4. \A i \in f.iters :
          \E p \in DOMAIN w.arrays : i \in w.arrays[p].iters /\ p \in Range(f.of)
    BY <1>1, <1>2 DEF FoldMade
  <2>5. ASSUME NEW p \in DOMAIN w.arrays, NEW i \in w.arrays[p].iters, i \notin f.iters
        PROVE  \E h \in H : h.sa = p /\ h.block = i
    <3>1. i \in A[p].iters
      BY <1>1, <1>2, <1>7, <2>5
    <3> QED BY <1>2, <3>1 DEF World, Refs
  <2>6. \A b \in B : b.sa.iters = {}
    BY DEF World, Refs
  <2> QED BY <2>2, <2>3, <2>4, <2>5, <2>6 DEF Refs
<1> QED BY <1>4, <1>5, <1>9 DEF World

\* A fold that cannot start leaves the skiparrays as they were.
LEMMA FoldUndone ==
  ASSUME NEW m, NEW A, A \in [DOMAIN A -> SA], NEW B, NEW X, NEW R,
         NEW w \in FoldIters(A), FoldMade(m, A, B, X, R, w)
  PROVE  Freed(w.arrays, w.iters) = A
<1>1. w.arrays \in [DOMAIN A -> SA] /\ DOMAIN w.arrays = DOMAIN A
  BY DEF FoldIters
<1>2. ASSUME NEW p \in DOMAIN A
      PROVE  [w.arrays[p] EXCEPT !.iters = w.arrays[p].iters \ w.iters] = A[p]
  <2> DEFINE sa == w.arrays[p]
             old == A[p]
  <2>1. sa = [old EXCEPT !.iters = sa.iters] /\ sa.iters \ w.iters = old.iters
        /\ sa \in SA /\ old \in SA
    BY <1>1 DEF FoldMade
  <2> HIDE DEF sa, old
  <2>2. [sa EXCEPT !.iters = old.iters] = old
    BY <2>1 DEF SA
  <2> QED BY <2>1, <2>2 DEF sa, old
<1>3. Freed(w.arrays, w.iters) = [p \in DOMAIN A |-> A[p]]
  BY <1>1, <1>2 DEF Freed
<1> QED BY <1>3

-----------------------------------------------------------------------------
(* The calls: each keeps the invariant, and undoes what it did if it runs   *)
(* out of memory.                                                           *)

FailureUndone ==
  ret' = "MEMORY" => UNCHANGED <<live, bad, arrays, built, fold, held>>

CallGood == LifetimesInv' /\ FailureUndone

\* A call that is refused changes nothing.
LEMMA RefusedGood ==
  ASSUME LifetimesInv, NEW res, Refuse(res)
  PROVE  CallGood
BY DEF Refuse, CallGood, FailureUndone, LifetimesInv

\* The memory a call begins with.
LEMMA MemGood ==
  ASSUME LifetimesInv, NEW left \in Nat
  PROVE  /\ IsMemory(Mem(left)) /\ Mem(left).live = live /\ Mem(left).bad = FALSE
         /\ live \in SUBSET Nat /\ IsFiniteSet(live)
BY DEF LifetimesInv, World, Types, Mem, IsMemory, Memory

\* node_alloc gives a node of blocks that were free, or nothing, and has then freed
\* what it got.
LEMMA AllocGood ==
  ASSUME LifetimesInv, NEW left \in Nat, NEW values
  PROVE  LET grown == node_alloc(Mem(left), values)
         IN  /\ IsMemory(grown.m) /\ grown.m.bad = FALSE
             /\ grown.node \in SUBSET Nat /\ grown.node \cap live = {}
             /\ grown.m.live = live \cup grown.node
<1> DEFINE m == Mem(left)
           grown == node_alloc(m, values)
<1>1. IsMemory(m) /\ m.live = live /\ m.bad = FALSE
  BY MemGood
<1> HIDE DEF m
<1>2. /\ IsMemory(grown.m) /\ grown.m.bad = FALSE
      /\ grown.node \in SUBSET Nat /\ grown.node \cap live = {}
      /\ grown.m.live = live \cup grown.node
  BY <1>1, NodeAlloc
<1> QED BY <1>2 DEF m

\* A client that can keep one more skiparray has a handle for it.
LEMMA UnusedGood ==
  ASSUME LifetimesInv, CanKeepMore
  PROVE  Unused \in Handles \ DOMAIN arrays
<1>1. DOMAIN arrays \subseteq Handles /\ DOMAIN arrays # Handles
  BY DEF LifetimesInv, World, Types, CanKeepMore
<1>2. \E p \in Handles : p \notin DOMAIN arrays
  BY <1>1
<1> QED BY <1>2 DEF Unused

\* skiparray_new makes a skiparray of blocks that were free, or nothing.
LEMMA ArrayGood ==
  ASSUME LifetimesInv, NEW cfg \in Config, NEW left \in Nat,
         NEW r, r = skiparray_new(Mem(left), cfg)
  PROVE  /\ IsMemory(r.m) /\ r.m.bad = FALSE
         /\ \/ r.sa = {} /\ r.m.live = live
            \/ \E sa \in SA : MakesArray(Mem(left), r, sa)
<1> DEFINE m == Mem(left)
<1>1. cfg.values \in BOOLEAN
  BY DEF Config
<1>2. IsMemory(m) /\ m.live = live /\ m.bad = FALSE
  BY MemGood
<1>3. r = skiparray_new(m, cfg)
  OBVIOUS
<1> HIDE DEF m
<1>4. /\ IsMemory(r.m) /\ r.m.bad = m.bad
      /\ \/ r.sa = {} /\ r.m.live = m.live
         \/ \E sa \in SA : MakesArray(m, r, sa)
  BY <1>1, <1>2, <1>3, SkiparrayNew
<1> QED BY <1>2, <1>4 DEF m

\* There is just one.
LEMMA ArrayMade ==
  ASSUME LifetimesInv, NEW left \in Nat, NEW r, NEW sa \in r.sa,
         \/ r.sa = {} /\ r.m.live = live
         \/ \E t \in SA : MakesArray(Mem(left), r, t)
  PROVE  /\ sa \in SA /\ sa.iters = {} /\ Split(sa)
         /\ Blocks(sa) \cap live = {} /\ r.m.live = live \cup Blocks(sa)
<1>1. PICK t \in SA : MakesArray(Mem(left), r, t)
  OBVIOUS
<1>2. r.sa = {t}
  BY <1>1 DEF MakesArray
<1>3. sa = t
  BY <1>2
<1>4. Mem(left).live = live
  BY MemGood
<1> QED BY <1>1, <1>3, <1>4 DEF MakesArray

\* Nothing has changed if there is none.
LEMMA ArrayNotMade ==
  ASSUME NEW left, NEW r, r.sa = {},
         \/ r.sa = {} /\ r.m.live = live
         \/ \E t \in SA : MakesArray(Mem(left), r, t)
  PROVE  r.m.live = live
<1>1. \A t : ~MakesArray(Mem(left), r, t)
  <2>1. \A t : MakesArray(Mem(left), r, t) => r.sa = {t}
    BY DEF MakesArray
  <2> QED BY <2>1
<1> QED BY <1>1

\* skiparray_new: a skiparray, or the blocks it got are freed again.
LEMMA NewGood ==
  ASSUME LifetimesInv, NEW cfg \in Config, NEW left \in Nat, New(cfg, left)
  PROVE  CallGood
<1> DEFINE r == skiparray_new(Mem(left), cfg)
<1>1. CASE ~cfg.given /\ Refuse("NULL")
  BY <1>1, RefusedGood
<1>2. CASE cfg.given /\ ~Valid(cfg) /\ Refuse("CONFIG")
  BY <1>2, RefusedGood
<1>3. CASE /\ Valid(cfg) /\ CanKeepMore
           /\ Commit(r.m)
           /\ \/ r.sa = {} /\ Answer("MEMORY") /\ UNCHANGED arrays
              \/ \E sa \in r.sa : arrays' = With(Unused, sa) /\ Answer("OK")
           /\ UNCHANGED <<built, fold, held>>
  <2>1. /\ IsMemory(r.m) /\ r.m.bad = FALSE
        /\ \/ r.sa = {} /\ r.m.live = live
           \/ \E sa \in SA : MakesArray(Mem(left), r, sa)
    BY ArrayGood
  <2> HIDE DEF r
  <2>2. live' = r.m.live /\ bad' = FALSE /\ UNCHANGED <<built, fold, held>>
    BY <1>3, <2>1 DEF Commit
  <2>3. CASE r.sa = {} /\ Answer("MEMORY") /\ UNCHANGED arrays
    <3>1. live' = live
      BY <2>1, <2>2, <2>3, ArrayNotMade
    <3> QED BY <2>2, <2>3, <3>1 DEF CallGood, FailureUndone, LifetimesInv
  <2>4. CASE \E sa \in r.sa : arrays' = With(Unused, sa) /\ Answer("OK")
    <3>1. PICK sa \in r.sa : arrays' = With(Unused, sa) /\ Answer("OK")
      BY <2>4
    <3>2. /\ sa \in SA /\ sa.iters = {} /\ Split(sa)
          /\ Blocks(sa) \cap live = {} /\ r.m.live = live \cup Blocks(sa)
      BY <2>1, ArrayMade
    <3>3. arrays' = Plus(arrays, Unused, sa) /\ Unused \in Handles \ DOMAIN arrays
      BY <1>3, <3>1, UnusedGood DEF With, Plus
    <3>4. live' = live \cup Blocks(sa) /\ live' \in SUBSET Nat /\ IsFiniteSet(live')
      BY <2>1, <2>2, <3>2 DEF IsMemory, Memory
    <3>5. World(live, arrays, built, fold, held)
      BY DEF LifetimesInv
    <3>6. World(live', Plus(arrays, Unused, sa), built, fold, held)
      BY <3>2, <3>3, <3>4, <3>5, WorldPlus
    <3>7. LifetimesInv'
      BY <2>2, <3>3, <3>6 DEF LifetimesInv
    <3> QED BY <3>1, <3>7 DEF CallGood, FailureUndone, Answer
  <2> QED BY <1>3, <2>3, <2>4
<1> QED BY <1>1, <1>2, <1>3 DEF New

\* skiparray_free gives back just what the skiparray owns, its iterators with it.
LEMMA FreeGood ==
  ASSUME LifetimesInv, NEW p \in DOMAIN arrays, Free(p)
  PROVE  CallGood
<1> DEFINE r == skiparray_free(Mem(0), arrays[p])
<1>1. World(live, arrays, built, fold, held)
  BY DEF LifetimesInv
<1>2. Split(arrays[p]) /\ Blocks(arrays[p]) \subseteq live
  BY <1>1 DEF World, Ledger, InArrays
<1>3. IsMemory(r) /\ r.live = live \ Blocks(arrays[p]) /\ r.bad = FALSE
  <2> DEFINE m == Mem(0)
  <2>1. IsMemory(m) /\ m.live = live /\ m.bad = FALSE
    BY MemGood
  <2>2. r = skiparray_free(m, arrays[p])
    OBVIOUS
  <2> HIDE DEF m, r
  <2> QED BY <1>2, <2>1, <2>2, SkiparrayFree
<1> HIDE DEF r
<1>4. /\ live' = live \ Blocks(arrays[p]) /\ bad' = FALSE
      /\ arrays' = Minus(arrays, p) /\ held' = {h \in held : h.sa # p}
      /\ UNCHANGED <<built, fold>> /\ ret' = "OK"
  BY <1>3 DEF Free, Commit, Without, Minus, Answer, r
<1>5. \A f \in fold : p \notin Range(f.of)
  BY DEF Free, InFold
<1>6. World(live', Minus(arrays, p), built, fold, held')
  BY <1>1, <1>4, <1>5, WorldMinus
<1>7. LifetimesInv'
  BY <1>4, <1>6 DEF LifetimesInv
<1> QED BY <1>4, <1>7 DEF CallGood, FailureUndone

\* skiparray_set: a new node goes to the skiparray that asked for it.
LEMMA SetGood ==
  ASSUME LifetimesInv, NEW p \in DOMAIN arrays, NEW left \in Nat, Set(p, left)
  PROVE  CallGood
<1> DEFINE sa    == arrays[p]
           grown == node_alloc(Mem(left), sa.values)
<1>1. World(live, arrays, built, fold, held) /\ bad = FALSE
  BY DEF LifetimesInv
<1>2. sa \in SA /\ Split(sa) /\ Blocks(sa) \subseteq live
  BY <1>1 DEF World, Types, Ledger, InArrays
<1>3. /\ IsMemory(grown.m) /\ grown.m.bad = FALSE
      /\ grown.node \in SUBSET Nat /\ grown.node \cap live = {}
      /\ grown.m.live = live \cup grown.node
  BY AllocGood
<1>4. CASE sa.iters # {} /\ Refuse("LOCKED")
  BY <1>4, RefusedGood
<1>5. CASE /\ sa.iters = {}
           /\ arrays' = With(p, [sa EXCEPT !.empty = FALSE])
           /\ Answer("OK")
           /\ UNCHANGED <<live, bad, built, fold, held>>
  <2> DEFINE s == [sa EXCEPT !.empty = FALSE]
  <2>1. /\ s \in SA /\ s.iters = sa.iters /\ s.block = sa.block /\ s.nodes = sa.nodes
    BY <1>2 DEF SA
  <2>2. Split(s) /\ Blocks(s) = Blocks(sa)
    BY <1>2, <2>1 DEF Split, Blocks
  <2>3. live = (live \ Blocks(sa)) \cup Blocks(s) /\ Blocks(s) \cap (live \ Blocks(sa)) = {}
    BY <1>2, <2>2
  <2>4. arrays' = Plus(arrays, p, s)
    BY <1>5 DEF With, Plus
  <2> HIDE DEF s
  <2>5. World(live, Plus(arrays, p, s), built, fold, held)
    BY <1>1, <2>1, <2>2, <2>3, MemGood, WorldKeep
  <2>6. LifetimesInv'
    BY <1>1, <1>5, <2>4, <2>5 DEF LifetimesInv
  <2> QED BY <1>5, <2>6 DEF CallGood, FailureUndone, Answer
<1>6. CASE /\ sa.iters = {} /\ ~sa.empty /\ Cardinality(sa.nodes) < MaxNodes
           /\ Commit(grown.m)
           /\ \/ grown.node = {} /\ Answer("MEMORY") /\ UNCHANGED arrays
              \/ grown.node # {} /\ arrays' = With(p, Grow(sa, grown)) /\ Answer("OK")
           /\ UNCHANGED <<built, fold, held>>
  <2> HIDE DEF grown
  <2>1. live' = live \cup grown.node /\ bad' = FALSE
    BY <1>3, <1>6 DEF Commit
  <2>2. CASE grown.node = {} /\ Answer("MEMORY") /\ UNCHANGED arrays
    <3>1. live' = live
      BY <2>1, <2>2
    <3> QED BY <1>1, <1>6, <2>1, <2>2, <3>1 DEF CallGood, FailureUndone, LifetimesInv
  <2>3. CASE grown.node # {} /\ arrays' = With(p, Grow(sa, grown)) /\ Answer("OK")
    <3> DEFINE s == Grow(sa, grown)
    <3>1. arrays' = Plus(arrays, p, s)
      BY <2>3 DEF With, Plus
    <3> HIDE DEF s
    <3>2. grown.node \cap Blocks(sa) = {}
      BY <1>2, <1>3
    <3>3. /\ s \in SA /\ Split(s) /\ Blocks(s) = Blocks(sa) \cup grown.node
          /\ s.iters = sa.iters
      BY <1>2, <1>3, <3>2, GrowSplit DEF s
    <3>4. /\ live' = (live \ Blocks(sa)) \cup Blocks(s)
          /\ Blocks(s) \cap (live \ Blocks(sa)) = {}
      BY <1>2, <1>3, <2>1, <3>3
    <3>5. live' \in SUBSET Nat /\ IsFiniteSet(live')
      BY <1>3, <2>1 DEF IsMemory, Memory
    <3>6. World(live', Plus(arrays, p, s), built, fold, held)
      BY <1>1, <3>3, <3>4, <3>5, WorldKeep
    <3>7. LifetimesInv'
      BY <1>6, <2>1, <3>1, <3>6 DEF LifetimesInv
    <3> QED BY <2>3, <3>7 DEF CallGood, FailureUndone, Answer
  <2> QED BY <1>6, <2>2, <2>3
<1> QED BY <1>4, <1>5, <1>6 DEF Set

\* skiparray_forget and the pops free a node that the skiparray owned, and not the
\* last one.
LEMMA UnbindGood ==
  ASSUME LifetimesInv, NEW p \in DOMAIN arrays, Unbind(p)
  PROVE  CallGood
<1> DEFINE sa == arrays[p]
<1>1. World(live, arrays, built, fold, held) /\ bad = FALSE
  BY DEF LifetimesInv
<1>2. sa \in SA /\ Split(sa) /\ Blocks(sa) \subseteq live
  BY <1>1 DEF World, Types, Ledger, InArrays
<1>3. CASE sa.iters # {} /\ Refuse("LOCKED")
  BY <1>3, RefusedGood
<1>4. CASE sa.iters = {} /\ Refuse("NOT_FOUND")
  BY <1>4, RefusedGood
<1>5. CASE /\ \E node \in sa.nodes :
                /\ sa.nodes # {node}
                /\ Commit(release(Mem(0), node))
                /\ arrays' = With(p, [sa EXCEPT !.nodes = @ \ {node}])
           /\ Answer("OK")
           /\ UNCHANGED <<built, fold, held>>
  <2>1. PICK node \in sa.nodes :
          /\ Commit(release(Mem(0), node))
          /\ arrays' = With(p, [sa EXCEPT !.nodes = @ \ {node}])
    BY <1>5
  <2> DEFINE s == [sa EXCEPT !.nodes = @ \ {node}]
             r == release(Mem(0), node)
             m == Mem(0)
  <2>2. /\ s \in SA /\ Split(s) /\ Blocks(s) = Blocks(sa) \ node
        /\ s.iters = sa.iters /\ node \subseteq Blocks(sa)
    BY <1>2, ShrinkSplit
  <2>3. arrays' = Plus(arrays, p, s)
    BY <2>1 DEF With, Plus
  <2>4. r = release(m, node) /\ IsMemory(m) /\ m.live = live /\ m.bad = FALSE
    BY MemGood
  <2>5. Commit(r)
    BY <2>1
  <2> HIDE DEF s, r, m
  <2>6. IsMemory(r) /\ r.live = live \ node /\ r.bad = FALSE
    BY <1>2, <2>2, <2>4, ReleaseMemory
  <2>7. /\ live' = live \ node /\ bad' = FALSE
        /\ live' \in SUBSET Nat /\ IsFiniteSet(live')
    BY <2>5, <2>6 DEF Commit, IsMemory, Memory
  <2>8. /\ live' = (live \ Blocks(sa)) \cup Blocks(s)
        /\ Blocks(s) \cap (live \ Blocks(sa)) = {}
    BY <1>2, <2>2, <2>7
  <2>9. World(live', Plus(arrays, p, s), built, fold, held)
    BY <1>1, <2>2, <2>7, <2>8, WorldKeep
  <2>10. LifetimesInv'
    BY <1>5, <2>3, <2>7, <2>9 DEF LifetimesInv
  <2> QED BY <1>5, <2>10 DEF CallGood, FailureUndone, Answer
<1>6. CASE /\ arrays' = With(p, [sa EXCEPT !.empty = TRUE])
           /\ Answer("OK")
           /\ UNCHANGED <<live, bad, built, fold, held>>
  <2> DEFINE s == [sa EXCEPT !.empty = TRUE]
  <2>1. /\ s \in SA /\ s.iters = sa.iters /\ s.block = sa.block /\ s.nodes = sa.nodes
    BY <1>2 DEF SA
  <2>2. Split(s) /\ Blocks(s) = Blocks(sa)
    BY <1>2, <2>1 DEF Split, Blocks
  <2>3. live = (live \ Blocks(sa)) \cup Blocks(s) /\ Blocks(s) \cap (live \ Blocks(sa)) = {}
    BY <1>2, <2>2
  <2>4. arrays' = Plus(arrays, p, s)
    BY <1>6 DEF With, Plus
  <2>5. live \in SUBSET Nat /\ IsFiniteSet(live)
    BY <1>1 DEF World, Types
  <2> HIDE DEF s
  <2>6. World(live, Plus(arrays, p, s), built, fold, held)
    BY <1>1, <2>1, <2>2, <2>3, <2>5, WorldKeep
  <2>7. LifetimesInv'
    BY <1>1, <1>6, <2>4, <2>6 DEF LifetimesInv
  <2> QED BY <1>6, <2>7 DEF CallGood, FailureUndone, Answer
<1> QED BY <1>3, <1>4, <1>5, <1>6 DEF Unbind

\* skiparray_iter_new: the iterator is in the list, and the client's.
LEMMA IterNewGood ==
  ASSUME LifetimesInv, NEW p \in DOMAIN arrays, NEW left \in Nat, IterNew(p, left)
  PROVE  CallGood
<1> DEFINE sa == arrays[p]
           m  == Mem(left)
           r  == iter_new(m, sa)
<1>1. World(live, arrays, built, fold, held) /\ bad = FALSE
  BY DEF LifetimesInv
<1>2. sa \in SA /\ arrays \in [DOMAIN arrays -> SA]
  BY <1>1 DEF World, Types
<1>3. IsMemory(m) /\ m.live = live /\ m.bad = FALSE
  BY MemGood
<1>4. \/ sa.empty /\ Refuse("EMPTY")
      \/ /\ Commit(r.m)
         /\ arrays' = With(p, r.sa)
         /\ held' = held \cup {[block |-> i, sa |-> p] : i \in r.got}
         /\ Answer(IF r.got = {} THEN "MEMORY" ELSE "OK")
         /\ UNCHANGED <<built, fold>>
  BY DEF IterNew
<1> HIDE DEF m
<1>5. /\ \/ r.got = {} /\ r.m = m /\ r.sa = sa
         \/ \E i \in Nat \ m.live : Gets(m, sa, r, i)
  BY <1>2, <1>3, IterNewMakes
<1> HIDE DEF r
<1>6. CASE sa.empty /\ Refuse("EMPTY")
  BY <1>6, RefusedGood
<1>7. CASE /\ Commit(r.m)
           /\ arrays' = With(p, r.sa)
           /\ held' = held \cup {[block |-> i, sa |-> p] : i \in r.got}
           /\ Answer(IF r.got = {} THEN "MEMORY" ELSE "OK")
           /\ UNCHANGED <<built, fold>>
  <2>1. CASE r.got = {} /\ r.m = m /\ r.sa = sa
    <3>1. live' = live /\ bad' = FALSE
      BY <1>3, <1>7, <2>1 DEF Commit
    <3>2. arrays' = arrays
      BY <1>2, <1>7, <2>1 DEF With
    <3>3. held' = held
      BY <1>7, <2>1
    <3> QED BY <1>1, <1>7, <3>1, <3>2, <3>3 DEF CallGood, FailureUndone, LifetimesInv
  <2>2. CASE \E i \in Nat \ m.live : Gets(m, sa, r, i)
    <3>1. PICK i \in Nat \ live : Gets(m, sa, r, i)
      BY <1>3, <2>2
    <3>2. /\ r.got = {i} /\ r.sa = [sa EXCEPT !.iters = @ \cup {i}]
          /\ r.m.bad = FALSE /\ r.m.live = live \cup {i}
      BY <1>3, <3>1 DEF Gets
    <3>3. live' = live \cup {i} /\ bad' = FALSE /\ ret' = "OK"
      BY <1>7, <3>2 DEF Commit, Answer
    <3>4. held' = held \cup {[block |-> i, sa |-> p]}
      BY <1>7, <3>2
    <3>5. arrays' = Plus(arrays, p, r.sa)
      BY <1>7 DEF With, Plus
    <3>6. World(live', Plus(arrays, p, r.sa), built, fold, held')
      BY <1>1, <3>2, <3>3, <3>4, WorldIterPlus
    <3>7. LifetimesInv'
      BY <1>7, <3>3, <3>5, <3>6 DEF LifetimesInv
    <3> QED BY <3>3, <3>7 DEF CallGood, FailureUndone
  <2> QED BY <1>5, <2>1, <2>2
<1> QED BY <1>4, <1>6, <1>7

\* skiparray_iter_free takes the iterator out of the list it is in, and no other.
LEMMA IterFreeGood ==
  ASSUME LifetimesInv, NEW h \in held, IterFree(h)
  PROVE  CallGood
<1> DEFINE m  == Mem(0)
           r  == release(m, {h.block})
           sa == [arrays[h.sa] EXCEPT !.iters = @ \ {h.block}]
           K  == held \ {h}
<1>1. World(live, arrays, built, fold, held) /\ bad = FALSE
  BY DEF LifetimesInv
<1>2. IsMemory(m) /\ m.live = live /\ m.bad = FALSE
  BY MemGood
<1>3. /\ Commit(r) /\ arrays' = Plus(arrays, h.sa, sa) /\ held' = K
      /\ ret' = "OK" /\ UNCHANGED <<built, fold>>
  BY DEF IterFree, With, Plus, Answer
<1>4. /\ World(live \ {h.block}, Plus(arrays, h.sa, sa), built, fold, K)
      /\ h.block \in live
  BY <1>1, WorldIterMinus
<1> HIDE DEF m, sa, K
<1>5. r.live = live \ {h.block} /\ r.bad = FALSE
  BY <1>2, <1>4, ReleaseMemory
<1> HIDE DEF r
<1>6. live' = live \ {h.block} /\ bad' = FALSE
  BY <1>3, <1>5 DEF Commit
<1>7. LifetimesInv'
  BY <1>3, <1>4, <1>6 DEF LifetimesInv
<1> QED BY <1>3, <1>7 DEF CallGood, FailureUndone

\* skiparray_builder_new: the builder and its skiparray, or both are freed again.
LEMMA BuilderNewGood ==
  ASSUME LifetimesInv, NEW cfg \in Config, NEW left \in Nat, BuilderNew(cfg, left)
  PROVE  CallGood
<1> DEFINE r == skiparray_new(Mem(left), cfg)
           m == r.m
           t == malloc(None(m))
<1>1. World(live, arrays, built, fold, held) /\ bad = FALSE
  BY DEF LifetimesInv
<1>2. \/ ~Valid(cfg) /\ Refuse("MISUSE")
      \/ /\ Valid(cfg) /\ built = {}
         /\ \/ r.sa = {} /\ Commit(m) /\ Answer("MEMORY") /\ UNCHANGED built
            \/ \E sa \in r.sa :
                 \/ /\ ~t.ok
                    /\ Commit(skiparray_free(t.m, sa))
                    /\ Answer("MEMORY")
                    /\ UNCHANGED built
                 \/ /\ t.ok
                    /\ Commit(t.m)
                    /\ built' = {[block |-> b, sa |-> sa] : b \in t.got}
                    /\ Answer("OK")
         /\ UNCHANGED <<arrays, fold, held>>
  BY DEF BuilderNew, builder_cleanup
<1>3. /\ IsMemory(r.m) /\ r.m.bad = FALSE
      /\ \/ r.sa = {} /\ r.m.live = live
         \/ \E sa \in SA : MakesArray(Mem(left), r, sa)
  BY ArrayGood
<1> HIDE DEF r
<1>4. IsMemory(m) /\ m.bad = FALSE
  BY <1>3
<1>5. CASE ~Valid(cfg) /\ Refuse("MISUSE")
  BY <1>5, RefusedGood
<1>6. CASE /\ r.sa = {} /\ Commit(m) /\ Answer("MEMORY")
           /\ UNCHANGED <<built, arrays, fold, held>>
  <2>1. live' = live /\ bad' = FALSE
    BY <1>3, <1>6, ArrayNotMade DEF Commit
  <2> QED BY <1>1, <1>6, <2>1 DEF CallGood, FailureUndone, LifetimesInv
<1>7. ASSUME built = {}, NEW sa \in r.sa,
             \/ /\ ~t.ok
                /\ Commit(skiparray_free(t.m, sa))
                /\ Answer("MEMORY")
                /\ UNCHANGED built
             \/ /\ t.ok
                /\ Commit(t.m)
                /\ built' = {[block |-> b, sa |-> sa] : b \in t.got}
                /\ Answer("OK"),
             UNCHANGED <<arrays, fold, held>>
      PROVE  CallGood
  <2>1. /\ sa \in SA /\ sa.iters = {} /\ Split(sa)
        /\ Blocks(sa) \cap live = {} /\ m.live = live \cup Blocks(sa)
    BY <1>3, ArrayMade
  <2> HIDE DEF m
  <2>2. /\ Made(m, t)
        /\ \/ t.ok /\ \E b \in Nat \ m.live : t.got = {b}
           \/ ~t.ok /\ t.got = {} /\ t.m = m
    BY <1>4, MallocOne
  <2> HIDE DEF t
  <2>3. CASE /\ ~t.ok /\ Commit(skiparray_free(t.m, sa))
             /\ Answer("MEMORY") /\ UNCHANGED built
    <3> DEFINE q == skiparray_free(m, sa)
    <3>1. Commit(q)
      BY <2>2, <2>3
    <3>2. Blocks(sa) \subseteq m.live
      BY <2>1
    <3>3. q.live = m.live \ Blocks(sa) /\ q.bad = FALSE
      BY <1>4, <2>1, <3>2, SkiparrayFree
    <3> HIDE DEF q
    <3>4. live' = live /\ bad' = FALSE
      BY <2>1, <3>1, <3>3 DEF Commit
    <3> QED BY <1>1, <1>7, <2>3, <3>4 DEF CallGood, FailureUndone, LifetimesInv
  <2>4. CASE /\ t.ok /\ Commit(t.m)
             /\ built' = {[block |-> b, sa |-> sa] : b \in t.got}
             /\ Answer("OK")
    <3>1. PICK b \in Nat \ m.live : t.got = {b}
      BY <2>2, <2>4
    <3> DEFINE n == [block |-> b, sa |-> sa]
    <3>2. built' = {n}
      BY <2>4, <3>1
    <3>3. /\ n \in ABuilder /\ n.block = b /\ n.sa = sa
      BY <2>1 DEF ABuilder
    <3> HIDE DEF n
    <3>4. /\ live' = m.live \cup {b} /\ bad' = FALSE
          /\ live' \in SUBSET Nat /\ IsFiniteSet(live')
      BY <1>4, <2>2, <2>4, <3>1 DEF Commit, Made, IsMemory, Memory
    <3>5. live' = live \cup {n.block} \cup Blocks(n.sa)
      BY <2>1, <3>3, <3>4
    <3>6. n.block \notin live /\ n.block \notin Blocks(n.sa)
      BY <2>1, <3>1, <3>3
    <3>7. World(live, arrays, {}, fold, held)
      BY <1>1, <1>7
    <3>8. World(live', arrays, {n}, fold, held)
      BY <2>1, <3>3, <3>4, <3>5, <3>6, <3>7, WorldBuilder
    <3>9. LifetimesInv'
      BY <1>7, <3>2, <3>4, <3>8 DEF LifetimesInv
    <3> QED BY <2>4, <3>9 DEF CallGood, FailureUndone, Answer
  <2> QED BY <1>7, <2>3, <2>4
<1> QED BY <1>2, <1>5, <1>6, <1>7

\* There is one builder, and the world without it.
LEMMA TheBuilder ==
  ASSUME LifetimesInv, NEW b \in built,
         NEW M, M = live \ ({b.block} \cup Blocks(b.sa))
  PROVE  /\ built = {b}
         /\ World(M, arrays, {}, fold, held) /\ {b.block} \cup Blocks(b.sa) \subseteq live
         /\ b \in ABuilder /\ b.sa.iters = {}
         /\ Split(b.sa) /\ b.block \notin Blocks(b.sa)
<1>1. built = {b}
  BY DEF LifetimesInv, World, Types
<1>2. World(live, arrays, {b}, fold, held)
  BY <1>1 DEF LifetimesInv
<1>3. /\ World(M, arrays, {}, fold, held) /\ {b.block} \cup Blocks(b.sa) \subseteq live
      /\ b \in ABuilder /\ b.sa.iters = {}
      /\ Split(b.sa) /\ b.block \notin Blocks(b.sa)
  BY <1>2, WorldNoBuilder
<1> QED BY <1>1, <1>3

\* skiparray_builder_append: a new node goes to the skiparray that is built.
LEMMA BuilderAppendGood ==
  ASSUME LifetimesInv, NEW b \in built, NEW left \in Nat, BuilderAppend(b, left)
  PROVE  CallGood
<1> DEFINE grown == node_alloc(Mem(left), b.sa.values)
           L0 == live \ ({b.block} \cup Blocks(b.sa))
<1>1. World(live, arrays, built, fold, held) /\ bad = FALSE
  BY DEF LifetimesInv
<1>2. L0 = live \ ({b.block} \cup Blocks(b.sa))
  OBVIOUS
<1> HIDE DEF L0
<1>3. /\ World(L0, arrays, {}, fold, held) /\ {b.block} \cup Blocks(b.sa) \subseteq live
      /\ b \in ABuilder /\ b.sa.iters = {}
      /\ Split(b.sa) /\ b.block \notin Blocks(b.sa)
  BY <1>2, TheBuilder
<1>4. /\ IsMemory(grown.m) /\ grown.m.bad = FALSE
      /\ grown.node \in SUBSET Nat /\ grown.node \cap live = {}
      /\ grown.m.live = live \cup grown.node
  BY AllocGood
<1>5. CASE ~b.sa.empty /\ Refuse("MISUSE")
  BY <1>5, RefusedGood
<1>6. CASE /\ built' = {[b EXCEPT !.sa.empty = FALSE]}
           /\ Answer("OK")
           /\ UNCHANGED <<live, bad, arrays, fold, held>>
  <2> DEFINE n == [b EXCEPT !.sa.empty = FALSE]
  <2>1. /\ n \in ABuilder /\ n.block = b.block
        /\ n.sa.iters = b.sa.iters /\ n.sa.block = b.sa.block /\ n.sa.nodes = b.sa.nodes
    BY <1>3 DEF SA, ABuilder
  <2> HIDE DEF n
  <2>2. Split(n.sa) /\ Blocks(n.sa) = Blocks(b.sa)
    BY <1>3, <2>1 DEF Split, Blocks
  <2>3. /\ live = L0 \cup {n.block} \cup Blocks(n.sa)
        /\ n.block \notin L0 /\ Blocks(n.sa) \cap L0 = {} /\ n.block \notin Blocks(n.sa)
        /\ n.sa.iters = {}
    BY <1>2, <1>3, <2>1, <2>2
  <2>4. live \in SUBSET Nat /\ IsFiniteSet(live)
    BY <1>1 DEF World, Types
  <2>5. World(live, arrays, {n}, fold, held)
    BY <1>3, <2>1, <2>2, <2>3, <2>4, WorldBuilder
  <2>6. LifetimesInv'
    BY <1>6, <1>1, <2>5 DEF LifetimesInv, n
  <2> QED BY <1>6, <2>6 DEF CallGood, FailureUndone, Answer
<1>7. CASE /\ Commit(grown.m)
           /\ \/ grown.node = {} /\ Answer("MEMORY") /\ UNCHANGED built
              \/ /\ grown.node # {}
                 /\ built' = {[b EXCEPT !.sa = Grow(@, grown)]}
                 /\ Answer("OK")
           /\ UNCHANGED <<arrays, fold, held>>
  <2> HIDE DEF grown
  <2>1. /\ live' = live \cup grown.node /\ bad' = FALSE
        /\ live' \in SUBSET Nat /\ IsFiniteSet(live')
    BY <1>4, <1>7 DEF Commit, IsMemory, Memory
  <2>2. CASE grown.node = {} /\ Answer("MEMORY") /\ UNCHANGED built
    <3>1. live' = live
      BY <2>1, <2>2
    <3> QED BY <1>7, <1>1, <2>1, <2>2, <3>1 DEF CallGood, FailureUndone, LifetimesInv
  <2>3. CASE built' = {[b EXCEPT !.sa = Grow(@, grown)]} /\ Answer("OK")
    <3> DEFINE s == Grow(b.sa, grown)
               n == [b EXCEPT !.sa = s]
    <3>1. built' = {n} /\ b.sa \in SA
      BY <1>3, <2>3 DEF ABuilder
    <3> HIDE DEF s
    <3>2. grown.node \cap Blocks(b.sa) = {}
      BY <1>3, <1>4
    <3>3. /\ s \in SA /\ Split(s) /\ Blocks(s) = Blocks(b.sa) \cup grown.node
          /\ s.iters = b.sa.iters
      BY <1>3, <1>4, <3>1, <3>2, GrowSplit DEF s
    <3>4. n \in ABuilder /\ n.block = b.block /\ n.sa = s
      BY <1>3, <3>3 DEF ABuilder
    <3> HIDE DEF n
    <3>5. /\ live' = L0 \cup {n.block} \cup Blocks(n.sa)
          /\ n.block \notin L0 /\ Blocks(n.sa) \cap L0 = {} /\ n.block \notin Blocks(n.sa)
          /\ n.sa.iters = {} /\ Split(n.sa)
      BY <1>2, <1>3, <1>4, <2>1, <3>3, <3>4
    <3>6. World(live', arrays, {n}, fold, held)
      BY <1>3, <2>1, <3>4, <3>5, WorldBuilder
    <3>7. LifetimesInv'
      BY <1>7, <2>1, <3>1, <3>6 DEF LifetimesInv
    <3> QED BY <2>3, <3>7 DEF CallGood, FailureUndone, Answer
  <2> QED BY <1>7, <2>2, <2>3
<1> QED BY <1>5, <1>6, <1>7 DEF BuilderAppend

\* skiparray_builder_finish hands the skiparray over and frees the builder alone.
LEMMA BuilderFinishGood ==
  ASSUME LifetimesInv, NEW b \in built, BuilderFinish(b)
  PROVE  CallGood
<1> DEFINE m  == Mem(0)
           r  == release(m, {b.block})
           L0 == live \ ({b.block} \cup Blocks(b.sa))
<1>1. L0 = live \ ({b.block} \cup Blocks(b.sa))
  OBVIOUS
<1> HIDE DEF L0
<1>2. /\ World(L0, arrays, {}, fold, held) /\ {b.block} \cup Blocks(b.sa) \subseteq live
      /\ b \in ABuilder /\ b.sa.iters = {}
      /\ Split(b.sa) /\ b.block \notin Blocks(b.sa)
  BY <1>1, TheBuilder
<1>3. IsMemory(m) /\ m.live = live /\ m.bad = FALSE
  BY MemGood
<1>4. /\ CanKeepMore /\ Commit(r) /\ arrays' = Plus(arrays, Unused, b.sa) /\ built' = {}
      /\ ret' = "OK" /\ UNCHANGED <<fold, held>>
  BY DEF BuilderFinish, With, Plus, Answer
<1>5. Unused \in Handles \ DOMAIN arrays
  BY <1>4, UnusedGood
<1> HIDE DEF m
<1>6. {b.block} \subseteq m.live
  BY <1>2, <1>3
<1>7. IsMemory(r) /\ r.live = live \ {b.block} /\ r.bad = FALSE
  BY <1>3, <1>6, ReleaseMemory
<1> HIDE DEF r
<1>8. /\ live' = live \ {b.block} /\ bad' = FALSE
      /\ live' \in SUBSET Nat /\ IsFiniteSet(live')
  BY <1>4, <1>7 DEF Commit, IsMemory, Memory
<1>9. live' = L0 \cup Blocks(b.sa) /\ Blocks(b.sa) \cap L0 = {}
  BY <1>1, <1>2, <1>8
<1>10. World(live', Plus(arrays, Unused, b.sa), {}, fold, held)
  <2>1. b.sa \in SA
    BY <1>2 DEF ABuilder
  <2> QED BY <2>1, <1>2, <1>5, <1>8, <1>9, WorldPlus
<1>11. LifetimesInv'
  BY <1>4, <1>8, <1>10 DEF LifetimesInv
<1> QED BY <1>4, <1>11 DEF CallGood, FailureUndone

\* skiparray_builder_free frees the builder and what it has built.
LEMMA BuilderFreeGood ==
  ASSUME LifetimesInv, NEW b \in built, BuilderFree(b)
  PROVE  CallGood
<1> DEFINE m  == Mem(0)
           r1 == release(m, {b.block})
           r  == skiparray_free(r1, b.sa)
           L0 == live \ ({b.block} \cup Blocks(b.sa))
<1>1. L0 = live \ ({b.block} \cup Blocks(b.sa))
  OBVIOUS
<1> HIDE DEF L0
<1>2. /\ World(L0, arrays, {}, fold, held) /\ {b.block} \cup Blocks(b.sa) \subseteq live
      /\ Split(b.sa) /\ b.block \notin Blocks(b.sa)
  BY <1>1, TheBuilder
<1>3. IsMemory(m) /\ m.live = live /\ m.bad = FALSE
  BY MemGood
<1>4. Commit(r) /\ built' = {} /\ ret' = "OK" /\ UNCHANGED <<arrays, fold, held>>
  BY DEF BuilderFree, Answer
<1> HIDE DEF m
<1>5. {b.block} \subseteq m.live
  BY <1>2, <1>3
<1>6. IsMemory(r1) /\ r1.live = live \ {b.block} /\ r1.bad = FALSE
  BY <1>3, <1>5, ReleaseMemory
<1> HIDE DEF r1
<1>7. Blocks(b.sa) \subseteq r1.live
  BY <1>2, <1>6
<1>8. r.live = r1.live \ Blocks(b.sa) /\ r.bad = FALSE
  BY <1>2, <1>6, <1>7, SkiparrayFree
<1> HIDE DEF r
<1>9. live' = L0 /\ bad' = FALSE
  BY <1>1, <1>4, <1>6, <1>8 DEF Commit
<1>10. LifetimesInv'
  BY <1>2, <1>4, <1>9 DEF LifetimesInv
<1> QED BY <1>4, <1>10 DEF CallGood, FailureUndone

\* A fold that starts has its own two blocks and its iterators; one that runs
\* out of memory gives back both.
LEMMA FoldInitGood ==
  ASSUME LifetimesInv, NEW n \in Nat, NEW sas \in [1 .. n -> DOMAIN arrays],
         NEW merge, NEW left \in Nat, FoldInit(sas, merge, left)
  PROVE  CallGood
<1> DEFINE m   == Mem(left)
           own == malloc(malloc(None(m)))
           w   == fold_iters(own.m, sas)
           m1  == release(w.m, own.got)
           m2  == release(m1, w.iters)
<1>1. World(live, arrays, built, fold, held) /\ bad = FALSE
  BY DEF LifetimesInv
<1>2. IsMemory(m) /\ m.live = live /\ m.bad = FALSE
  BY MemGood
<1>3. \/ ~FoldMayStart(sas, merge) /\ Refuse("MISUSE")
      \/ /\ fold = {} /\ UNCHANGED <<built, held>>
         /\ \/ /\ ~own.ok
               /\ Commit(release(own.m, own.got))
               /\ Answer("MEMORY")
               /\ UNCHANGED <<arrays, fold>>
            \/ /\ own.ok /\ ~w.ok
               /\ Commit(m2) /\ arrays' = Freed(w.arrays, w.iters)
               /\ Answer("MEMORY")
               /\ UNCHANGED fold
            \/ /\ own.ok /\ w.ok
               /\ Commit(w.m) /\ arrays' = w.arrays
               /\ fold' = {[blocks |-> own.got, iters |-> w.iters, of |-> sas]}
               /\ Answer("OK")
  BY DEF FoldInit, fold_cleanup, free_iters, Freed
<1> HIDE DEF m
<1>4. Made(m, own)
  BY <1>2, MallocOne, MallocMakes
<1> HIDE DEF own
<1>5. CASE ~FoldMayStart(sas, merge) /\ Refuse("MISUSE")
  BY <1>5, RefusedGood
<1>6. CASE /\ fold = {} /\ UNCHANGED <<built, held>>
           /\ ~own.ok
           /\ Commit(release(own.m, own.got))
           /\ Answer("MEMORY")
           /\ UNCHANGED <<arrays, fold>>
  <2> DEFINE r == release(own.m, own.got)
  <2>1. r.live = live /\ r.bad = FALSE
    BY <1>2, <1>4, ReleaseMade
  <2>2. Commit(r)
    BY <1>6
  <2> HIDE DEF r
  <2>3. live' = live /\ bad' = FALSE
    BY <2>1, <2>2 DEF Commit
  <2> QED BY <1>1, <1>6, <2>3 DEF CallGood, FailureUndone, LifetimesInv
<1>7. CASE fold = {} /\ own.ok
  <2>1. /\ IsMemory(own.m) /\ own.m.bad = FALSE
        /\ own.got \in SUBSET Nat /\ own.got \cap live = {}
        /\ own.m.live = live \cup own.got
    BY <1>2, <1>4 DEF Made
  <2>2. World(live, arrays, built, {}, held)
    BY <1>1, <1>7
  <2>3. /\ arrays \in [DOMAIN arrays -> SA] /\ \A p \in DOMAIN arrays : arrays[p] \in SA
        /\ DOMAIN arrays \subseteq Handles
    BY <2>2 DEF World, Types
  <2>4. Ledger(own.m.live, arrays, built, {Owner(own.got)})
    <3>1. Owner(own.got).blocks = own.got
      BY DEF Owner
    <3>2. Ledger(live, arrays, built, {})
      BY <2>2 DEF World
    <3> QED BY <2>1, <3>1, <3>2, LedgerFold
  <2>5. /\ w \in FoldIters(arrays)
        /\ FoldMade(own.m, arrays, built, own.got, Range(sas), w)
    BY <2>1, <2>3, <2>4, FoldItersMade
  <2> HIDE DEF w
  <2>6. /\ IsMemory(w.m) /\ w.m.bad = FALSE
        /\ w.iters \cap own.m.live = {} /\ w.m.live = own.m.live \cup w.iters
    BY <2>1, <2>5 DEF FoldMade
  <2>7. CASE /\ ~w.ok /\ Commit(m2) /\ arrays' = Freed(w.arrays, w.iters)
             /\ Answer("MEMORY") /\ UNCHANGED <<built, fold, held>>
    <3>1. own.got \subseteq w.m.live
      BY <2>1, <2>6
    <3>2. IsMemory(m1) /\ m1.live = w.m.live \ own.got /\ m1.bad = FALSE
      BY <2>6, <3>1, ReleaseMemory
    <3> HIDE DEF m1
    <3>3. w.iters \subseteq m1.live
      BY <2>1, <2>6, <3>2
    <3>4. m2.live = m1.live \ w.iters /\ m2.bad = FALSE
      BY <3>2, <3>3, ReleaseMemory
    <3> HIDE DEF m2
    <3>5. live' = live /\ bad' = FALSE
      <4>1. m2.live = live
        BY <2>1, <2>6, <3>2, <3>4
      <4> QED BY <2>7, <3>4, <4>1 DEF Commit
    <3>6. arrays' = arrays
      BY <2>3, <2>5, <2>7, FoldUndone
    <3> QED BY <1>1, <2>7, <3>5, <3>6 DEF CallGood, FailureUndone, LifetimesInv
  <2>8. CASE /\ w.ok /\ Commit(w.m) /\ arrays' = w.arrays
             /\ fold' = {[blocks |-> own.got, iters |-> w.iters, of |-> sas]}
             /\ Answer("OK") /\ UNCHANGED <<built, held>>
    <3> DEFINE f == [blocks |-> own.got, iters |-> w.iters, of |-> sas]
    <3>1. sas \in Seq(Handles)
      <4>1. \A i \in 1 .. n : sas[i] \in Handles
        BY <2>3
      <4> QED BY <4>1, IsASeq
    <3>2. World(w.m.live, w.arrays, built, {f}, held)
      BY <2>1, <2>2, <2>5, <3>1, WorldFold
    <3>3. live' = w.m.live /\ bad' = FALSE
      BY <2>6, <2>8 DEF Commit
    <3>4. LifetimesInv'
      BY <2>8, <3>2, <3>3 DEF LifetimesInv
    <3> QED BY <2>8, <3>4 DEF CallGood, FailureUndone, Answer
  <2> QED BY <1>3, <1>5, <1>7, <2>7, <2>8
<1> QED BY <1>3, <1>5, <1>6, <1>7

\* There is one fold.
LEMMA TheFold ==
  ASSUME LifetimesInv, NEW f \in fold
  PROVE  fold = {f} /\ World(live, arrays, built, {f}, held)
<1>1. fold = {f}
  BY DEF LifetimesInv, World, Types
<1> QED BY <1>1 DEF LifetimesInv

\* Some of the iterators of a fold meet their ends, and are freed once.
LEMMA EndsGood ==
  ASSUME LifetimesInv, NEW f \in fold, NEW ends \in SUBSET f.iters,
         NEW m, m = Mem(0), NEW r, r = release(m, ends)
  PROVE  /\ IsMemory(r) /\ r.live = live \ ends /\ r.bad = FALSE
         /\ World(live \ ends, Freed(arrays, ends), built,
                  {Left(f, ends)}, held)
<1>1. IsMemory(m) /\ m.live = live /\ m.bad = FALSE
  BY MemGood
<1>2. World(live, arrays, built, {f}, held)
  BY TheFold
<1>3. /\ World(live \ ends, Freed(arrays, ends), built,
                  {Left(f, ends)}, held)
      /\ ends \subseteq live
  BY <1>2, WorldFreed
<1>4. IsMemory(r) /\ r.live = live \ ends /\ r.bad = FALSE
  BY <1>1, <1>3, ReleaseMemory
<1> QED BY <1>3, <1>4

\* fold_halt frees the iterators that are left and the fold itself.
LEMMA FoldHaltGood ==
  ASSUME LifetimesInv, NEW f \in fold, FoldHalt(f)
  PROVE  CallGood
<1> DEFINE m == Mem(0)
           r == release(m, f.iters)
           q == release(r, f.blocks)
           g == Left(f, f.iters)
           L == live \ f.iters
           A == Freed(arrays, f.iters)
<1>1. /\ Commit(q) /\ arrays' = A /\ fold' = {} /\ ret' = "OK"
      /\ UNCHANGED <<built, held>>
  BY DEF FoldHalt, free_iters, Freed, Answer
<1>2. /\ IsMemory(r) /\ r.live = L /\ r.bad = FALSE
      /\ World(L, A, built, {g}, held)
  BY EndsGood
<1>3. g.iters = {} /\ g.blocks = f.blocks
  BY TheFold DEF World, Types, Left
<1> HIDE DEF r, g, L, A
<1>4. World(L \ f.blocks, A, built, {}, held) /\ f.blocks \subseteq L
  BY <1>2, <1>3, WorldNoFold
<1>5. q.live = L \ f.blocks /\ q.bad = FALSE
  BY <1>2, <1>4, ReleaseMemory
<1> HIDE DEF q
<1>6. live' = L \ f.blocks /\ bad' = FALSE
  BY <1>1, <1>5 DEF Commit
<1>7. LifetimesInv'
  BY <1>1, <1>4, <1>6 DEF LifetimesInv
<1> QED BY <1>1, <1>7 DEF CallGood, FailureUndone

\* skiparray_fold_next frees the iterators that met their ends, or halts the fold.
LEMMA FoldNextGood ==
  ASSUME LifetimesInv, NEW f \in fold, FoldNext(f)
  PROVE  CallGood
<1>1. CASE FoldHalt(f)
  BY <1>1, FoldHaltGood
<1>2. ASSUME NEW ends \in SUBSET f.iters,
             Commit(release(Mem(0), ends)), arrays' = Freed(arrays, ends),
             fold' = {Left(f, ends)},
             ret' = "OK", UNCHANGED <<built, held>>
      PROVE  CallGood
  <2> DEFINE r == release(Mem(0), ends)
             g == Left(f, ends)
  <2>1. /\ r.live = live \ ends /\ r.bad = FALSE
        /\ World(live \ ends, Freed(arrays, ends), built, {g}, held)
    BY EndsGood
  <2>2. Commit(r) /\ fold' = {g}
    BY <1>2
  <2> HIDE DEF r, g
  <2>3. live' = live \ ends /\ bad' = FALSE
    BY <2>1, <2>2 DEF Commit
  <2>4. LifetimesInv'
    BY <1>2, <2>1, <2>2, <2>3 DEF LifetimesInv
  <2> QED BY <1>2, <2>4 DEF CallGood, FailureUndone
<1> QED BY <1>1, <1>2 DEF FoldNext, end_iters, free_iters, Freed, Left, Answer

-----------------------------------------------------------------------------

\* The client holds nothing before its first call.
LEMMA LifetimesInit == Init => LifetimesInv
<1> SUFFICES ASSUME Init PROVE LifetimesInv
  OBVIOUS
<1>1. /\ live = {} /\ bad = FALSE /\ DOMAIN arrays = {} /\ arrays \in [{} -> SA]
      /\ built = {} /\ fold = {} /\ held = {}
  BY DEF Init
<1>2. Types(live, arrays, built, fold, held)
  BY <1>1, FS_EmptySet DEF Types
<1>3. Ledger(live, arrays, built, fold)
  BY <1>1 DEF Ledger, InArrays, InBuilders, InFolds
<1>4. Refs(arrays, built, fold, held)
  BY <1>1 DEF Refs
<1> QED BY <1>1, <1>2, <1>3, <1>4 DEF LifetimesInv, World

\* Every call is good.
LEMMA LifetimesStep ==
  ASSUME LifetimesInv, [Next]_vars
  PROVE  LifetimesInv' /\ (Next => FailureUndone)
<1>1. CASE UNCHANGED vars
  BY <1>1 DEF vars, LifetimesInv, FailureUndone
<1>2. CASE Next
  <2>1. ASSUME NEW left \in 0 .. MaxLeft, NEW cfg \in Configs,
               New(cfg, left) \/ BuilderNew(cfg, left)
        PROVE  CallGood
    <3>1. cfg \in Config /\ left \in Nat
      BY LifetimesAssumption
    <3> QED BY <2>1, <3>1, NewGood, BuilderNewGood
  <2>2. ASSUME NEW left \in 0 .. MaxLeft, NEW p \in DOMAIN arrays,
               Set(p, left) \/ IterNew(p, left)
        PROVE  CallGood
    <3>1. left \in Nat
      OBVIOUS
    <3> QED BY <2>2, <3>1, SetGood, IterNewGood
  <2>3. ASSUME NEW left \in 0 .. MaxLeft, NEW b \in built, BuilderAppend(b, left)
        PROVE  CallGood
    <3>1. left \in Nat
      OBVIOUS
    <3> QED BY <2>3, <3>1, BuilderAppendGood
  <2>4. ASSUME NEW left \in 0 .. MaxLeft, NEW n \in 1 .. MaxCount, NEW merge \in BOOLEAN,
               NEW sas \in [1 .. n -> DOMAIN arrays], FoldInit(sas, merge, left)
        PROVE  CallGood
    <3>1. left \in Nat /\ n \in Nat
      OBVIOUS
    <3> QED BY <2>4, <3>1, FoldInitGood
  <2>5. ASSUME NEW p \in DOMAIN arrays, Free(p) \/ Unbind(p)
        PROVE  CallGood
    BY <2>5, FreeGood, UnbindGood
  <2>6. ASSUME NEW h \in held, IterFree(h)
        PROVE  CallGood
    BY <2>6, IterFreeGood
  <2>7. ASSUME NEW b \in built, BuilderFinish(b) \/ BuilderFree(b)
        PROVE  CallGood
    BY <2>7, BuilderFinishGood, BuilderFreeGood
  <2>8. ASSUME NEW f \in fold, FoldNext(f) \/ FoldHalt(f)
        PROVE  CallGood
    BY <2>8, FoldNextGood, FoldHaltGood
  <2>9. CallGood
    BY <1>2, <2>1, <2>2, <2>3, <2>4, <2>5, <2>6, <2>7, <2>8 DEF Next
  <2> QED BY <2>9 DEF CallGood
<1> QED BY <1>1, <1>2

\* LifetimesInv is an invariant.
LEMMA LifetimesInvariant == Spec => []LifetimesInv
<1>1. LifetimesInv /\ [Next]_vars => LifetimesInv'
  BY LifetimesStep
<1> QED BY LifetimesInit, <1>1, PTL DEF Spec

\* A block that is allocated belongs to one skiparray, builder or fold, and what
\* belongs to one is allocated: what skiparray_free, skiparray_builder_free and
\* skiparray_fold_halt give back is all there is, so a client that frees what it
\* holds leaks nothing.
THEOREM BlocksOwnedOnce == Spec => []LedgerExact
<1>1. LifetimesInv => LedgerExact
  BY LedgerMeans DEF LifetimesInv, World
<1> QED BY LifetimesInvariant, <1>1, PTL

\* No call frees a block that is not allocated, also not by way of the iterators,
\* which skiparray_free, skiparray_iter_free and skiparray_fold_next can all free.
THEOREM NothingFreedTwice == Spec => []NoBadFree
<1>1. LifetimesInv => NoBadFree
  BY DEF LifetimesInv, NoBadFree
<1> QED BY LifetimesInvariant, <1>1, PTL

\* sa->iter, which locks a skiparray against changes, lists the iterators that the
\* client has or that the fold in progress has: freeing those always unlocks it.
THEOREM LocksHaveHolders == Spec => []LocksHeld
<1>1. ASSUME LifetimesInv, NEW p \in DOMAIN arrays
      PROVE  arrays[p].iters =
               {h.block : h \in {h \in held : h.sa = p}}
                 \cup UNION {f.iters \cap arrays[p].iters : f \in fold}
  <2>1. Refs(arrays, built, fold, held)
    BY <1>1 DEF LifetimesInv, World
  <2>2. \A i \in arrays[p].iters :
          (\E h \in held : h.sa = p /\ h.block = i) \/ (\E f \in fold : i \in f.iters)
    BY <2>1 DEF Refs
  <2>3. \A h \in held : h.sa = p => h.block \in arrays[p].iters
    BY <2>1 DEF Refs
  <2> QED BY <2>2, <2>3
<1>2. LifetimesInv => LocksHeld
  BY <1>1 DEF LocksHeld
<1> QED BY LifetimesInvariant, <1>2, PTL

\* A call that answers SKIPARRAY_ERROR_MEMORY has undone all it did: the blocks it
\* got are free again (node_alloc, skiparray_new, skiparray_builder_new and the
\* cleanup of skiparray_fold_multi_init), and no skiparray keeps an iterator.
THEOREM FailureUndoes == Spec => FailureLeavesNothing
<1>1. LifetimesInv /\ [Next]_vars =>
        [ret' = "MEMORY" => UNCHANGED <<live, bad, arrays, built, fold, held>>]_vars
  BY LifetimesStep DEF FailureUndone
<1> QED BY LifetimesInvariant, <1>1, PTL DEF Spec, FailureLeavesNothing

=============================================================================
