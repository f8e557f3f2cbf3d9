----------------------------- MODULE FoldProofs -----------------------------
(***************************************************************************)
(* Proofs about Fold, for any number of skiparrays with any sets of keys,  *)
(* in either direction, while the client changes those that are unlocked.  *)
(*                                                                         *)
(* FoldInv is inductive: the pending ids are the slots that have a pair    *)
(* not yet given, each once, in the order of the keys (Queued), and in a   *)
(* fold to the left nothing that was given is behind what is to come       *)
(* (Ahead).  step_active_iterators keeps it turn by turn (TurnGood), and   *)
(* call_with_next takes a run of equal keys off the front (CalledGood).    *)
(*                                                                         *)
(* NothingLost is inductive together with FoldInv: what a slot has been    *)
(* given, has pending and has still to come is its keys in order, each     *)
(* once.  PromiseInv, of folds over skiparrays that share no key, is what  *)
(* the refinement of OrderedFold rests on.                                 *)
(***************************************************************************)
EXTENDS Fold, SequenceLemmas, FiniteSetTheorems

-----------------------------------------------------------------------------
(* The fold state as a record of its fields: what each function writes.    *)

Iter == [at : {NULL} \cup Keys, key : {NULL} \cup Keys, state : {"NONE", "LT", "EQ"}]

\* A fold state with these fields.
State(d, a, it, l, c, v, o) ==
  [dir |-> d, arrays |-> a, iters |-> it, live |-> l,
   current |-> c, available |-> v, offset |-> o]

IsFold(f) ==
  f = State(f.dir, f.arrays, f.iters, f.live, f.current, f.available, f.offset)

\* The fields of a state are those it was made of.
LEMMA StateFields ==
  ASSUME NEW d, NEW a, NEW it, NEW l, NEW c, NEW v, NEW o
  PROVE  LET f == State(d, a, it, l, c, v, o)
         IN  /\ IsFold(f)
             /\ f.dir = d /\ f.arrays = a /\ f.iters = it /\ f.live = l
             /\ f.current = c /\ f.available = v /\ f.offset = o
BY DEF State, IsFold

WithKey(it, i, k) == [it EXCEPT ![i].key = k]
WithAt(it, i, k) == [it EXCEPT ![i].at = k]
WithState(it, i, s) == [it EXCEPT ![i].state = s]

\* Writing one field of a state.
PutIters(f, x)   == [f EXCEPT !.iters = x]
PutLive(f, x)    == [f EXCEPT !.live = x]
PutCurrent(f, x) == [f EXCEPT !.current = x]
PutAvail(f, x)   == [f EXCEPT !.available = x]
PutOffset(f, x)  == [f EXCEPT !.offset = x]

\* A written field is the new one, and the others are the old ones.
LEMMA PutFields ==
  ASSUME NEW d, NEW a, NEW it, NEW l, NEW c, NEW v, NEW o, NEW x
  PROVE  LET f == State(d, a, it, l, c, v, o)
         IN  /\ PutIters(f, x)   = State(d, a, x, l, c, v, o)
             /\ PutLive(f, x)    = State(d, a, it, x, c, v, o)
             /\ PutCurrent(f, x) = State(d, a, it, l, x, v, o)
             /\ PutAvail(f, x)   = State(d, a, it, l, c, x, o)
             /\ PutOffset(f, x)  = State(d, a, it, l, c, v, x)
<1>1. PutIters(State(d, a, it, l, c, v, o), x) = State(d, a, x, l, c, v, o)
  BY DEF PutIters, State
<1>2. PutLive(State(d, a, it, l, c, v, o), x) = State(d, a, it, x, c, v, o)
  BY DEF PutLive, State
<1>3. PutCurrent(State(d, a, it, l, c, v, o), x) = State(d, a, it, l, x, v, o)
  BY DEF PutCurrent, State
<1>4. PutAvail(State(d, a, it, l, c, v, o), x) = State(d, a, it, l, c, x, o)
  BY DEF PutAvail, State
<1>5. PutOffset(State(d, a, it, l, c, v, o), x) = State(d, a, it, l, c, v, x)
  BY DEF PutOffset, State
<1> QED BY <1>1, <1>2, <1>3, <1>4, <1>5

\* compact moves the ids to the front and touches nothing else.
Moved(c, v, o) == [x \in DOMAIN c |-> IF x < v THEN c[x + o] ELSE c[x]]

\* In the terms of State.
LEMMA CompactState ==
  ASSUME NEW d, NEW a, NEW it, NEW l, NEW c, NEW v, NEW o
  PROVE  compact(State(d, a, it, l, c, v, o)) = State(d, a, it, l, Moved(c, v, o), v, 0)
<1> DEFINE f == State(d, a, it, l, c, v, o)
           g == PutCurrent(f, Moved(c, v, o))
<1>1. f.current = c /\ f.available = v /\ f.offset = o
  BY StateFields
<1> HIDE DEF f
<1>2. [x \in DOMAIN f.current |->
         IF x < f.available THEN f.current[x + f.offset] ELSE f.current[x]]
        = Moved(c, v, o)
  BY <1>1 DEF Moved
<1>3. compact(f) = PutOffset(PutCurrent(f, [x \in DOMAIN f.current |->
         IF x < f.available THEN f.current[x + f.offset] ELSE f.current[x]]), 0)
  BY Zenon DEF compact, PutOffset, PutCurrent
<1>4. compact(f) = PutOffset(g, 0)
  BY <1>2, <1>3
<1>5. g = State(d, a, it, l, Moved(c, v, o), v, o)
  BY PutFields DEF f
<1> HIDE DEF g
<1> QED BY <1>4, <1>5, PutFields DEF f

\* insert_pair makes room at `place` for slot i, and marks it.
Room(c, v, place, i) ==
  [x \in DOMAIN c \cup (0 .. v) |->
     IF x = place THEN i ELSE IF x \in place + 1 .. v THEN c[x - 1] ELSE c[x]]

Equal(it, c, v, place, key) == place < v /\ it[c[place]].key = key

Mark(it, c, v, place, key) == IF Equal(it, c, v, place, key) THEN "EQ" ELSE "LT"

\* insert_pair, in the terms of State.
LEMMA InsertState ==
  ASSUME NEW d, NEW a, NEW it, NEW l, NEW c, NEW v, NEW o, NEW i
  PROVE  LET f     == State(d, a, it, l, c, v, o)
             g     == State(d, a, it, l, Moved(c, v, o), v, 0)
             place == insert_place(g, it[i].key)
         IN  insert_pair(f, i) =
               State(d, a,
                     WithState(it, i, Mark(it, Moved(c, v, o), v, place, it[i].key)),
                     l, Room(Moved(c, v, o), v, place, i), v + 1, 0)
<1> DEFINE f     == State(d, a, it, l, c, v, o)
           mc    == Moved(c, v, o)
           g     == State(d, a, it, l, mc, v, 0)
           place == insert_place(g, it[i].key)
           mark  == Mark(it, mc, v, place, it[i].key)
<1>1. compact(f) = g
  BY CompactState
<1> HIDE DEF f, mc
<1>2. /\ g.iters = it /\ g.available = v /\ g.current = mc
  BY StateFields
<1> DEFINE cur  == Room(mc, v, place, i)
           its2 == WithState(it, i, mark)
<1>3. insert_pair(f, i) = State(d, a, its2, l, cur, v + 1, 0)
  <2>1. insert_pair(f, i) =
        [g EXCEPT
         !.current = [x \in DOMAIN @ \cup (0 .. g.available) |->
            IF x = place THEN i
            ELSE IF x \in place + 1 .. g.available THEN @[x - 1] ELSE @[x]],
         !.iters[i].state = IF /\ place < g.available
                               /\ g.iters[g.current[place]].key = g.iters[i].key
                            THEN "EQ" ELSE "LT",
         !.available = @ + 1]
    BY <1>1, <1>2, Zenon DEF insert_pair
  <2> DEFINE room == [x \in DOMAIN g.current \cup (0 .. g.available) |->
            IF x = place THEN i
            ELSE IF x \in place + 1 .. g.available THEN g.current[x - 1] ELSE g.current[x]]
             sign == IF place < g.available /\ g.iters[g.current[place]].key = g.iters[i].key
                     THEN "EQ" ELSE "LT"
  <2>2. room = cur
    <3> HIDE DEF g, place
    <3> QED BY <1>2 DEF Room
  <2>3. sign = mark
    <3> HIDE DEF g, place
    <3> QED BY <1>2 DEF Mark, Equal
  <2> DEFINE e1 == PutCurrent(g, room)
             e2 == [e1 EXCEPT !.iters[i].state = sign]
  <2>4. insert_pair(f, i) = PutAvail(e2, e2.available + 1)
    <3> HIDE DEF g, place
    <3> QED BY <2>1, Zenon DEF PutCurrent, PutAvail
  <2>5. e1 = State(d, a, it, l, cur, v, 0)
    <3> HIDE DEF room, cur
    <3> QED BY <2>2, PutFields
  <2>6. e2 = State(d, a, its2, l, cur, v, 0)
    <3> HIDE DEF e1, cur, sign, mark
    <3>1. \A m : [State(d, a, it, l, cur, v, 0) EXCEPT !.iters[i].state = m]
             = State(d, a, WithState(it, i, m), l, cur, v, 0)
      BY SMT DEF State, WithState
    <3> QED BY <2>3, <2>5, <3>1
  <2> HIDE DEF g, cur, its2, e2
  <2>7. e2.available = v
    BY <2>6, StateFields
  <2>8. PutAvail(State(d, a, its2, l, cur, v, 0), v + 1) = State(d, a, its2, l, cur, v + 1, 0)
    BY PutFields
  <2> QED BY <2>4, <2>6, <2>7, <2>8
<1> QED BY <1>3 DEF f, mc

\* Writing a field of one iterator.
LEMMA WriteIters ==
  ASSUME NEW S, NEW it \in [S -> Iter], NEW i \in S
  PROVE  /\ \A k \in {NULL} \cup Keys :
              LET w == WithKey(it, i, k)
              IN  /\ w \in [S -> Iter]
                  /\ w[i].key = k /\ w[i].at = it[i].at /\ w[i].state = it[i].state
                  /\ \A j \in S : j # i => w[j] = it[j]
         /\ \A k \in {NULL} \cup Keys :
              LET w == WithAt(it, i, k)
              IN  /\ w \in [S -> Iter]
                  /\ w[i].at = k /\ w[i].key = it[i].key /\ w[i].state = it[i].state
                  /\ \A j \in S : j # i => w[j] = it[j]
         /\ \A s \in {"NONE", "LT", "EQ"} :
              LET w == WithState(it, i, s)
              IN  /\ w \in [S -> Iter]
                  /\ w[i].state = s /\ w[i].key = it[i].key /\ w[i].at = it[i].at
                  /\ \A j \in S : j # i => w[j] = it[j]
<1>1. ASSUME NEW k \in {NULL} \cup Keys
      PROVE  LET w == WithKey(it, i, k)
              IN  /\ w \in [S -> Iter]
                  /\ w[i].key = k /\ w[i].at = it[i].at /\ w[i].state = it[i].state
                  /\ \A j \in S : j # i => w[j] = it[j]
  BY DEF WithKey, Iter
<1>2. ASSUME NEW k \in {NULL} \cup Keys
      PROVE  LET w == WithAt(it, i, k)
              IN  /\ w \in [S -> Iter]
                  /\ w[i].at = k /\ w[i].key = it[i].key /\ w[i].state = it[i].state
                  /\ \A j \in S : j # i => w[j] = it[j]
  BY DEF WithAt, Iter
<1>3. ASSUME NEW s \in {"NONE", "LT", "EQ"}
      PROVE  LET w == WithState(it, i, s)
              IN  /\ w \in [S -> Iter]
                  /\ w[i].state = s /\ w[i].key = it[i].key /\ w[i].at = it[i].at
                  /\ \A j \in S : j # i => w[j] = it[j]
  BY DEF WithState, Iter
<1> QED BY <1>1, <1>2, <1>3

-----------------------------------------------------------------------------
(* The pending ids.                                                        *)

SlotsOf(n) == 0 .. n - 1

\* The first v ids of q are the slots with a pending pair, each once; their
\* keys ascend, and EQ marks those that equal the next one.
Queued(it, q, v) ==
  /\ \A c, d \in 0 .. v - 1 : c < d => q[c] # q[d] /\ it[q[c]].key <= it[q[d]].key
  /\ \A i \in DOMAIN it : it[i].state # "NONE" <=> \E c \in 0 .. v - 1 : q[c] = i
  /\ \A c \in 0 .. v - 1 :
       it[q[c]].state = "EQ" <=> c + 1 < v /\ it[q[c]].key = it[q[c + 1]].key

\* A slot that is not pending finds a free id.
LEMMA RoomLeft ==
  ASSUME NEW n \in Nat, NEW it \in [SlotsOf(n) -> Iter],
         NEW v \in 0 .. n, NEW q, \A c \in 0 .. v - 1 : q[c] \in SlotsOf(n),
         Queued(it, q, v), NEW i \in SlotsOf(n), it[i].state = "NONE"
  PROVE  v < n
<1> DEFINE h == [c \in 0 .. v |-> IF c = v THEN i ELSE q[c]]
<1>1. h \in [0 .. v -> SlotsOf(n)]
  OBVIOUS
<1>2. \A c \in 0 .. v - 1 : q[c] # i
  BY DEF Queued
<1>3. \A c, d \in 0 .. v - 1 : q[c] = q[d] => c = d
  <2>1. ASSUME NEW c \in 0 .. v - 1, NEW d \in 0 .. v - 1, q[c] = q[d]
        PROVE  c = d
    <3>1. CASE c < d
      BY <2>1, <3>1 DEF Queued
    <3>2. CASE d < c
      BY <2>1, <3>2 DEF Queued
    <3> QED BY <3>1, <3>2
  <2> QED BY <2>1
<1>4. \A c, d \in 0 .. v : h[c] = h[d] => c = d
  <2>1. \A c \in 0 .. v : c = v \/ c \in 0 .. v - 1
    OBVIOUS
  <2> QED BY <1>2, <1>3, <2>1
<1>5. h \in Injection(0 .. v, SlotsOf(n))
  <2> HIDE DEF h
  <2> QED BY <1>1, <1>4 DEF Injection, IsInjective
<1>6. /\ IsFiniteSet(SlotsOf(n)) /\ Cardinality(SlotsOf(n)) = n
      /\ Cardinality(0 .. v) = v + 1
  BY FS_Interval DEF SlotsOf
<1>7. Cardinality(0 .. v) <= Cardinality(SlotsOf(n))
  <2> HIDE DEF h
  <2> QED BY <1>5, <1>6, FS_Injection
<1> QED BY <1>6, <1>7

\* The slots with a pending pair, those whose key is less before it and those
\* whose key is not after it, stay in order when slot i joins them at `place`.
LEMMA QueuedRoom ==
  ASSUME NEW n \in Nat, NEW it \in [SlotsOf(n) -> Iter],
         NEW v \in 0 .. n, NEW q \in [SlotsOf(n) -> SlotsOf(n)],
         Queued(it, q, v), NEW i \in SlotsOf(n), it[i].state = "NONE",
         NEW place \in 0 .. v,
         place < v => it[i].key <= it[q[place]].key,
         \A c \in 0 .. place - 1 : it[i].key > it[q[c]].key
  PROVE  LET r == Room(q, v, place, i)
             w == WithState(it, i, Mark(it, q, v, place, it[i].key))
         IN  /\ v < n
             /\ r \in [SlotsOf(n) -> SlotsOf(n)]
             /\ w \in [SlotsOf(n) -> Iter]
             /\ Queued(w, r, v + 1)
             /\ w[i].state # "NONE" /\ w[i].key = it[i].key /\ w[i].at = it[i].at
             /\ \A j \in SlotsOf(n) : j # i => w[j] = it[j]
<1> DEFINE r == Room(q, v, place, i)
           w == WithState(it, i, Mark(it, q, v, place, it[i].key))
           equal == Equal(it, q, v, place, it[i].key)
<1>1. v < n
  <2>1. \A c \in 0 .. v - 1 : q[c] \in SlotsOf(n)
    BY DEF SlotsOf
  <2> QED BY <2>1, RoomLeft
<1>2. r \in [SlotsOf(n) -> SlotsOf(n)]
  <2>1. SlotsOf(n) \cup (0 .. v) = SlotsOf(n)
    BY <1>1 DEF SlotsOf
  <2>2. \A x \in SlotsOf(n) : x \in place + 1 .. v => q[x - 1] \in SlotsOf(n)
    BY <1>1 DEF SlotsOf
  <2>3. r = [x \in SlotsOf(n) |->
              IF x = place THEN i ELSE IF x \in place + 1 .. v THEN q[x - 1] ELSE q[x]]
    BY <2>1 DEF Room
  <2> HIDE DEF r
  <2> QED BY <2>2, <2>3
<1>3. \A c \in 0 .. v :
        r[c] = IF c = place THEN i ELSE IF c > place THEN q[c - 1] ELSE q[c]
  BY <1>1 DEF Room, SlotsOf
<1>4. /\ w \in [SlotsOf(n) -> Iter]
      /\ w[i].state = IF equal THEN "EQ" ELSE "LT"
      /\ w[i].key = it[i].key /\ w[i].at = it[i].at
      /\ \A j \in SlotsOf(n) : j # i => w[j] = it[j]
  BY WriteIters DEF Mark
<1> HIDE DEF r, w
<1>5. \A j \in SlotsOf(n) : w[j].key = it[j].key /\ it[j].key \in Int
  <2>1. \A j \in SlotsOf(n) : it[j].key \in {NULL} \cup Keys
    BY DEF Iter
  <2>2. {NULL} \cup Keys \subseteq Int
    BY FoldAssumption DEF NULL
  <2> QED BY <1>4, <2>1, <2>2
<1>6. \A c \in 0 .. v - 1 : q[c] # i /\ q[c] \in SlotsOf(n)
  <2>1. \A c \in 0 .. v - 1 : q[c] # i
    BY DEF Queued
  <2> QED BY <1>1, <2>1 DEF SlotsOf
<1> DEFINE old(c) == IF c > place THEN c - 1 ELSE c
<1>7. \A c \in 0 .. v : c # place => old(c) \in 0 .. v - 1 /\ r[c] = q[old(c)]
  BY <1>3
<1>8. r[place] = i
  BY <1>3
<1>9. ASSUME NEW c \in 0 .. v, NEW d \in 0 .. v, c < d
      PROVE  r[c] # r[d] /\ w[r[c]].key <= w[r[d]].key
  <2>1. CASE c = place
    <3>1. old(d) \in 0 .. v - 1 /\ r[d] = q[old(d)] /\ old(d) >= place /\ place < v
      BY <1>7, <1>9, <2>1
    <3>2. it[q[place]].key <= it[q[old(d)]].key
      <4>1. CASE old(d) = place
        <5>1. place \in 0 .. v - 1
          BY <3>1
        <5> HIDE DEF old
        <5> QED BY <1>5, <1>6, <4>1, <5>1
      <4>2. CASE old(d) # place
        <5>1. place < old(d) /\ place \in 0 .. v - 1
          BY <3>1, <4>2
        <5> HIDE DEF old
        <5> QED BY <3>1, <5>1 DEF Queued
      <4> QED BY <4>1, <4>2
    <3>3. it[i].key <= it[q[old(d)]].key
      <4> HIDE DEF old
      <4>1. place \in 0 .. v - 1
        BY <3>1
      <4> QED BY <1>5, <1>6, <3>1, <3>2, <4>1
    <3> HIDE DEF old
    <3> QED BY <1>5, <1>6, <1>8, <2>1, <3>1, <3>3
  <2>2. CASE d = place
    <3>1. old(c) = c /\ c \in 0 .. v - 1 /\ r[c] = q[c] /\ c \in 0 .. place - 1
      BY <1>7, <1>9, <2>2
    <3>2. it[i].key > it[q[c]].key
      BY <3>1
    <3> QED BY <1>5, <1>6, <1>8, <2>2, <3>1, <3>2
  <2>3. CASE c # place /\ d # place
    <3>1. old(c) \in 0 .. v - 1 /\ old(d) \in 0 .. v - 1 /\ old(c) < old(d)
          /\ r[c] = q[old(c)] /\ r[d] = q[old(d)]
      BY <1>7, <1>9, <2>3
    <3> HIDE DEF old
    <3>2. q[old(c)] # q[old(d)] /\ it[q[old(c)]].key <= it[q[old(d)]].key
      BY <3>1 DEF Queued
    <3> QED BY <1>5, <1>6, <3>1, <3>2
  <2> QED BY <2>1, <2>2, <2>3
<1>10. ASSUME NEW j \in SlotsOf(n)
       PROVE  w[j].state # "NONE" <=> \E c \in 0 .. v : r[c] = j
  <2>1. CASE j = i
    BY <1>4, <1>8, <2>1
  <2>2. CASE j # i
    <3>1. w[j].state # "NONE" <=> \E c \in 0 .. v - 1 : q[c] = j
      BY <1>4, <2>2 DEF Queued
    <3>2. ASSUME NEW c \in 0 .. v - 1, q[c] = j
          PROVE  \E e \in 0 .. v : r[e] = j
      <4> DEFINE e == IF c >= place THEN c + 1 ELSE c
      <4>1. e \in 0 .. v /\ r[e] = q[c]
        BY <1>3
      <4> QED BY <3>2, <4>1
    <3>3. ASSUME NEW c \in 0 .. v, r[c] = j
          PROVE  \E e \in 0 .. v - 1 : q[e] = j
      <4>1. c # place
        BY <1>8, <2>2, <3>3
      <4> QED BY <1>7, <3>3, <4>1
    <3> QED BY <3>1, <3>2, <3>3
  <2> QED BY <2>1, <2>2
<1>11. ASSUME NEW c \in 0 .. v
       PROVE  w[r[c]].state = "EQ"
                <=> c + 1 < v + 1 /\ w[r[c]].key = w[r[c + 1]].key
  <2>1. CASE c = place
    <3>1. w[r[c]].state = "EQ" <=> place < v /\ it[q[place]].key = it[i].key
      BY <1>4, <1>8, <2>1 DEF Equal
    <3>2. place < v => r[c + 1] = q[place] /\ w[r[c + 1]].key = it[q[place]].key
      BY <1>3, <1>5, <1>6, <2>1
    <3>3. w[r[c]].key = it[i].key
      BY <1>4, <1>8, <2>1
    <3> QED BY <2>1, <3>1, <3>2, <3>3
  <2>2. CASE c # place
    <3>1. old(c) \in 0 .. v - 1 /\ r[c] = q[old(c)]
      BY <1>7, <2>2
    <3>2. /\ w[r[c]] = it[q[old(c)]]
      <4> HIDE DEF old
      <4> QED BY <1>4, <1>6, <3>1
    <3>3. it[q[old(c)]].state = "EQ"
            <=> old(c) + 1 < v /\ it[q[old(c)]].key = it[q[old(c) + 1]].key
      <4> HIDE DEF old
      <4> QED BY <3>1 DEF Queued
    <3>4. CASE c + 1 = place
      <4>1. old(c) = c /\ r[c + 1] = i /\ c \in 0 .. place - 1
        BY <1>8, <3>4
      <4>2. it[i].key > it[q[c]].key /\ it[i].key \in Int /\ it[q[c]].key \in Int
        BY <1>5, <1>6, <3>1, <4>1
      <4>3. w[r[c]].key # w[r[c + 1]].key
        BY <1>4, <3>2, <4>1, <4>2
      <4>4. c + 1 < v => it[q[c + 1]].key >= it[i].key /\ it[q[c + 1]].key \in Int
        BY <1>5, <1>6, <3>4
      <4>5. ~(c + 1 < v /\ it[q[c]].key = it[q[c + 1]].key)
        BY <4>2, <4>4
      <4> QED BY <3>2, <3>3, <4>1, <4>3, <4>5
    <3>5. CASE c + 1 # place
      <4>1. c < v => old(c + 1) = old(c) + 1 /\ old(c) + 1 \in 0 .. v - 1
                     /\ r[c + 1] = q[old(c) + 1]
        BY <1>7, <2>2, <3>5
      <4>2. c < v <=> old(c) + 1 < v
        BY <2>2, <3>5
      <4> HIDE DEF old
      <4>3. c < v => w[r[c + 1]].key = it[q[old(c) + 1]].key
        BY <1>5, <1>6, <4>1
      <4> QED BY <3>2, <3>3, <4>2, <4>3
    <3> QED BY <3>4, <3>5
  <2> QED BY <2>1, <2>2
<1>12. Queued(w, r, v + 1)
  <2>1. 0 .. (v + 1) - 1 = 0 .. v /\ DOMAIN w = SlotsOf(n)
    BY <1>4
  <2> HIDE DEF old
  <2> QED BY <2>1, <1>9, <1>10, <1>11 DEF Queued
<1>13. w[i].state # "NONE"
  BY <1>4
<1> QED BY <1>1, <1>2, <1>4, <1>12, <1>13 DEF r, w

\* Only the state of each slot and the keys of the pending ones matter.
LEMMA QueuedSame ==
  ASSUME NEW S, NEW it, NEW w, NEW q, NEW r, NEW v \in Nat,
         DOMAIN w = DOMAIN it,
         Queued(it, q, v),
         \A c \in 0 .. v - 1 : r[c] = q[c],
         \A c \in 0 .. v - 1 : w[q[c]].key = it[q[c]].key /\ w[q[c]].state = it[q[c]].state,
         \A j \in DOMAIN it : w[j].state = it[j].state
  PROVE  Queued(w, r, v)
<1>1. \A c, d \in 0 .. v - 1 : c < d => r[c] # r[d] /\ w[r[c]].key <= w[r[d]].key
  BY DEF Queued
<1>2. \A i \in DOMAIN w : w[i].state # "NONE" <=> \E c \in 0 .. v - 1 : r[c] = i
  BY DEF Queued
<1>3. ASSUME NEW c \in 0 .. v - 1
      PROVE  w[r[c]].state = "EQ" <=> c + 1 < v /\ w[r[c]].key = w[r[c + 1]].key
  <2>1. c + 1 < v => c + 1 \in 0 .. v - 1
    OBVIOUS
  <2> QED BY <2>1 DEF Queued
<1> QED BY <1>1, <1>2, <1>3 DEF Queued

-----------------------------------------------------------------------------
(* The first key of a set.                                                 *)

\* Keys, and the NULL that stands for none, are numbers.
LEMMA KeyIsNumber == \A k \in {NULL} \cup Keys : k \in Nat
BY FoldAssumption DEF NULL

\* A finite set of numbers that is not empty has a greatest one.
LEMMA GreatestNatural ==
  ASSUME NEW S \in SUBSET Nat, IsFiniteSet(S), S # {}
  PROVE  \E n \in S : \A m \in S : m <= n
<1> DEFINE T == {n \in Nat : \A U \in SUBSET Nat :
                   IsFiniteSet(U) /\ Cardinality(U) = n + 1
                     => \E k \in U : \A m \in U : m <= k}
<1>1. 0 \in T
  <2>1. ASSUME NEW U \in SUBSET Nat, IsFiniteSet(U), Cardinality(U) = 0 + 1
        PROVE  \E k \in U : \A m \in U : m <= k
    <3>1. Cardinality(U) = 1
      BY <2>1
    <3>2. PICK k : U = {k}
      BY <2>1, <3>1, FS_Singleton
    <3> QED BY <3>2
  <2> QED BY <2>1
<1>2. ASSUME NEW n \in Nat, n \in T
      PROVE  n + 1 \in T
  <2>1. ASSUME NEW U \in SUBSET Nat, IsFiniteSet(U), Cardinality(U) = (n + 1) + 1
        PROVE  \E k \in U : \A m \in U : m <= k
    <3>1. PICK x \in U : TRUE
      <4>1. Cardinality(U) # 0
        BY <2>1
      <4> QED BY <2>1, <4>1, FS_EmptySet
    <3>2. IsFiniteSet(U \ {x}) /\ Cardinality(U \ {x}) = n + 1
      BY <2>1, FS_RemoveElement
    <3>3. PICK k \in U \ {x} : \A m \in U \ {x} : m <= k
      BY <1>2, <3>2
    <3>4. CASE x <= k
      BY <3>3, <3>4
    <3>5. CASE ~(x <= k)
      <4>1. \A m \in U : m <= x
        BY <3>3, <3>5
      <4> QED BY <4>1
    <3> QED BY <3>4, <3>5
  <2> QED BY <2>1
<1>3. Nat \subseteq T
  <2> HIDE DEF T
  <2> QED BY <1>1, <1>2, NaturalsInSet
<1>4. Cardinality(S) \in Nat /\ Cardinality(S) # 0
  BY FS_CardinalityType, FS_EmptySet
<1>5. Cardinality(S) - 1 \in T /\ (Cardinality(S) - 1) + 1 = Cardinality(S)
  BY <1>3, <1>4
<1> QED BY <1>5

\* Which of two keys comes first in the direction of a fold.
NotAfter(j, k, dir) == IF dir = "LEFT" THEN j <= k ELSE j >= k

\* FirstOf finds a first key, and NULL just when there is no key at all.
LEMMA FirstOfIs ==
  ASSUME NEW S \in SUBSET Keys, IsFiniteSet(S), NEW dir
  PROVE  /\ (FirstOf(S, dir) = NULL) = (S = {})
         /\ S # {} => /\ FirstOf(S, dir) \in S
                      /\ \A j \in S : NotAfter(FirstOf(S, dir), j, dir)
<1>1. CASE S = {}
  BY <1>1 DEF FirstOf
<1>2. CASE S # {}
  <2>1. S \in SUBSET Nat /\ NULL \notin S
    BY FoldAssumption DEF NULL
  <2>2. \E k \in S : \A j \in S : k <= j
    BY <1>2, <2>1, LeastNatural
  <2>3. \E k \in S : \A j \in S : k >= j
    <3>1. PICK k \in S : \A j \in S : j <= k
      BY <1>2, <2>1, GreatestNatural
    <3>2. \A j \in S : k >= j
      BY <2>1, <3>1
    <3> QED BY <3>2
  <2>4. \E k \in S : \A j \in S : NotAfter(k, j, dir)
    <3>1. CASE dir = "LEFT"
      BY <2>2, <3>1 DEF NotAfter
    <3>2. CASE dir # "LEFT"
      BY <2>3, <3>2 DEF NotAfter
    <3> QED BY <3>1, <3>2
  <2>5. Extremes(S, dir) # {}
    BY <2>4 DEF Extremes, NotAfter
  <2>6. FirstOf(S, dir) \in Extremes(S, dir)
    BY <1>2, <2>5 DEF FirstOf
  <2> QED BY <1>2, <2>1, <2>6 DEF Extremes, NotAfter
<1> QED BY <1>1, <1>2

-----------------------------------------------------------------------------
(* A fold state between two of its loops' turns.                           *)

\* ids.current[offset .. offset + available - 1]
Ids(f) == [c \in 0 .. f.available - 1 |-> f.current[f.offset + c]]

Shape(f, n) ==
  /\ IsFold(f)
  /\ f.dir \in {"NONE", "LEFT", "RIGHT"}
  /\ f.arrays \in [SlotsOf(n) -> Arrays]
  /\ f.iters \in [SlotsOf(n) -> Iter]
  /\ f.current \in [SlotsOf(n) -> SlotsOf(n)]
  /\ f.available \in 0 .. n
  /\ f.offset \in 0 .. n - f.available
  /\ f.live = Cardinality({i \in SlotsOf(n) : f.iters[i].at # NULL})

Good(f, n) == Shape(f, n) /\ Queued(f.iters, Ids(f), f.available)

\* insert_place finds a place that keeps the ids in order.
LEMMA PlaceIs ==
  ASSUME NEW n \in Nat, NEW g, NEW key \in Int,
         g.available \in 0 .. n, g.current \in [SlotsOf(n) -> SlotsOf(n)],
         g.iters \in [SlotsOf(n) -> Iter]
  PROVE  LET p == insert_place(g, key)
         IN  /\ p \in 0 .. g.available
             /\ p < g.available => key <= g.iters[g.current[p]].key
             /\ \A c \in 0 .. p - 1 : key > g.iters[g.current[c]].key
<1> DEFINE v == g.available
           Ok(p) == p < v => key <= g.iters[g.current[p]].key
           T == {p \in 0 .. v : Ok(p)}
           Is(p) == /\ p < v => key <= g.iters[g.current[p]].key
                    /\ \A c \in 0 .. p - 1 : key > g.iters[g.current[c]].key
<1>1. v \in T
  OBVIOUS
<1>2. T \in SUBSET Nat
  OBVIOUS
<1>3. PICK p \in T : \A m \in T : p <= m
  <2> HIDE DEF T
  <2> QED BY <1>1, <1>2, LeastNatural
<1>4. ASSUME NEW c \in 0 .. p - 1
      PROVE  key > g.iters[g.current[c]].key
  <2>1. c \in 0 .. v /\ c \notin T /\ c < v
    BY <1>3
  <2>2. ~(key <= g.iters[g.current[c]].key)
    BY <2>1
  <2>3. c \in SlotsOf(n)
    BY <2>1 DEF SlotsOf
  <2>4. g.iters[g.current[c]].key \in {NULL} \cup Keys
    BY <2>3 DEF Iter
  <2>5. g.iters[g.current[c]].key \in Int
    BY <2>4, KeyIsNumber
  <2> QED BY <2>2, <2>5
<1>5. p \in 0 .. v /\ Is(p)
  BY <1>3, <1>4
<1>6. insert_place(g, key) = CHOOSE x \in 0 .. v : Is(x)
  BY DEF insert_place
<1> HIDE DEF Is, v
<1>7. insert_place(g, key) \in 0 .. v /\ Is(insert_place(g, key))
  BY <1>5, <1>6
<1> QED BY <1>7 DEF Is, v

\* insert_pair adds its slot to the pending ones and touches no other.
LEMMA InsertGood ==
  ASSUME NEW n \in Nat, NEW f, Good(f, n), NEW i \in SlotsOf(n),
         f.iters[i].state = "NONE"
  PROVE  LET h == insert_pair(f, i)
         IN  /\ Good(h, n)
             /\ h.dir = f.dir /\ h.arrays = f.arrays /\ h.live = f.live
             /\ h.iters[i].state # "NONE"
             /\ h.iters[i].key = f.iters[i].key /\ h.iters[i].at = f.iters[i].at
             /\ \A j \in SlotsOf(n) : j # i => h.iters[j] = f.iters[j]
<1> DEFINE d == f.dir
           a == f.arrays
           it == f.iters
           l == f.live
           c == f.current
           v == f.available
           o == f.offset
           q == Moved(c, v, o)
           g == State(d, a, it, l, q, v, 0)
           place == insert_place(g, it[i].key)
           mark == Mark(it, q, v, place, it[i].key)
           w == WithState(it, i, mark)
           r == Room(q, v, place, i)
           h == State(d, a, w, l, r, v + 1, 0)
<1>1. f = State(d, a, it, l, c, v, o)
  BY DEF Good, Shape, IsFold
<1>2. /\ d \in {"NONE", "LEFT", "RIGHT"}
      /\ a \in [SlotsOf(n) -> Arrays]
      /\ it \in [SlotsOf(n) -> Iter]
      /\ c \in [SlotsOf(n) -> SlotsOf(n)]
      /\ v \in 0 .. n
      /\ o \in 0 .. n - v
      /\ l = Cardinality({j \in SlotsOf(n) : it[j].at # NULL})
      /\ Queued(it, Ids(f), v)
  BY DEF Good, Shape
<1>3. insert_pair(f, i) = h
  <2> HIDE DEF d, a, it, l, c, v, o
  <2> QED BY <1>1, InsertState
<1>4. \A x \in 0 .. v - 1 : q[x] = Ids(f)[x]
  BY <1>2 DEF Moved, Ids, SlotsOf
<1>5. q \in [SlotsOf(n) -> SlotsOf(n)]
  <2> HIDE DEF c, v, o
  <2>1. \A x \in SlotsOf(n) : x < v => x + o \in SlotsOf(n)
    BY <1>2 DEF SlotsOf
  <2> QED BY <1>2, <2>1 DEF Moved
<1>6. Queued(it, q, v)
  <2> HIDE DEF d, a, it, l, c, v, o, q
  <2>1. v \in Nat
    BY <1>2
  <2> QED BY <1>2, <1>4, <2>1, QueuedSame
<1>7. g.available = v /\ g.current = q /\ g.iters = it
  <2> HIDE DEF d, a, it, l, c, v, o, q
  <2> QED BY StateFields
<1>8. it[i].key \in Int
  <2> HIDE DEF it
  <2>1. it[i] \in Iter
    BY <1>2
  <2>2. it[i].key \in {NULL} \cup Keys
    BY <2>1 DEF Iter
  <2> QED BY <2>2, KeyIsNumber
<1> HIDE DEF d, a, it, l, c, v, o, q, g
<1>9. /\ place \in 0 .. v
      /\ place < v => it[i].key <= it[q[place]].key
      /\ \A x \in 0 .. place - 1 : it[i].key > it[q[x]].key
  BY <1>2, <1>5, <1>7, <1>8, PlaceIs
<1>10. it[i].state = "NONE"
  BY DEF it
<1> HIDE DEF place
<1>11. /\ v < n
       /\ r \in [SlotsOf(n) -> SlotsOf(n)]
       /\ w \in [SlotsOf(n) -> Iter]
       /\ Queued(w, r, v + 1)
       /\ w[i].state # "NONE" /\ w[i].key = it[i].key /\ w[i].at = it[i].at
       /\ \A j \in SlotsOf(n) : j # i => w[j] = it[j]
  BY <1>2, <1>5, <1>6, <1>9, <1>10, QueuedRoom
<1> HIDE DEF w, r
<1>12. /\ IsFold(h)
       /\ h.dir = d /\ h.arrays = a /\ h.iters = w /\ h.live = l
       /\ h.current = r /\ h.available = v + 1 /\ h.offset = 0
  BY StateFields
<1> HIDE DEF h
<1>13. {j \in SlotsOf(n) : w[j].at # NULL} = {j \in SlotsOf(n) : it[j].at # NULL}
  BY <1>11
<1>14. Shape(h, n)
  <2>1. v + 1 \in 0 .. n /\ 0 \in 0 .. n - (v + 1)
    BY <1>2, <1>11
  <2> QED BY <1>2, <1>11, <1>12, <1>13, <2>1 DEF Shape
<1>15. Queued(w, Ids(h), v + 1)
  <2>1. \A x \in 0 .. (v + 1) - 1 : Ids(h)[x] = r[x]
    BY <1>2, <1>12 DEF Ids
  <2>2. v + 1 \in Nat
    BY <1>2
  <2> QED BY <1>11, <2>1, <2>2, QueuedSame
<1>16. Good(h, n)
  BY <1>12, <1>14, <1>15 DEF Good
<1> QED BY <1>3, <1>11, <1>12, <1>16 DEF d, a, it, l

-----------------------------------------------------------------------------
(* Stepping the iterators.                                                 *)

\* The skiparrays hold finitely many keys.
Stored ==
  /\ sas \in [Arrays -> SUBSET Keys]
  /\ \A a \in Arrays : IsFiniteSet(sas[a])

\* What a turn does to slot i: it takes the pair under the iterator, unless
\* there is none or the last one has not been given yet.
Stepped(f, h, i) ==
  IF f.iters[i].at = NULL \/ f.iters[i].state # "NONE" THEN h.iters[i] = f.iters[i]
  ELSE /\ h.iters[i].state # "NONE"
       /\ h.iters[i].key = f.iters[i].at
       /\ h.iters[i].at = iter_step(f, i)

\* The keys after one of a skiparray.
LEMMA AfterIs ==
  ASSUME Stored, NEW a \in Arrays, NEW k, NEW dir
  PROVE  After(sas[a], k, dir) \in SUBSET Keys /\ IsFiniteSet(After(sas[a], k, dir))
<1>1. sas[a] \in SUBSET Keys /\ IsFiniteSet(sas[a])
  BY DEF Stored
<1>2. After(sas[a], k, dir) \in SUBSET sas[a]
  BY DEF After
<1> QED BY <1>1, <1>2, FS_Subset

\* A turn of the loop of step_active_iterators, whether the iterator has a pair,
\* has met its end, or waits for its last pair to be given.
LEMMA TurnGood ==
  ASSUME Stored, NEW n \in Nat, NEW f, Good(f, n), NEW i \in SlotsOf(n)
  PROVE  LET h == step_iterator(f, i)
         IN  /\ Good(h, n)
             /\ h.dir = f.dir /\ h.arrays = f.arrays
             /\ Stepped(f, h, i)
             /\ \A j \in SlotsOf(n) : j # i => h.iters[j] = f.iters[j]
<1>1. CASE f.iters[i].at = NULL \/ f.iters[i].state # "NONE"
  <2>1. step_iterator(f, i) = f
    BY <1>1 DEF step_iterator
  <2> QED BY <1>1, <2>1 DEF Stepped
<1>2. CASE f.iters[i].at # NULL /\ f.iters[i].state = "NONE"
  <2> DEFINE d == f.dir
             a == f.arrays
             it == f.iters
             l == f.live
             c == f.current
             v == f.available
             o == f.offset
             at == it[i].at
             keyed == WithKey(it, i, at)
             f1 == State(d, a, keyed, l, c, v, o)
             t == insert_pair(f1, i)
             next == iter_step(f, i)
             w == WithAt(t.iters, i, next)
             live == IF next = NULL THEN l - 1 ELSE l
             h == State(d, a, w, live, t.current, t.available, t.offset)
  <2>1. f = State(d, a, it, l, c, v, o)
    BY DEF Good, Shape, IsFold
  <2>2. /\ d \in {"NONE", "LEFT", "RIGHT"}
        /\ a \in [SlotsOf(n) -> Arrays]
        /\ it \in [SlotsOf(n) -> Iter]
        /\ c \in [SlotsOf(n) -> SlotsOf(n)]
        /\ v \in 0 .. n
        /\ o \in 0 .. n - v
        /\ l = Cardinality({j \in SlotsOf(n) : it[j].at # NULL})
        /\ Queued(it, Ids(f), v)
    BY DEF Good, Shape
  <2>3. it[i].at # NULL /\ it[i].state = "NONE"
    BY <1>2
  <2>4. [f EXCEPT !.iters[i].key = f.iters[i].at] = f1
    <3> HIDE DEF d, a, it, l, c, v, o
    <3>1. \A m : [State(d, a, it, l, c, v, o) EXCEPT !.iters[i].key = m]
             = State(d, a, WithKey(it, i, m), l, c, v, o)
      BY SMT DEF State, WithKey
    <3>2. f.iters[i].at = at
      BY DEF it
    <3> HIDE DEF at
    <3> QED BY <2>1, <3>1, <3>2
  <2>5. next \in {NULL} \cup Keys
    <3>1. f.arrays[i] \in Arrays
      BY <2>2
    <3>2. /\ After(sas[f.arrays[i]], f.iters[i].at, f.dir) \in SUBSET Keys
          /\ IsFiniteSet(After(sas[f.arrays[i]], f.iters[i].at, f.dir))
      BY <3>1, AfterIs
    <3> QED BY <3>2, FirstOfIs DEF iter_step
  <2>6. f.iters[i].at = at /\ f.dir = d /\ f.arrays = a /\ f.iters = it
    OBVIOUS
  <2>7. step_iterator(f, i) =
          [t EXCEPT !.iters[i].at = next, !.live = IF next = NULL THEN @ - 1 ELSE @]
    <3> HIDE DEF f1, next
    <3> QED BY <1>2, <2>4, Zenon DEF step_iterator, next
  <2>8. Ids(f) = [x \in 0 .. v - 1 |-> c[o + x]]
    BY DEF Ids
  <2> HIDE DEF d, a, it, l, c, v, o, next
  <2>9. it[i] \in Iter /\ at \in {NULL} \cup Keys
    BY <2>2 DEF Iter
  <2>10. /\ keyed \in [SlotsOf(n) -> Iter]
         /\ keyed[i].key = at /\ keyed[i].at = it[i].at /\ keyed[i].state = it[i].state
         /\ \A j \in SlotsOf(n) : j # i => keyed[j] = it[j]
    BY <2>2, <2>9, WriteIters
  <2> HIDE DEF keyed, at
  <2>11. Good(f1, n)
    <3>1. /\ IsFold(f1)
          /\ f1.dir = d /\ f1.arrays = a /\ f1.iters = keyed /\ f1.live = l
          /\ f1.current = c /\ f1.available = v /\ f1.offset = o
      BY StateFields
    <3> HIDE DEF f1
    <3>2. Ids(f1) = Ids(f)
      BY <2>8, <3>1 DEF Ids
    <3>3. {j \in SlotsOf(n) : keyed[j].at # NULL} = {j \in SlotsOf(n) : it[j].at # NULL}
      BY <2>10
    <3>4. \A x \in 0 .. v - 1 : Ids(f)[x] \in SlotsOf(n) /\ Ids(f)[x] # i
      <4>1. \A x \in 0 .. v - 1 : o + x \in SlotsOf(n)
        BY <2>2 DEF SlotsOf
      <4>2. DOMAIN it = SlotsOf(n)
        BY <2>2
      <4>3. \A x \in 0 .. v - 1 : Ids(f)[x] \in SlotsOf(n)
        BY <2>2, <2>8, <4>1
      <4>4. ~ \E x \in 0 .. v - 1 : Ids(f)[x] = i
        BY <2>2, <2>3, <4>2 DEF Queued
      <4> QED BY <4>3, <4>4
    <3>5. Queued(keyed, Ids(f), v)
      <4>1. DOMAIN it = SlotsOf(n) /\ DOMAIN keyed = SlotsOf(n) /\ v \in Nat
        BY <2>2, <2>10
      <4>2. \A j \in SlotsOf(n) : keyed[j].state = it[j].state
        BY <2>10
      <4>3. \A x \in 0 .. v - 1 : keyed[Ids(f)[x]].key = it[Ids(f)[x]].key
        BY <2>10, <3>4
      <4> QED BY <2>2, <3>4, <4>1, <4>2, <4>3, QueuedSame
    <3>6. Shape(f1, n)
      BY <2>2, <2>10, <3>1, <3>3 DEF Shape
    <3> QED BY <3>1, <3>2, <3>5, <3>6 DEF Good
  <2>12. /\ f1.dir = d /\ f1.arrays = a /\ f1.iters = keyed /\ f1.live = l
    BY StateFields
  <2> HIDE DEF f1
  <2>13. /\ Good(t, n)
         /\ t.dir = d /\ t.arrays = a /\ t.live = l
         /\ t.iters[i].state # "NONE"
         /\ t.iters[i].key = at /\ t.iters[i].at = it[i].at
         /\ \A j \in SlotsOf(n) : j # i => t.iters[j] = it[j]
    BY <2>3, <2>10, <2>11, <2>12, InsertGood
  <2> HIDE DEF t
  <2>14. /\ t = State(d, a, t.iters, l, t.current, t.available, t.offset)
         /\ t.iters \in [SlotsOf(n) -> Iter]
    BY <2>13 DEF Good, Shape, IsFold
  <2>15. /\ w \in [SlotsOf(n) -> Iter]
         /\ w[i].at = next /\ w[i].key = at /\ w[i].state = t.iters[i].state
         /\ \A j \in SlotsOf(n) : j # i => w[j] = t.iters[j]
    BY <2>5, <2>13, <2>14, WriteIters
  <2>16. step_iterator(f, i) = h
    <3> DEFINE u == [t EXCEPT !.iters[i].at = next]
    <3>1. u = State(d, a, w, l, t.current, t.available, t.offset)
      <4> DEFINE x == t.iters
                 y == t.current
                 z == t.available
                 e == t.offset
      <4> HIDE DEF x, y, z, e
      <4>1. t = State(d, a, x, l, y, z, e)
        BY <2>14 DEF x, y, z, e
      <4>2. [State(d, a, x, l, y, z, e) EXCEPT !.iters[i].at = next]
             = State(d, a, WithAt(x, i, next), l, y, z, e)
        BY SMT DEF State, WithAt
      <4> QED BY <4>1, <4>2 DEF x, y, z, e
    <3>2. step_iterator(f, i) = PutLive(u, IF next = NULL THEN u.live - 1 ELSE u.live)
      BY <2>7, Zenon DEF PutLive
    <3> HIDE DEF u, w
    <3>3. u.live = l
      BY <3>1, StateFields
    <3> HIDE DEF h, live
    <3>4. step_iterator(f, i) = PutLive(u, live)
      BY <3>2, <3>3 DEF live
    <3> QED BY <3>1, <3>4, PutFields DEF h
  <2> HIDE DEF w, live
  <2>17. /\ IsFold(h)
         /\ h.dir = d /\ h.arrays = a /\ h.iters = w /\ h.live = live
         /\ h.current = t.current /\ h.available = t.available /\ h.offset = t.offset
    BY StateFields
  <2> HIDE DEF h
  <2>18. live = Cardinality({j \in SlotsOf(n) : w[j].at # NULL})
    <3> DEFINE L == {j \in SlotsOf(n) : it[j].at # NULL}
    <3>1. IsFiniteSet(L) /\ i \in L /\ l = Cardinality(L)
      <4>1. IsFiniteSet(SlotsOf(n))
        BY FS_Interval DEF SlotsOf
      <4>2. L \in SUBSET SlotsOf(n)
        OBVIOUS
      <4>3. IsFiniteSet(L)
        BY <4>1, <4>2, FS_Subset
      <4> QED BY <2>2, <2>3, <4>3
    <3>2. CASE next = NULL
      <4>1. {j \in SlotsOf(n) : w[j].at # NULL} = L \ {i}
        BY <2>13, <2>15, <3>2
      <4>2. Cardinality(L \ {i}) = Cardinality(L) - 1
        <5> HIDE DEF L
        <5> QED BY <3>1, FS_RemoveElement
      <4> QED BY <3>1, <3>2, <4>1, <4>2 DEF live
    <3>3. CASE next # NULL
      <4>1. {j \in SlotsOf(n) : w[j].at # NULL} = L
        BY <2>3, <2>13, <2>15, <3>3
      <4> QED BY <3>1, <3>3, <4>1 DEF live
    <3> QED BY <3>2, <3>3
  <2>19. Good(h, n)
    <3>1. Ids(h) = Ids(t)
      BY <2>17 DEF Ids
    <3>2. /\ Queued(t.iters, Ids(t), t.available)
          /\ t.current \in [SlotsOf(n) -> SlotsOf(n)]
          /\ t.available \in 0 .. n /\ t.offset \in 0 .. n - t.available
      BY <2>13 DEF Good, Shape
    <3>3. \A j \in SlotsOf(n) : w[j].state = t.iters[j].state /\ w[j].key = t.iters[j].key
      BY <2>13, <2>15
    <3>4. Queued(w, Ids(t), t.available)
      <4>1. /\ DOMAIN t.iters = SlotsOf(n) /\ DOMAIN w = SlotsOf(n)
            /\ t.available \in Nat
        BY <2>14, <2>15, <3>2
      <4>2. \A x \in 0 .. t.available - 1 : Ids(t)[x] \in SlotsOf(n)
        <5>1. \A x \in 0 .. t.available - 1 : t.offset + x \in SlotsOf(n)
          BY <3>2 DEF SlotsOf
        <5> QED BY <3>2, <5>1 DEF Ids
      <4> QED BY <3>2, <3>3, <4>1, <4>2, QueuedSame
    <3>5. Shape(h, n)
      BY <2>2, <2>15, <2>17, <2>18, <3>2 DEF Shape
    <3> QED BY <2>17, <3>1, <3>4, <3>5 DEF Good
  <2>20. Stepped(f, h, i)
    <3>1. at = f.iters[i].at
      BY <2>6
    <3> QED BY <2>13, <2>15, <2>17, <1>2, <3>1 DEF Stepped, next
  <2>21. \A j \in SlotsOf(n) : j # i => h.iters[j] = f.iters[j]
    BY <2>6, <2>13, <2>15, <2>17
  <2> QED BY <2>6, <2>16, <2>17, <2>19, <2>20, <2>21
<1> QED BY <1>1, <1>2

\* The loop gives each iterator its turn.
LEMMA StepsGood ==
  ASSUME Stored, NEW n \in Nat, NEW f, Good(f, n)
  PROVE  LET h == step_active_iterators(f)
         IN  /\ Good(h, n)
             /\ h.dir = f.dir /\ h.arrays = f.arrays
             /\ \A j \in SlotsOf(n) : Stepped(f, h, j)
<1>1. DOMAIN f.iters = SlotsOf(n) /\ Cardinality(SlotsOf(n)) = n
  <2>1. DOMAIN f.iters = SlotsOf(n)
    BY DEF Good, Shape
  <2>2. Cardinality(0 .. n - 1) = n
    BY FS_Interval
  <2> QED BY <2>1, <2>2 DEF SlotsOf
<1> DEFINE Is(g) == g = [m \in 0 .. n |->
             IF m = 0 THEN f
             ELSE CHOOSE h \in {step_iterator(e, m - 1) : e \in {g[m - 1]}} : TRUE]
<1>2. \E g : Is(g)
  <2> DEFINE All == [dir : {"NONE", "LEFT", "RIGHT"}, arrays : [SlotsOf(n) -> Arrays],
                     iters : [SlotsOf(n) -> Iter], live : Nat,
                     current : [SlotsOf(n) -> SlotsOf(n)],
                     available : 0 .. n, offset : 0 .. n]
             S == {e \in All : Good(e, n)}
             step == [p \in Nat \X S |->
                        IF p[1] < n THEN step_iterator(p[2], p[1]) ELSE p[2]]
  <2>1. ASSUME NEW e, Good(e, n)
        PROVE  e \in S
    <3>1. /\ e.dir \in {"NONE", "LEFT", "RIGHT"}
          /\ e.arrays \in [SlotsOf(n) -> Arrays]
          /\ e.iters \in [SlotsOf(n) -> Iter]
          /\ e.current \in [SlotsOf(n) -> SlotsOf(n)]
          /\ e.available \in 0 .. n
          /\ e.offset \in 0 .. n
          /\ e.live = Cardinality({i \in SlotsOf(n) : e.iters[i].at # NULL})
      BY <2>1 DEF Good, Shape
    <3>2. e.live \in Nat
      <4>1. IsFiniteSet(SlotsOf(n))
        BY FS_Interval DEF SlotsOf
      <4>2. IsFiniteSet({i \in SlotsOf(n) : e.iters[i].at # NULL})
        BY <4>1, FS_Subset
      <4> QED BY <3>1, <4>2, FS_CardinalityType
    <3>3. e = [dir |-> e.dir, arrays |-> e.arrays, iters |-> e.iters, live |-> e.live,
               current |-> e.current, available |-> e.available, offset |-> e.offset]
      BY <2>1 DEF Good, Shape, IsFold, State
    <3>4. e \in All
      BY <3>1, <3>2, <3>3
    <3> QED BY <2>1, <3>4
  <2>2. \A e \in S : Good(e, n)
    OBVIOUS
  <2> HIDE DEF S
  <2>3. step \in [Nat \X S -> S]
    <3>1. ASSUME NEW m \in Nat, NEW e \in S
          PROVE  (IF m < n THEN step_iterator(e, m) ELSE e) \in S
      <4>1. CASE m < n
        <5>1. m \in SlotsOf(n)
          BY <4>1 DEF SlotsOf
        <5>2. Good(step_iterator(e, m), n)
          BY <2>2, <5>1, TurnGood
        <5> QED BY <2>1, <4>1, <5>2
      <4> QED BY <4>1
    <3> QED BY <3>1
  <2>4. f \in S
    BY <2>1
  <2> HIDE DEF step
  <2>5. PICK g \in [Nat -> S] : \A m \in Nat : Recurs(g, m, f, step)
    BY <2>3, <2>4, RecursionExists
  <2> DEFINE t == [m \in 0 .. n |-> g[m]]
  <2>6. ASSUME NEW m \in 0 .. n
        PROVE  g[m] = IF m = 0 THEN f
             ELSE CHOOSE h \in {step_iterator(e, m - 1) : e \in {t[m - 1]}} : TRUE
    <3>1. CASE m = 0
      <4>1. Recurs(g, 0, f, step)
        BY <2>5
      <4> QED BY <3>1, <4>1 DEF Recurs
    <3>2. CASE m # 0
      <4>1. m - 1 \in Nat /\ m - 1 \in 0 .. m - 1 /\ (m - 1) + 1 = m /\ m - 1 < n
            /\ m - 1 \in 0 .. n
        BY <3>2
      <4>2. g[m] = step[<<m - 1, g[m - 1]>>]
        <5>1. Recurs(g, m, f, step)
          BY <2>5
        <5> QED BY <4>1, <5>1 DEF Recurs
      <4>3. <<m - 1, g[m - 1]>> \in Nat \X S
        BY <2>5, <4>1
      <4>4. g[m] = step_iterator(g[m - 1], m - 1)
        BY <4>1, <4>2, <4>3 DEF step
      <4>5. t[m - 1] = g[m - 1]
        BY <4>1
      <4> HIDE DEF t
      <4>6. {step_iterator(e, m - 1) : e \in {t[m - 1]}} = {g[m]}
        BY <4>4, <4>5
      <4> QED BY <3>2, <4>6
    <3> QED BY <3>1, <3>2
  <2>7. Is(t)
    BY <2>6
  <2> HIDE DEF t, Is
  <2> QED BY <2>7
<1> DEFINE turns == CHOOSE g : Is(g)
<1>3. Is(turns)
  BY <1>2
<1>4. step_active_iterators(f) = turns[n]
  BY <1>1 DEF step_active_iterators
<1> HIDE DEF turns
<1>5. \A m \in 0 .. n : turns[m] =
             IF m = 0 THEN f
             ELSE CHOOSE h \in {step_iterator(e, m - 1) : e \in {turns[m - 1]}} : TRUE
  BY <1>3, Zenon
<1>6. turns[0] = f
  BY <1>5
<1>7. \A m \in 1 .. n : turns[m] = step_iterator(turns[m - 1], m - 1)
  <2>1. ASSUME NEW m \in 1 .. n
        PROVE  turns[m] = step_iterator(turns[m - 1], m - 1)
    <3>1. turns[m] = CHOOSE h \in {step_iterator(e, m - 1) : e \in {turns[m - 1]}} : TRUE
      <4>1. m \in 0 .. n /\ m # 0
        OBVIOUS
      <4> QED BY <1>5, <4>1
    <3>2. {step_iterator(e, m - 1) : e \in {turns[m - 1]}} = {step_iterator(turns[m - 1], m - 1)}
      OBVIOUS
    <3> QED BY <3>1, <3>2
  <2> QED BY <2>1
<1> DEFINE R(m) ==
      /\ Good(turns[m], n)
      /\ turns[m].dir = f.dir /\ turns[m].arrays = f.arrays
      /\ \A j \in SlotsOf(n) : IF j < m THEN Stepped(f, turns[m], j)
                               ELSE turns[m].iters[j] = f.iters[j]
           T == {m \in Nat : m <= n => R(m)}
<1>8. 0 \in T
  <2>1. \A j \in SlotsOf(n) : ~(j < 0)
    BY DEF SlotsOf
  <2> QED BY <1>6, <2>1
<1>9. ASSUME NEW m \in Nat, m \in T
      PROVE  m + 1 \in T
  <2>1. SUFFICES ASSUME m + 1 <= n
                 PROVE  R(m + 1)
    <3> HIDE DEF R
    <3> QED OBVIOUS
  <2>2. m \in SlotsOf(n) /\ m + 1 \in 1 .. n /\ (m + 1) - 1 = m
    BY <2>1 DEF SlotsOf
  <2>3. R(m)
    BY <1>9, <2>1
  <2> DEFINE g == turns[m]
             h == turns[m + 1]
  <2>4. h = step_iterator(g, m)
    BY <1>7, <2>2
  <2> HIDE DEF g, h
  <2>5. Good(g, n) /\ g.dir = f.dir /\ g.arrays = f.arrays
    BY <2>3 DEF g
  <2>6. \A j \in SlotsOf(n) : IF j < m THEN Stepped(f, g, j) ELSE g.iters[j] = f.iters[j]
    BY <2>3 DEF g
  <2>7. /\ Good(h, n)
        /\ h.dir = g.dir /\ h.arrays = g.arrays
        /\ Stepped(g, h, m)
        /\ \A j \in SlotsOf(n) : j # m => h.iters[j] = g.iters[j]
    BY <2>2, <2>4, <2>5, TurnGood
  <2>8. g.iters[m] = f.iters[m]
    BY <2>2, <2>6
  <2>9. iter_step(g, m) = iter_step(f, m)
    BY <2>5, <2>8 DEF iter_step
  <2>10. Stepped(f, h, m)
    BY <2>7, <2>8, <2>9 DEF Stepped
  <2>11. \A j \in SlotsOf(n) : IF j < m + 1 THEN Stepped(f, h, j)
                               ELSE h.iters[j] = f.iters[j]
    <3>1. ASSUME NEW j \in SlotsOf(n)
          PROVE  IF j < m + 1 THEN Stepped(f, h, j) ELSE h.iters[j] = f.iters[j]
      <4>1. CASE j = m
        BY <2>10, <4>1
      <4>2. CASE j < m
        <5>1. Stepped(f, g, j) /\ h.iters[j] = g.iters[j]
          BY <2>6, <2>7, <4>2
        <5>2. Stepped(f, h, j)
          BY <5>1 DEF Stepped
        <5>3. j < m + 1
          BY <4>2 DEF SlotsOf
        <5> QED BY <5>2, <5>3
      <4>3. CASE j > m
        <5>1. ~(j < m) /\ j # m /\ ~(j < m + 1)
          BY <4>3 DEF SlotsOf
        <5> QED BY <2>6, <2>7, <5>1
      <4>4. j = m \/ j < m \/ j > m
        BY DEF SlotsOf
      <4> QED BY <4>1, <4>2, <4>3, <4>4
    <3> QED BY <3>1
  <2> QED BY <2>5, <2>7, <2>11 DEF h
<1>10. Nat \subseteq T
  <2> HIDE DEF T
  <2> QED BY <1>8, <1>9, NaturalsInSet
<1>11. R(n)
  <2>1. n \in T
    BY <1>10
  <2> HIDE DEF R
  <2> QED BY <2>1
<1>12. \A j \in SlotsOf(n) : j < n
  BY DEF SlotsOf
<1> QED BY <1>4, <1>11, <1>12

-----------------------------------------------------------------------------
(* Giving the next pairs to the callback.                                  *)

\* next_used gives a run of pairs with one key.
LEMMA UsedIs ==
  ASSUME NEW n \in Nat, NEW g, Good(g, n), g.available # 0
  PROVE  /\ next_used(g) \in 1 .. g.available
         /\ \A c \in 0 .. next_used(g) - 1 : g.iters[Ids(g)[c]].key = g.iters[Ids(g)[0]].key
<1> DEFINE v == g.available
           id(c) == g.current[g.offset + c]
           IsEq(c) == g.iters[id(c)].state = "EQ"
           Is(used) == /\ \A c \in 0 .. used - 1 : IsEq(c) \/ used = 1
                       /\ used < v /\ IsEq(0) => ~IsEq(used)
<1>1. v \in Nat /\ v >= 1
  BY DEF Good, Shape
<1>2. \E used \in 1 .. v : Is(used)
  <2> HIDE DEF v, IsEq
  <2>1. CASE ~IsEq(0)
    <3>1. 1 \in 1 .. v /\ Is(1)
      BY <1>1, <2>1
    <3> QED BY <3>1
  <2>2. CASE IsEq(0)
    <3> DEFINE T == {c \in 1 .. v : c = v \/ ~IsEq(c)}
    <3>1. v \in T /\ T \in SUBSET Nat
      BY <1>1
    <3>2. PICK u \in T : \A m \in T : u <= m
      <4> HIDE DEF T
      <4> QED BY <3>1, LeastNatural
    <3>3. \A c \in 1 .. u - 1 : c \in 1 .. v /\ c \notin T /\ c # v
      BY <1>1, <3>2
    <3>4. \A c \in 1 .. u - 1 : IsEq(c)
      BY <3>3
    <3>5. Is(u)
      BY <1>1, <2>2, <3>2, <3>4
    <3> QED BY <3>2, <3>5
  <2> QED BY <2>1, <2>2
<1>3. next_used(g) = CHOOSE used \in 1 .. v : Is(used)
  BY DEF next_used
<1> DEFINE used == next_used(g)
<1>4. used \in 1 .. v /\ Is(used)
  <2> HIDE DEF v, Is
  <2> QED BY <1>2, <1>3
<1> HIDE DEF used
<1>5. \A c \in 0 .. v - 1 : Ids(g)[c] = id(c)
  BY DEF Ids
<1>6. \A c \in 0 .. used - 1 : IsEq(c) \/ used = 1
  BY <1>4
<1> HIDE DEF id, v
<1>7. ASSUME NEW c \in 0 .. used - 1, c + 1 \in 0 .. used - 1
      PROVE  g.iters[Ids(g)[c + 1]].key = g.iters[Ids(g)[c]].key
  <2>1. c \in 0 .. v - 1 /\ used # 1
    BY <1>1, <1>4, <1>7
  <2>2. g.iters[Ids(g)[c]].state = "EQ"
    BY <1>5, <1>6, <2>1
  <2> QED BY <2>1, <2>2 DEF Good, Queued, v
<1> HIDE DEF Is
<1> DEFINE T == {c \in Nat : c \in 0 .. used - 1 =>
                   g.iters[Ids(g)[c]].key = g.iters[Ids(g)[0]].key}
<1>8. 0 \in T
  OBVIOUS
<1>9. ASSUME NEW c \in Nat, c \in T
      PROVE  c + 1 \in T
  <2>1. c + 1 \in 0 .. used - 1 => c \in 0 .. used - 1
    BY <1>4
  <2> QED BY <1>7, <1>9, <2>1
<1>10. Nat \subseteq T
  <2> HIDE DEF T
  <2> QED BY <1>8, <1>9, NaturalsInSet
<1>11. \A c \in 0 .. used - 1 : c \in Nat
  BY <1>1, <1>4
<1> QED BY <1>4, <1>10, <1>11 DEF used, v

\* The state that call_with_next leaves.
Called(g, used) ==
  State(g.dir, g.arrays,
        [i \in DOMAIN g.iters |->
           IF i \in {Ids(g)[c] : c \in 0 .. used - 1}
             THEN [g.iters[i] EXCEPT !.state = "NONE"] ELSE g.iters[i]],
        g.live, g.current, g.available - used, g.offset + used)

\* call_with_next gives the pairs of the first used slots, and leaves that state.
LEMMA CallIs ==
  ASSUME NEW n \in Nat, NEW g, Good(g, n), g.available # 0, call_with_next(g)
  PROVE  LET used == next_used(g)
         IN  /\ fs' = Called(g, used)
             /\ \E run \in [1 .. used -> SlotsOf(n)] :
                  /\ ToSet(run) = {Ids(g)[c] : c \in 0 .. used - 1}
                  /\ out' = Append(out, [key |-> g.iters[Ids(g)[0]].key, run |-> run])
<1> DEFINE used == next_used(g)
           run == [c \in 1 .. used |-> g.current[g.offset + c - 1]]
<1>1. used \in 1 .. g.available /\ g.available \in 0 .. n /\ g.offset \in 0 .. n - g.available
      /\ g.current \in [SlotsOf(n) -> SlotsOf(n)]
  BY UsedIs DEF Good, Shape
<1>2. /\ out' = Append(out, [key |-> g.iters[run[1]].key, run |-> run])
      /\ fs' = [g EXCEPT
                  !.available = @ - used,
                  !.offset    = @ + used,
                  !.iters     = [i \in DOMAIN @ |->
                    IF i \in ToSet(run) THEN [@[i] EXCEPT !.state = "NONE"] ELSE @[i]]]
  BY DEF call_with_next
<1> HIDE DEF used
<1>3. \A c \in 0 .. used - 1 : /\ c + 1 \in 1 .. used
                               /\ g.offset + (c + 1) - 1 = g.offset + c
                               /\ c \in 0 .. g.available - 1
  BY <1>1
<1>4. \A c \in 1 .. used : /\ c - 1 \in 0 .. used - 1
                           /\ g.offset + c - 1 = g.offset + (c - 1)
                           /\ c - 1 \in 0 .. g.available - 1
                           /\ g.offset + c - 1 \in SlotsOf(n)
  BY <1>1 DEF SlotsOf
<1>5. \A c \in 0 .. used - 1 : run[c + 1] = Ids(g)[c]
  BY <1>3 DEF Ids
<1>6. run \in [1 .. used -> SlotsOf(n)]
  BY <1>1, <1>4
<1>7. ToSet(run) = {Ids(g)[c] : c \in 0 .. used - 1}
  <2>1. ToSet(run) = {run[c] : c \in 1 .. used}
    BY DEF ToSet
  <2>2. \A c \in 1 .. used : run[c] = Ids(g)[c - 1]
    BY <1>4 DEF Ids
  <2> HIDE DEF run
  <2> QED BY <1>3, <1>4, <1>5, <2>1, <2>2
<1>8. run[1] = Ids(g)[0]
  <2>1. 0 \in 0 .. used - 1 /\ 0 + 1 = 1
    BY <1>1
  <2> HIDE DEF run
  <2> QED BY <1>5, <2>1
<1>9. fs' = Called(g, used)
  <2> DEFINE d == g.dir
             a == g.arrays
             it == g.iters
             l == g.live
             c == g.current
             v == g.available
             o == g.offset
             g1 == PutAvail(g, v - used)
             g2 == PutOffset(g1, g1.offset + used)
             w(x) == [i \in DOMAIN x |->
                        IF i \in ToSet(run) THEN [x[i] EXCEPT !.state = "NONE"] ELSE x[i]]
  <2>1. g = State(d, a, it, l, c, v, o)
    BY DEF Good, Shape, IsFold
  <2> HIDE DEF run
  <2>2. fs' = PutIters(g2, w(g2.iters))
    BY <1>2, Zenon DEF PutAvail, PutOffset, PutIters
  <2>3. w(g.iters) = [i \in DOMAIN g.iters |->
           IF i \in {Ids(g)[k] : k \in 0 .. used - 1}
             THEN [g.iters[i] EXCEPT !.state = "NONE"] ELSE g.iters[i]]
    BY <1>7
  <2>4. Called(g, used) = State(d, a, w(it), l, c, v - used, o + used)
    BY <2>3 DEF Called
  <2> HIDE DEF d, a, it, l, c, v, o, w
  <2>5. g1 = State(d, a, it, l, c, v - used, o)
    BY <2>1, PutFields
  <2> HIDE DEF g1
  <2>6. g1.offset = o
    BY <2>5, StateFields
  <2>7. g2 = State(d, a, it, l, c, v - used, o + used)
    BY <2>5, <2>6, PutFields
  <2> HIDE DEF g2
  <2>8. g2.iters = it
    BY <2>7, StateFields
  <2> QED BY <2>2, <2>4, <2>7, <2>8, PutFields
<1> HIDE DEF run
<1> QED BY <1>2, <1>6, <1>7, <1>8, <1>9 DEF used

\* The pairs given are no longer pending; the others, and the iterators, are
\* as they were.
LEMMA CalledGood ==
  ASSUME NEW n \in Nat, NEW g, Good(g, n), NEW used \in 1 .. g.available
  PROVE  LET h == Called(g, used)
         IN  /\ Good(h, n)
             /\ h.dir = g.dir /\ h.arrays = g.arrays
             /\ \A i \in SlotsOf(n) :
                  /\ h.iters[i].at = g.iters[i].at /\ h.iters[i].key = g.iters[i].key
                  /\ h.iters[i].state = IF i \in {Ids(g)[c] : c \in 0 .. used - 1}
                                        THEN "NONE" ELSE g.iters[i].state
<1> DEFINE d == g.dir
           a == g.arrays
           it == g.iters
           l == g.live
           c == g.current
           v == g.available
           o == g.offset
           given == {Ids(g)[k] : k \in 0 .. used - 1}
           w == [i \in DOMAIN it |-> IF i \in given THEN [it[i] EXCEPT !.state = "NONE"]
                                     ELSE it[i]]
           h == State(d, a, w, l, c, v - used, o + used)
<1>1. /\ d \in {"NONE", "LEFT", "RIGHT"}
      /\ a \in [SlotsOf(n) -> Arrays]
      /\ it \in [SlotsOf(n) -> Iter]
      /\ c \in [SlotsOf(n) -> SlotsOf(n)]
      /\ v \in 0 .. n
      /\ o \in 0 .. n - v
      /\ l = Cardinality({j \in SlotsOf(n) : it[j].at # NULL})
      /\ Queued(it, Ids(g), v)
  BY DEF Good, Shape
<1>2. Called(g, used) = h
  BY DEF Called
<1>3. used \in 1 .. v
  OBVIOUS
<1>4. Ids(g) = [x \in 0 .. v - 1 |-> c[o + x]]
  BY DEF Ids
<1> HIDE DEF d, a, it, l, c, v, o, given
<1>5. \A i \in SlotsOf(n) :
        /\ w[i] \in Iter
        /\ w[i].at = it[i].at /\ w[i].key = it[i].key
        /\ w[i].state = IF i \in given THEN "NONE" ELSE it[i].state
  <2>1. ASSUME NEW i \in SlotsOf(n)
        PROVE  /\ w[i] \in Iter
               /\ w[i].at = it[i].at /\ w[i].key = it[i].key
               /\ w[i].state = IF i \in given THEN "NONE" ELSE it[i].state
    <3>1. /\ it[i] \in Iter
          /\ w[i] = IF i \in given THEN [it[i] EXCEPT !.state = "NONE"] ELSE it[i]
      BY <1>1
    <3>2. \A e \in Iter : LET x == [e EXCEPT !.state = "NONE"]
                          IN x \in Iter /\ x.at = e.at /\ x.key = e.key /\ x.state = "NONE"
      BY DEF Iter
    <3> HIDE DEF w
    <3> QED BY <3>1, <3>2
  <2> QED BY <2>1
<1>6. w \in [SlotsOf(n) -> Iter]
  <2>1. w = [i \in SlotsOf(n) |-> w[i]]
    BY <1>1
  <2> HIDE DEF w
  <2> QED BY <1>5, <2>1
<1> HIDE DEF w
<1>7. /\ IsFold(h)
      /\ h.dir = d /\ h.arrays = a /\ h.iters = w /\ h.live = l
      /\ h.current = c /\ h.available = v - used /\ h.offset = o + used
  BY StateFields
<1> HIDE DEF h
<1> DEFINE q == Ids(g)
           r == Ids(h)
<1>8. \A x \in 0 .. (v - used) - 1 : x + used \in 0 .. v - 1 /\ r[x] = q[x + used]
  <2>1. \A x \in 0 .. (v - used) - 1 : x + used \in 0 .. v - 1
                                       /\ o + (x + used) = (o + used) + x
    BY <1>1, <1>3
  <2>2. Ids(h) = [x \in 0 .. (v - used) - 1 |-> c[(o + used) + x]]
    BY <1>7 DEF Ids
  <2>3. \A x \in 0 .. (v - used) - 1 : Ids(h)[x] = c[o + (x + used)]
    BY <2>1, <2>2
  <2>4. \A x \in 0 .. v - 1 : Ids(g)[x] = c[o + x]
    BY <1>4
  <2> QED BY <2>1, <2>3, <2>4
<1>9. \A x \in 0 .. v - 1 : q[x] \in SlotsOf(n)
  <2>1. \A x \in 0 .. v - 1 : o + x \in SlotsOf(n)
    BY <1>1 DEF SlotsOf
  <2> QED BY <1>1, <1>4, <2>1
<1> HIDE DEF r, q
<1>10. Queued(it, q, v)
  BY <1>1 DEF q
<1>11. given = {q[k] : k \in 0 .. used - 1}
  BY DEF given, q
<1>12. \A x, y \in 0 .. v - 1 : q[x] = q[y] => x = y
  <2>1. ASSUME NEW x \in 0 .. v - 1, NEW y \in 0 .. v - 1, q[x] = q[y]
        PROVE  x = y
    <3>1. ~(x < y) /\ ~(y < x)
      BY <1>10, <2>1 DEF Queued
    <3> QED BY <3>1
  <2> QED BY <2>1
<1>13. \A x \in 0 .. v - 1 : q[x] \in given <=> x < used
  <2>1. \A k \in 0 .. used - 1 : k \in 0 .. v - 1
    BY <1>1, <1>3
  <2>2. \A x \in 0 .. v - 1 : x < used <=> x \in 0 .. used - 1
    BY <1>1, <1>3
  <2> QED BY <1>11, <1>12, <2>1, <2>2
<1>14. \A x \in 0 .. (v - used) - 1 :
         /\ w[r[x]].key = it[q[x + used]].key
         /\ w[r[x]].state = it[q[x + used]].state
  <2>1. \A x \in 0 .. (v - used) - 1 : ~(x + used < used)
    BY <1>1, <1>3
  <2> QED BY <1>5, <1>8, <1>9, <1>13, <2>1
<1>15. Queued(w, r, v - used)
  <2>1. ASSUME NEW x \in 0 .. (v - used) - 1, NEW y \in 0 .. (v - used) - 1, x < y
        PROVE  r[x] # r[y] /\ w[r[x]].key <= w[r[y]].key
    <3>1. x + used < y + used
      BY <1>1, <1>3, <2>1
    <3> QED BY <1>8, <1>10, <1>14, <3>1 DEF Queued
  <2>2. ASSUME NEW i \in SlotsOf(n)
        PROVE  w[i].state # "NONE" <=> \E x \in 0 .. (v - used) - 1 : r[x] = i
    <3>1. it[i].state # "NONE" <=> \E x \in 0 .. v - 1 : q[x] = i
      BY <1>1, <1>10 DEF Queued
    <3>2. ASSUME NEW x \in 0 .. v - 1, q[x] = i, i \notin given
          PROVE  \E y \in 0 .. (v - used) - 1 : r[y] = i
      <4>1. x - used \in 0 .. (v - used) - 1 /\ (x - used) + used = x
        BY <1>1, <1>3, <1>13, <3>2
      <4> QED BY <1>8, <3>2, <4>1
    <3>3. ASSUME NEW x \in 0 .. (v - used) - 1, r[x] = i
          PROVE  i \notin given /\ it[i].state # "NONE"
      <4>1. x + used \in 0 .. v - 1 /\ q[x + used] = i /\ ~(x + used < used)
        BY <1>1, <1>3, <1>8, <3>3
      <4> QED BY <1>13, <3>1, <4>1
    <3> QED BY <1>5, <3>1, <3>2, <3>3
  <2>3. ASSUME NEW x \in 0 .. (v - used) - 1
        PROVE  w[r[x]].state = "EQ"
                 <=> x + 1 < v - used /\ w[r[x]].key = w[r[x + 1]].key
    <3>1. it[q[x + used]].state = "EQ"
            <=> (x + used) + 1 < v /\ it[q[x + used]].key = it[q[(x + used) + 1]].key
      BY <1>8, <1>10 DEF Queued
    <3>2. x + 1 < v - used <=> (x + used) + 1 < v
      BY <1>1, <1>3
    <3>3. x + 1 < v - used => x + 1 \in 0 .. (v - used) - 1 /\ (x + 1) + used = (x + used) + 1
      BY <1>1, <1>3
    <3> QED BY <1>14, <3>1, <3>2, <3>3
  <2>4. DOMAIN w = SlotsOf(n)
    BY <1>6
  <2> QED BY <2>1, <2>2, <2>3, <2>4 DEF Queued
<1>16. {j \in SlotsOf(n) : w[j].at # NULL} = {j \in SlotsOf(n) : it[j].at # NULL}
  BY <1>5
<1>17. v - used \in 0 .. n /\ o + used \in 0 .. n - (v - used)
  BY <1>1, <1>3
<1>18. Good(h, n)
  BY <1>1, <1>6, <1>7, <1>15, <1>16, <1>17 DEF Good, Shape, r
<1> QED BY <1>2, <1>5, <1>7, <1>18 DEF d, a, it, given

\* Before the callback every live iterator has a pending pair, and there is one.
LEMMA ReadyIs ==
  ASSUME Stored, NEW n \in Nat, Good(fs, n), fs.live > 0 \/ fs.available > 0,
         NEW g, g = IF fs.live > 0 THEN step_active_iterators(fs) ELSE fs
  PROVE  /\ Good(g, n)
         /\ g.available # 0
         /\ g.dir = fs.dir /\ g.arrays = fs.arrays
         /\ \A i \in SlotsOf(n) : Stepped(fs, g, i)
         /\ \A i \in SlotsOf(n) : g.iters[i].at # NULL => g.iters[i].state # "NONE"
<1> DEFINE L == {i \in SlotsOf(n) : fs.iters[i].at # NULL}
<1>1. IsFiniteSet(L) /\ fs.live = Cardinality(L) /\ fs.available \in Nat
  <2>1. IsFiniteSet(SlotsOf(n))
    BY FS_Interval DEF SlotsOf
  <2>2. IsFiniteSet(L)
    BY <2>1, FS_Subset
  <2> QED BY <2>2 DEF Good, Shape
<1>2. (fs.live = 0) = (L = {}) /\ fs.live \in Nat
  <2> HIDE DEF L
  <2> QED BY <1>1, FS_EmptySet, FS_CardinalityType
<1>3. Good(g, n) /\ g.dir = fs.dir /\ g.arrays = fs.arrays
      /\ \A i \in SlotsOf(n) : Stepped(fs, g, i)
  <2>1. CASE fs.live > 0
    BY <2>1, StepsGood
  <2>2. CASE ~(fs.live > 0)
    <3>1. L = {}
      BY <1>2, <2>2
    <3>2. \A i \in SlotsOf(n) : fs.iters[i].at = NULL
      BY <3>1
    <3> QED BY <2>2, <3>2 DEF Stepped
  <2> QED BY <2>1, <2>2
<1>4. \A i \in SlotsOf(n) : g.iters[i].at # NULL => g.iters[i].state # "NONE"
  <2>1. ASSUME NEW i \in SlotsOf(n), g.iters[i].at # NULL
        PROVE  g.iters[i].state # "NONE"
    <3>1. Stepped(fs, g, i)
      BY <1>3
    <3>2. CASE fs.iters[i].at = NULL \/ fs.iters[i].state # "NONE"
      BY <2>1, <3>1, <3>2 DEF Stepped
    <3>3. CASE ~(fs.iters[i].at = NULL \/ fs.iters[i].state # "NONE")
      BY <3>1, <3>3 DEF Stepped
    <3> QED BY <3>2, <3>3
  <2> QED BY <2>1
<1>5. g.available # 0
  <2>1. CASE fs.live > 0
    <3>1. PICK i \in SlotsOf(n) : fs.iters[i].at # NULL
      BY <1>2, <2>1
    <3>2. g.iters[i].state # "NONE"
      <4>1. Stepped(fs, g, i)
        BY <1>3
      <4> QED BY <3>1, <4>1 DEF Stepped
    <3>3. \E c \in 0 .. g.available - 1 : Ids(g)[c] = i
      <4>1. DOMAIN g.iters = SlotsOf(n)
        BY <1>3 DEF Good, Shape
      <4> QED BY <1>3, <3>2, <4>1 DEF Good, Queued
    <3>4. g.available \in Nat
      BY <1>3 DEF Good, Shape
    <3> QED BY <3>3, <3>4
  <2>2. CASE ~(fs.live > 0)
    BY <1>1, <1>2, <2>2
  <2> QED BY <2>1, <2>2
<1> QED BY <1>3, <1>4, <1>5

-----------------------------------------------------------------------------
(* The invariant.                                                          *)

Call == [key : {NULL} \cup Keys, run : Seq(Nat)]

\* In a fold to the left, nothing given is behind what is pending or under an
\* iterator, and an iterator is ahead of its pending pair.
Ahead(f, calls) ==
  f.dir = "LEFT" =>
    \A i \in DOMAIN f.iters :
      LET it == f.iters[i]
      IN  /\ it.state # "NONE" /\ it.at # NULL => it.key < it.at
          /\ \A c \in DOMAIN calls :
               /\ it.at # NULL => calls[c].key <= it.at
               /\ it.state # "NONE" => calls[c].key <= it.key

FoldInv ==
  /\ Stored
  /\ \E n \in Nat : Good(fs, n)
  /\ out \in Seq(Call)
  /\ (fs = Idle) = (fs.dir = "NONE")
  /\ fs = Idle => out = << >>
  /\ Ahead(fs, out)
  /\ LeftAscends

\* A fold that is not in progress has no slots.
LEMMA IdleGood == Good(Idle, 0) /\ Idle.dir = "NONE" /\ Idle.iters = << >>
<1>1. Idle = State("NONE", << >>, << >>, 0, << >>, 0, 0)
  BY DEF Idle, State
<1>2. /\ IsFold(Idle) /\ Idle.dir = "NONE" /\ Idle.arrays = << >> /\ Idle.iters = << >>
      /\ Idle.live = 0 /\ Idle.current = << >> /\ Idle.available = 0 /\ Idle.offset = 0
  BY <1>1, StateFields
<1>3. SlotsOf(0) = {}
  BY DEF SlotsOf
<1>4. \A T : << >> \in [SlotsOf(0) -> T]
  BY <1>3
<1>5. Cardinality({i \in SlotsOf(0) : Idle.iters[i].at # NULL}) = 0
  <2>1. {i \in SlotsOf(0) : Idle.iters[i].at # NULL} = {}
    BY <1>3
  <2> QED BY <2>1, FS_EmptySet
<1> HIDE DEF Idle
<1>6. Shape(Idle, 0)
  <2>1. /\ Idle.arrays \in [SlotsOf(0) -> Arrays]
        /\ Idle.iters \in [SlotsOf(0) -> Iter]
        /\ Idle.current \in [SlotsOf(0) -> SlotsOf(0)]
    BY <1>2, <1>4
  <2>2. Idle.available \in 0 .. 0 /\ Idle.offset \in 0 .. 0 - Idle.available
    BY <1>2
  <2>3. Idle.live = Cardinality({i \in SlotsOf(0) : Idle.iters[i].at # NULL})
    BY <1>2, <1>5
  <2> QED BY <1>2, <2>1, <2>2, <2>3 DEF Shape
<1>7. Queued(Idle.iters, Ids(Idle), Idle.available)
  <2>1. DOMAIN Idle.iters = {} /\ 0 .. Idle.available - 1 = {}
    BY <1>2
  <2> QED BY <2>1 DEF Queued
<1> QED BY <1>2, <1>6, <1>7 DEF Good

\* skiparray_fold_multi_init leaves a state with one iterator for each
\* skiparray, and nothing pending.
LEMMA StartGood ==
  ASSUME Stored, NEW n \in Nat \ {0}, NEW dir \in {"LEFT", "RIGHT"},
         NEW arrays \in [0 .. n - 1 -> Arrays]
  PROVE  LET h == fold_state(dir, arrays)
         IN  /\ Good(h, n)
             /\ h.dir = dir /\ h.arrays = arrays
             /\ \A i \in SlotsOf(n) :
                  /\ h.iters[i].at = FirstOf(sas[arrays[i]], dir)
                  /\ h.iters[i].state = "NONE"
<1> DEFINE it == [i \in DOMAIN arrays |->
                    [at |-> FirstOf(sas[arrays[i]], dir), state |-> "NONE", key |-> NULL]]
           c == [x \in DOMAIN arrays |-> 0]
           h == State(dir, arrays, it, live_count(arrays), c, 0, 0)
<1>1. fold_state(dir, arrays) = h
  BY DEF fold_state, State
<1>2. DOMAIN arrays = SlotsOf(n) /\ 0 \in SlotsOf(n) /\ arrays \in [SlotsOf(n) -> Arrays]
  BY DEF SlotsOf
<1>3. c \in [SlotsOf(n) -> SlotsOf(n)]
  BY <1>2
<1>4. \A i \in SlotsOf(n) :
        /\ FirstOf(sas[arrays[i]], dir) \in {NULL} \cup Keys
        /\ (FirstOf(sas[arrays[i]], dir) = NULL) = (sas[arrays[i]] = {})
  <2>1. ASSUME NEW i \in SlotsOf(n)
        PROVE  /\ FirstOf(sas[arrays[i]], dir) \in {NULL} \cup Keys
               /\ (FirstOf(sas[arrays[i]], dir) = NULL) = (sas[arrays[i]] = {})
    <3>1. sas[arrays[i]] \in SUBSET Keys /\ IsFiniteSet(sas[arrays[i]])
      BY <1>2 DEF Stored
    <3> QED BY <3>1, FirstOfIs
  <2> QED BY <2>1
<1>5. it \in [SlotsOf(n) -> Iter]
  BY <1>2, <1>4 DEF Iter
<1>6. \A i \in SlotsOf(n) :
        it[i].at = FirstOf(sas[arrays[i]], dir) /\ it[i].state = "NONE"
  BY <1>2
<1> HIDE DEF it, c
<1>7. live_count(arrays) = Cardinality({i \in SlotsOf(n) : it[i].at # NULL})
  <2>1. {i \in SlotsOf(n) : it[i].at # NULL} = {i \in DOMAIN arrays : sas[arrays[i]] # {}}
    BY <1>2, <1>4, <1>6
  <2> QED BY <2>1 DEF live_count
<1>8. /\ IsFold(h) /\ h.dir = dir /\ h.arrays = arrays /\ h.iters = it
      /\ h.live = live_count(arrays)
      /\ h.current = c /\ h.available = 0 /\ h.offset = 0
  BY StateFields
<1> HIDE DEF h
<1>9. Shape(h, n)
  BY <1>2, <1>3, <1>5, <1>7, <1>8 DEF Shape
<1>10. Queued(h.iters, Ids(h), h.available)
  <2>1. 0 .. h.available - 1 = {} /\ DOMAIN h.iters = SlotsOf(n)
    BY <1>5, <1>8
  <2> QED BY <1>6, <1>8, <2>1 DEF Queued
<1> QED BY <1>1, <1>6, <1>8, <1>9, <1>10 DEF Good

\* A call of the callback keeps the order of a fold to the left: what it is
\* given is the least pending key, and no iterator is behind a pending pair.
LEMMA CallAhead ==
  ASSUME Stored, NEW n \in Nat, Good(fs, n), out \in Seq(Call), Ahead(fs, out),
         LeftAscends, NEW g, Good(g, n), g.available # 0,
         g.dir = fs.dir, g.arrays = fs.arrays,
         \A i \in SlotsOf(n) : Stepped(fs, g, i),
         \A i \in SlotsOf(n) : g.iters[i].at # NULL => g.iters[i].state # "NONE",
         call_with_next(g)
  PROVE  /\ Good(fs', n)
         /\ fs'.dir = fs.dir
         /\ out' \in Seq(Call)
         /\ Ahead(fs', out')
         /\ LeftAscends'
<1> DEFINE used == next_used(g)
           k0 == g.iters[Ids(g)[0]].key
<1>1. used \in 1 .. g.available
  BY UsedIs
<1>2. fs' = Called(g, used)
  BY CallIs
<1>3. PICK run \in [1 .. used -> SlotsOf(n)] : out' = Append(out, [key |-> k0, run |-> run])
  BY CallIs
<1> HIDE DEF used
<1>4. /\ Good(fs', n)
      /\ fs'.dir = fs.dir
      /\ \A i \in SlotsOf(n) :
           /\ fs'.iters[i].at = g.iters[i].at /\ fs'.iters[i].key = g.iters[i].key
           /\ fs'.iters[i].state # "NONE" => g.iters[i].state # "NONE"
  BY <1>1, <1>2, CalledGood
<1>5. /\ DOMAIN fs.iters = SlotsOf(n) /\ DOMAIN fs'.iters = SlotsOf(n)
      /\ DOMAIN g.iters = SlotsOf(n) /\ fs.iters \in [SlotsOf(n) -> Iter]
      /\ g.iters \in [SlotsOf(n) -> Iter]
      /\ fs.arrays \in [SlotsOf(n) -> Arrays]
      /\ g.available \in 0 .. n
  BY <1>4 DEF Good, Shape
<1>6. \A i \in SlotsOf(n) : g.iters[i].state # "NONE" => k0 <= g.iters[i].key
  <2>1. ASSUME NEW i \in SlotsOf(n), g.iters[i].state # "NONE"
        PROVE  k0 <= g.iters[i].key
    <3>1. PICK c \in 0 .. g.available - 1 : Ids(g)[c] = i
      BY <1>5, <2>1 DEF Good, Queued
    <3>2. CASE c = 0
      <4>1. g.iters[i].key \in {NULL} \cup Keys
        BY <1>5 DEF Iter
      <4>2. k0 = g.iters[i].key /\ g.iters[i].key \in Nat
        BY <3>1, <3>2, <4>1, KeyIsNumber
      <4> QED BY <4>2
    <3>3. CASE c # 0
      <4>1. 0 \in 0 .. g.available - 1 /\ 0 < c
        BY <1>5, <3>1, <3>3
      <4> QED BY <3>1, <4>1 DEF Good, Queued
    <3> QED BY <3>2, <3>3
  <2> QED BY <2>1
<1>7. g.iters[Ids(g)[0]].state # "NONE" /\ Ids(g)[0] \in SlotsOf(n)
  <2>1. 0 \in 0 .. g.available - 1
    BY <1>5
  <2>2. g.current \in [SlotsOf(n) -> SlotsOf(n)] /\ g.offset + 0 \in SlotsOf(n)
    BY <1>5 DEF Good, Shape, SlotsOf
  <2>3. Ids(g)[0] \in SlotsOf(n)
    BY <2>1, <2>2 DEF Ids
  <2> QED BY <1>5, <2>1, <2>3 DEF Good, Queued
<1>8. k0 \in {NULL} \cup Keys /\ k0 \in Nat
  <2>1. k0 \in {NULL} \cup Keys
    BY <1>5, <1>7 DEF Iter
  <2> QED BY <2>1, KeyIsNumber
<1>9. \A i \in SlotsOf(n) : /\ g.iters[i].key \in Nat /\ g.iters[i].at \in Nat
                            /\ fs.iters[i].key \in Nat /\ fs.iters[i].at \in Nat
  <2>1. \A i \in SlotsOf(n) : /\ g.iters[i] \in Iter /\ fs.iters[i] \in Iter
    BY <1>5
  <2> QED BY <2>1, KeyIsNumber DEF Iter
<1>10. /\ out' \in Seq(Call)
       /\ Len(out') = Len(out) + 1 /\ Len(out) \in Nat
       /\ \A c \in 1 .. Len(out) : out'[c] = out[c]
       /\ out'[Len(out) + 1].key = k0
  <2>1. run \in Seq(Nat)
    <3>1. run \in Seq(SlotsOf(n))
      BY <1>1, <1>5
    <3>2. SlotsOf(n) \subseteq Nat
      BY DEF SlotsOf
    <3> QED BY <3>1, <3>2
  <2>2. [key |-> k0, run |-> run] \in Call
    BY <1>8, <2>1 DEF Call
  <2> DEFINE e == [key |-> k0, run |-> run]
  <2>3. e.key = k0
    OBVIOUS
  <2> HIDE DEF k0, e
  <2> QED BY <1>3, <2>2, <2>3, AppendProperties, LenProperties DEF e
<1>11. DOMAIN out = 1 .. Len(out) /\ DOMAIN out' = 1 .. Len(out) + 1
  BY <1>10
<1>12. \A c \in 1 .. Len(out) : out[c].key \in Nat
  <2>1. \A c \in 1 .. Len(out) : out[c] \in Call
    BY ElementOfSeq
  <2> QED BY <2>1, KeyIsNumber DEF Call
<1> HIDE DEF k0
<1>13. ASSUME fs.dir = "LEFT", NEW i \in SlotsOf(n)
       PROVE  /\ g.iters[i].state # "NONE" /\ g.iters[i].at # NULL
                   => g.iters[i].key < g.iters[i].at
              /\ \A c \in 1 .. Len(out) :
                   /\ g.iters[i].at # NULL => out[c].key <= g.iters[i].at
                   /\ g.iters[i].state # "NONE" => out[c].key <= g.iters[i].key
  <2>1. /\ fs.iters[i].state # "NONE" /\ fs.iters[i].at # NULL
             => fs.iters[i].key < fs.iters[i].at
        /\ \A c \in 1 .. Len(out) :
             /\ fs.iters[i].at # NULL => out[c].key <= fs.iters[i].at
             /\ fs.iters[i].state # "NONE" => out[c].key <= fs.iters[i].key
    BY <1>5, <1>11, <1>13 DEF Ahead
  <2>2. Stepped(fs, g, i)
    OBVIOUS
  <2>3. CASE fs.iters[i].at = NULL \/ fs.iters[i].state # "NONE"
    <3>1. g.iters[i] = fs.iters[i]
      BY <2>2, <2>3 DEF Stepped
    <3> QED BY <2>1, <3>1
  <2>4. CASE ~(fs.iters[i].at = NULL \/ fs.iters[i].state # "NONE")
    <3>1. /\ g.iters[i].key = fs.iters[i].at
          /\ g.iters[i].at = iter_step(fs, i)
      BY <2>2, <2>4 DEF Stepped
    <3> DEFINE S == After(sas[fs.arrays[i]], fs.iters[i].at, fs.dir)
    <3>2. S \in SUBSET Keys /\ IsFiniteSet(S)
      BY <1>5, AfterIs
    <3>3. g.iters[i].at # NULL => g.iters[i].at \in S
      <4>1. g.iters[i].at = FirstOf(S, fs.dir)
        BY <3>1 DEF iter_step
      <4> HIDE DEF S
      <4> QED BY <3>2, <4>1, FirstOfIs
    <3>4. \A j \in S : j > fs.iters[i].at
      BY <1>13 DEF After
    <3>5. g.iters[i].at # NULL => g.iters[i].key < g.iters[i].at
      <4> HIDE DEF S
      <4> QED BY <1>9, <3>1, <3>3, <3>4
    <3>6. \A c \in 1 .. Len(out) : out[c].key <= g.iters[i].key
      BY <2>1, <2>4, <3>1
    <3> QED BY <1>9, <1>12, <3>5, <3>6
  <2> QED BY <2>3, <2>4
<1>14. Ahead(fs', out')
  <2>1. ASSUME fs.dir = "LEFT", NEW i \in SlotsOf(n)
        PROVE  LET it == fs'.iters[i]
               IN  /\ it.state # "NONE" /\ it.at # NULL => it.key < it.at
                   /\ \A c \in DOMAIN out' :
                       /\ it.at # NULL => out'[c].key <= it.at
                       /\ it.state # "NONE" => out'[c].key <= it.key
    <3> DEFINE it == fs'.iters[i]
    <3>1. /\ it.at = g.iters[i].at /\ it.key = g.iters[i].key
          /\ it.state # "NONE" => g.iters[i].state # "NONE"
      BY <1>4
    <3> HIDE DEF it
    <3>2. it.state # "NONE" /\ it.at # NULL => it.key < it.at
      BY <1>13, <2>1, <3>1
    <3>3. ASSUME NEW c \in DOMAIN out'
          PROVE  /\ it.at # NULL => out'[c].key <= it.at
                 /\ it.state # "NONE" => out'[c].key <= it.key
      <4>1. CASE c \in 1 .. Len(out)
        BY <1>10, <1>13, <2>1, <3>1, <4>1
      <4>2. CASE c = Len(out) + 1
        <5>1. out'[c].key = k0
          BY <1>10, <4>2
        <5>2. it.state # "NONE" => k0 <= it.key
          BY <1>6, <3>1
        <5>3. it.at # NULL => k0 <= it.at
          <6>1. it.at # NULL => k0 <= g.iters[i].key /\ g.iters[i].key < g.iters[i].at
            BY <1>6, <1>13, <2>1, <3>1
          <6> QED BY <1>8, <1>9, <3>1, <6>1
        <5> QED BY <5>1, <5>2, <5>3
      <4> QED BY <1>10, <1>11, <4>1, <4>2
    <3> QED BY <3>2, <3>3 DEF it
  <2> QED BY <1>4, <1>5, <2>1 DEF Ahead
<1>15. LeftAscends'
  <2>1. ASSUME fs'.dir = "LEFT", NEW c \in DOMAIN out', NEW d \in DOMAIN out', c < d
        PROVE  out'[c].key <= out'[d].key
    <3>1. fs.dir = "LEFT"
      BY <1>4, <2>1
    <3>2. c \in 1 .. Len(out) /\ (d \in 1 .. Len(out) \/ d = Len(out) + 1)
      BY <1>10, <1>11, <2>1
    <3>3. CASE d \in 1 .. Len(out)
      BY <1>10, <1>11, <2>1, <3>1, <3>2, <3>3 DEF LeftAscends
    <3>4. CASE d = Len(out) + 1
      <4>1. out[c].key <= g.iters[Ids(g)[0]].key
        BY <1>7, <1>13, <3>1, <3>2
      <4> QED BY <1>10, <3>2, <3>4, <4>1 DEF k0
    <3> QED BY <3>2, <3>3, <3>4
  <2> QED BY <2>1 DEF LeftAscends
<1> QED BY <1>4, <1>10, <1>14, <1>15

\* A skiparray that is locked may not change, and a key is set or forgotten at
\* a time: what is stored stays finite.
LEMMA ChangeStored ==
  ASSUME Stored, NEW a \in Arrays, NEW key \in Keys, Change(a, key)
  PROVE  Stored'
<1> DEFINE new == IF key \in sas[a] THEN sas[a] \ {key} ELSE sas[a] \cup {key}
<1>1. sas[a] \in SUBSET Keys /\ IsFiniteSet(sas[a])
  BY DEF Stored
<1>2. IsFiniteSet(sas[a] \ {key}) /\ IsFiniteSet(sas[a] \cup {key})
  BY <1>1, FS_RemoveElement, FS_AddElement
<1>3. new \in SUBSET Keys /\ IsFiniteSet(new)
  BY <1>1, <1>2
<1>4. sas' = [sas EXCEPT ![a] = new]
  BY Zenon DEF Change
<1> HIDE DEF new
<1>5. /\ sas' \in [Arrays -> SUBSET Keys]
      /\ \A b \in Arrays : sas'[b] = IF b = a THEN new ELSE sas[b]
  BY <1>3, <1>4 DEF Stored
<1> QED BY <1>3, <1>5 DEF Stored

\* No fold is in progress at first.
LEMMA FoldInit == ASSUME Init PROVE FoldInv
<1>1. Stored
  BY FS_EmptySet DEF Init, Stored
<1>2. fs = Idle /\ fs.dir = "NONE" /\ fs.iters = << >> /\ Good(fs, 0) /\ out = << >>
  BY IdleGood DEF Init
<1>3. Ahead(fs, out) /\ LeftAscends
  BY <1>2 DEF Ahead, LeftAscends
<1> QED BY <1>1, <1>2, <1>3 DEF FoldInv

\* A fold that ends, or is halted, leaves nothing.
LEMMA EndInv ==
  ASSUME FoldInv, End
  PROVE  FoldInv'
<1>1. fs' = Idle /\ out' = << >> /\ sas' = sas
  BY DEF End, fold_halt
<1>2. fs'.dir = "NONE" /\ fs'.iters = << >> /\ Good(fs', 0)
  BY <1>1, IdleGood
<1>3. Ahead(fs', out') /\ LeftAscends' /\ Stored'
  BY <1>1, <1>2 DEF Ahead, LeftAscends, FoldInv, Stored
<1> QED BY <1>1, <1>2, <1>3 DEF FoldInv

\* The start of a fold keeps the invariant.
LEMMA StartInv ==
  ASSUME FoldInv, NEW n \in 1 .. MaxCount, NEW dir \in Directions,
         NEW arrays \in [0 .. n - 1 -> Arrays], Start(dir, arrays)
  PROVE  FoldInv'
<1>1. /\ n \in Nat \ {0} /\ dir \in {"LEFT", "RIGHT"} /\ Stored
  BY FoldAssumption DEF FoldInv
<1>2. fs' = fold_state(dir, arrays) /\ sas' = sas /\ out' = out /\ out = << >>
  BY DEF Start, Active, FoldInv
<1>3. Good(fs', n) /\ fs'.dir = dir
  BY <1>1, <1>2, StartGood
<1>4. \A i \in DOMAIN fs'.iters : fs'.iters[i].state = "NONE"
  <2>1. DOMAIN fs'.iters = SlotsOf(n)
    BY <1>3 DEF Good, Shape
  <2> QED BY <1>1, <1>2, <2>1, StartGood
<1>5. Ahead(fs', out') /\ LeftAscends' /\ Stored'
  BY <1>1, <1>2, <1>4 DEF Ahead, LeftAscends, Stored
<1>6. (fs' = Idle) = (fs'.dir = "NONE")
  BY <1>1, <1>3, IdleGood
<1>7. n \in Nat
  BY <1>1
<1> QED BY <1>1, <1>2, <1>3, <1>5, <1>6, <1>7 DEF FoldInv

\* A call of skiparray_fold_next that gives a pair.
LEMMA NextInv ==
  ASSUME FoldInv, fs.live > 0 \/ fs.available > 0, UNCHANGED <<sas, begun>>,
         NEW g, g = IF fs.live > 0 THEN step_active_iterators(fs) ELSE fs,
         call_with_next(g), Active
  PROVE  FoldInv'
<1>1. PICK n \in Nat : Good(fs, n)
  BY DEF FoldInv
<1>2. Stored /\ out \in Seq(Call) /\ Ahead(fs, out) /\ LeftAscends
  BY DEF FoldInv
<1>3. /\ Good(g, n) /\ g.available # 0
      /\ g.dir = fs.dir /\ g.arrays = fs.arrays
      /\ \A i \in SlotsOf(n) : Stepped(fs, g, i)
      /\ \A i \in SlotsOf(n) : g.iters[i].at # NULL => g.iters[i].state # "NONE"
  BY <1>1, <1>2, ReadyIs
<1>4. /\ Good(fs', n)
      /\ fs'.dir = fs.dir
      /\ out' \in Seq(Call)
      /\ Ahead(fs', out')
      /\ LeftAscends'
  BY <1>1, <1>2, <1>3, CallAhead
<1>5. fs'.dir # "NONE" /\ fs' # Idle
  BY <1>4, IdleGood DEF FoldInv, Active
<1>6. Stored'
  BY <1>2 DEF Stored
<1> QED BY <1>4, <1>5, <1>6 DEF FoldInv

\* Every step keeps the invariant,
LEMMA FoldStep ==
  ASSUME FoldInv, [Next]_vars
  PROVE  FoldInv'
<1>1. ASSUME NEW dir \in Directions, NEW n \in 1 .. MaxCount,
             NEW arrays \in [0 .. n - 1 -> Arrays], Start(dir, arrays)
      PROVE  FoldInv'
  BY <1>1, StartInv
<1>2. CASE FoldNext
  <2>1. CASE End
    BY <2>1, EndInv
  <2>2. CASE ~End
    BY <1>2, <2>2, NextInv DEF FoldNext
  <2> QED BY <2>1, <2>2
<1>3. CASE Halt
  BY <1>3, EndInv DEF Halt
<1>4. ASSUME NEW a \in Arrays, NEW key \in Keys, Change(a, key)
      PROVE  FoldInv'
  <2>1. Stored'
    BY <1>4, ChangeStored DEF FoldInv
  <2>2. fs' = fs /\ out' = out
    BY <1>4 DEF Change
  <2> QED BY <2>1, <2>2 DEF FoldInv, LeftAscends
<1>5. CASE UNCHANGED vars
  BY <1>5 DEF FoldInv, LeftAscends, Stored, vars
<1> QED BY <1>1, <1>2, <1>3, <1>4, <1>5 DEF Next

\* and so it always holds.
LEMMA FoldAlways == Spec => []FoldInv
<1>1. Init => FoldInv
  BY FoldInit
<1>2. FoldInv /\ [Next]_vars => FoldInv'
  BY FoldStep
<1> QED BY <1>1, <1>2, PTL DEF Spec

\* What the code keeps in the fields of a fold state, and where the pending
\* ids lie in their array, whatever the order in which fold_next makes room
\* for them at the front and takes them off it.
THEOREM FoldTypeCorrect == Spec => []TypeOK
<1>1. ASSUME FoldInv
      PROVE  TypeOK
  <2>1. PICK n \in Nat : Good(fs, n)
    BY <1>1 DEF FoldInv
  <2>2. DOMAIN fs.iters = SlotsOf(n) /\ Cardinality(SlotsOf(n)) = n
    <3>1. Cardinality(0 .. n - 1) = n
      BY FS_Interval
    <3> QED BY <2>1, <3>1 DEF Good, Shape, SlotsOf
  <2>3. fs.offset >= 0 /\ fs.available >= 0 /\ fs.offset + fs.available <= n
    BY <2>1 DEF Good, Shape
  <2>4. /\ DOMAIN fs.current = SlotsOf(n)
        /\ \A c \in SlotsOf(n) : fs.current[c] \in SlotsOf(n)
        /\ fs.live = Cardinality({i \in SlotsOf(n) : fs.iters[i].at # NULL})
        /\ \A i \in SlotsOf(n) : fs.iters[i] \in Iter
        /\ fs.dir \in {"NONE", "LEFT", "RIGHT"}
    BY <2>1 DEF Good, Shape
  <2> QED BY <1>1, <2>2, <2>3, <2>4 DEF TypeOK, Slots, FoldInv, Stored, Iter
<1> QED BY <1>1, FoldAlways, PTL

\* The ids that fold_next sorts, moves to the front and takes from the front:
\* they are the slots whose pair has not been given, each once, in the order
\* of the keys, and EQ marks just the runs of equal keys.
THEOREM FoldPending == Spec => []PendingExact
<1>1. ASSUME FoldInv
      PROVE  PendingExact
  <2>1. PICK n \in Nat : Good(fs, n)
    BY <1>1 DEF FoldInv
  <2> DEFINE v == fs.available
             q == Ids(fs)
             p == Pending
  <2>2. v \in Nat /\ fs.offset \in Nat /\ DOMAIN fs.iters = SlotsOf(n)
    BY <2>1 DEF Good, Shape
  <2>3. Queued(fs.iters, q, v)
    BY <2>1 DEF Good
  <2>4. /\ DOMAIN p = 1 .. v
        /\ \A c \in 1 .. v : c - 1 \in 0 .. v - 1 /\ p[c] = q[c - 1]
    <3>1. \A c \in 1 .. v : c - 1 \in 0 .. v - 1 /\ fs.offset + c - 1 = fs.offset + (c - 1)
      BY <2>2
    <3>2. \A c \in 1 .. v : p[c] = fs.current[fs.offset + c - 1]
      BY DEF Pending
    <3>3. \A x \in 0 .. v - 1 : q[x] = fs.current[fs.offset + x]
      BY DEF Ids
    <3>4. DOMAIN p = 1 .. v
      BY DEF Pending
    <3> HIDE DEF p, q
    <3> QED BY <3>1, <3>2, <3>3, <3>4
  <2>5. \A x \in 0 .. v - 1 : x + 1 \in 1 .. v /\ p[x + 1] = q[x]
    <3>1. \A x \in 0 .. v - 1 : x + 1 \in 1 .. v /\ (x + 1) - 1 = x
      BY <2>2
    <3> HIDE DEF p, q
    <3> QED BY <2>4, <3>1
  <2> HIDE DEF p, q, v
  <2>6. ToSet(p) = {i \in SlotsOf(n) : fs.iters[i].state # "NONE"}
    <3>1. \A i \in SlotsOf(n) : fs.iters[i].state # "NONE" <=> \E x \in 0 .. v - 1 : q[x] = i
      BY <2>2, <2>3 DEF Queued
    <3>2. \A x \in 0 .. v - 1 : q[x] \in SlotsOf(n)
      <4>1. \A x \in 0 .. v - 1 : fs.offset + x \in SlotsOf(n)
        BY <2>1 DEF Good, Shape, SlotsOf, v
      <4> QED BY <2>1, <4>1 DEF Good, Shape, Ids, q, v
    <3>3. ToSet(p) = {p[c] : c \in 1 .. v}
      BY <2>4 DEF ToSet
    <3> QED BY <2>4, <2>5, <3>1, <3>2, <3>3
  <2>7. ASSUME NEW c \in 1 .. v, NEW d \in 1 .. v, c < d
        PROVE  p[c] # p[d] /\ Key(p[c]) <= Key(p[d])
    <3>1. c - 1 < d - 1
      BY <2>2, <2>7
    <3> QED BY <2>3, <2>4, <3>1 DEF Queued, Key
  <2>8. ASSUME NEW c \in 1 .. v
        PROVE  fs.iters[p[c]].state = "EQ" <=> c < v /\ Key(p[c]) = Key(p[c + 1])
    <3>1. (c - 1) + 1 = c
      BY <2>2
    <3>2. fs.iters[q[c - 1]].state = "EQ"
            <=> c < v /\ fs.iters[q[c - 1]].key = fs.iters[q[c]].key
      BY <2>3, <2>4, <3>1 DEF Queued
    <3>3. c < v => q[c] = p[c + 1]
      BY <2>2, <2>5
    <3> QED BY <2>4, <3>2, <3>3 DEF Key
  <2>9. p = Pending /\ v = fs.available
    BY DEF p, v
  <2> QED BY <2>2, <2>4, <2>6, <2>7, <2>8, <2>9 DEF PendingExact, Slots
<1> QED BY <1>1, FoldAlways, PTL

\* The callback of skiparray_fold(LEFT, ...) never gets a key that is less
\* than one it got before, over any skiparrays, whichever of them end first.
THEOREM FoldLeftAscends == Spec => []LeftAscends
<1>1. FoldInv => LeftAscends
  BY DEF FoldInv
<1> QED BY <1>1, FoldAlways, PTL

-----------------------------------------------------------------------------
(* The keys of a set in the order of a fold.                               *)

Earlier(j, k, dir) == IF dir = "LEFT" THEN j < k ELSE j > k

InOrder(s, dir) == \A j, k \in DOMAIN s : j < k => Earlier(s[j], s[k], dir)

ListingOf(S, dir) == CHOOSE s \in [1 .. Cardinality(S) -> S] : InOrder(s, dir)

\* Of two keys one comes first.
LEMMA EarlierIs ==
  ASSUME NEW dir
  PROVE  /\ \A i, j, k \in Nat : Earlier(i, j, dir) /\ Earlier(j, k, dir) => Earlier(i, k, dir)
         /\ \A j \in Nat : ~Earlier(j, j, dir)
         /\ \A j, k \in Nat : NotAfter(j, k, dir) <=> j = k \/ Earlier(j, k, dir)
<1>1. CASE dir = "LEFT"
  BY <1>1 DEF Earlier, NotAfter
<1>2. CASE dir # "LEFT"
  BY <1>2 DEF Earlier, NotAfter
<1> QED BY <1>1, <1>2

\* A set of keys is its first key and those after it.
LEMMA FirstAndRest ==
  ASSUME NEW S \in SUBSET Keys, IsFiniteSet(S), S # {}, NEW dir
  PROVE  LET first == FirstOf(S, dir)
             rest  == After(S, first, dir)
         IN  /\ first \in S /\ first \notin rest /\ S = {first} \cup rest
             /\ rest \in SUBSET Keys /\ IsFiniteSet(rest)
             /\ Cardinality(S) = Cardinality(rest) + 1
             /\ \A k \in rest : Earlier(first, k, dir)
<1> DEFINE first == FirstOf(S, dir)
           rest  == After(S, first, dir)
<1>1. first \in S /\ \A j \in S : NotAfter(first, j, dir)
  BY FirstOfIs
<1>2. S \in SUBSET Nat
  BY FoldAssumption
<1>3. rest = {j \in S : Earlier(first, j, dir)}
  BY DEF After, Earlier
<1> HIDE DEF first, rest
<1>4. first \notin rest /\ S = {first} \cup rest
  BY <1>1, <1>2, <1>3, EarlierIs
<1>5. rest \in SUBSET S /\ IsFiniteSet(rest)
  BY <1>3, FS_Subset
<1>6. Cardinality(S) = Cardinality(rest) + 1
  BY <1>4, <1>5, FS_AddElement
<1> QED BY <1>1, <1>3, <1>4, <1>5, <1>6 DEF first, rest

\* A listing of what comes after a first key, with this key at its front.
LEMMA ListingFront ==
  ASSUME NEW S \in SUBSET Keys, NEW first \in S, NEW dir, NEW n \in Nat,
         NEW t \in [1 .. n -> {k \in S : Earlier(first, k, dir)}], InOrder(t, dir)
  PROVE  /\ One(first) ++ t \in [1 .. n + 1 -> S]
         /\ InOrder(One(first) ++ t, dir)
<1> DEFINE s == One(first) ++ t
<1>1. S \in SUBSET Nat
  BY FoldAssumption
<1>2. t \in Seq(S) /\ Len(t) = n /\ \A j \in 1 .. n : t[j] \in S /\ Earlier(first, t[j], dir)
  OBVIOUS
<1>3. /\ One(first) \in Seq(S) /\ Len(One(first)) = 1 /\ One(first)[1] = first
  BY OneProperties
<1>4. s \in Seq(S) /\ Len(s) = 1 + n
  BY <1>2, <1>3, RowProperties
<1>5. \A i \in 1 .. 1 + n : s[i] = IF i <= 1 THEN One(first)[i] ELSE t[i - 1]
  <2> DEFINE one == One(first)
  <2>1. one \in Seq(S) /\ Len(one) = 1 /\ t \in Seq(S) /\ Len(t) = n /\ s = one ++ t
    BY <1>2, <1>3
  <2> HIDE DEF one, s
  <2>2. \A i \in 1 .. Len(one) + Len(t) :
          (one ++ t)[i] = IF i <= Len(one) THEN one[i] ELSE t[i - Len(one)]
    BY <2>1, RowElements
  <2> QED BY <2>1, <2>2 DEF one
<1>6. s[1] = first /\ \A i \in 2 .. n + 1 : i - 1 \in 1 .. n /\ s[i] = t[i - 1]
  BY <1>3, <1>5
<1> HIDE DEF s
<1>7. s \in [1 .. n + 1 -> S]
  <2>1. 1 + n = n + 1 /\ DOMAIN s = 1 .. n + 1
    BY <1>4, LenProperties
  <2> QED BY <1>4, <2>1, ElementOfSeq
<1>8. ASSUME NEW j \in 1 .. n + 1, NEW k \in 1 .. n + 1, j < k
      PROVE  Earlier(s[j], s[k], dir)
  <2>1. k \in 2 .. n + 1
    BY <1>8
  <2>2. CASE j = 1
    BY <1>2, <1>6, <2>1, <2>2
  <2>3. CASE j # 1
    <3>1. j \in 2 .. n + 1 /\ j - 1 < k - 1
      BY <1>8, <2>3
    <3>2. s[j] = t[j - 1] /\ s[k] = t[k - 1] /\ j - 1 \in DOMAIN t /\ k - 1 \in DOMAIN t
      BY <1>6, <2>1, <3>1
    <3> QED BY <3>1, <3>2 DEF InOrder
  <2> QED BY <2>2, <2>3
<1>9. InOrder(s, dir)
  BY <1>7, <1>8 DEF InOrder
<1> QED BY <1>7, <1>9 DEF s

\* Every finite set of keys has a listing,
LEMMA ListingExists ==
  ASSUME NEW S \in SUBSET Keys, IsFiniteSet(S), NEW dir
  PROVE  \E s \in [1 .. Cardinality(S) -> S] : InOrder(s, dir)
<1> DEFINE Has(U) == \E s \in [1 .. Cardinality(U) -> U] : InOrder(s, dir)
           T == {n \in Nat : \A U \in SUBSET Keys :
                               IsFiniteSet(U) /\ Cardinality(U) = n => Has(U)}
<1>1. 0 \in T
  <2>1. ASSUME NEW U \in SUBSET Keys, IsFiniteSet(U), Cardinality(U) = 0
        PROVE  Has(U)
    <3>1. << >> \in [1 .. Cardinality(U) -> U] /\ InOrder(<< >>, dir)
      BY <2>1 DEF InOrder
    <3> QED BY <3>1
  <2> HIDE DEF Has
  <2> QED BY <2>1
<1>2. ASSUME NEW n \in Nat, n \in T
      PROVE  n + 1 \in T
  <2>1. ASSUME NEW U \in SUBSET Keys, IsFiniteSet(U), Cardinality(U) = n + 1
        PROVE  Has(U)
    <3> DEFINE first == FirstOf(U, dir)
               rest  == After(U, first, dir)
    <3>1. U # {}
      <4>1. n + 1 # 0
        OBVIOUS
      <4> QED BY <2>1, <4>1, FS_EmptySet
    <3>2. /\ first \in U /\ rest \in SUBSET Keys /\ IsFiniteSet(rest)
          /\ Cardinality(U) = Cardinality(rest) + 1
          /\ U = {first} \cup rest
          /\ \A k \in rest : Earlier(first, k, dir)
      BY <2>1, <3>1, FirstAndRest
    <3> HIDE DEF first, rest
    <3>3. Cardinality(rest) = n
      BY <2>1, <3>2, FS_CardinalityType
    <3>4. PICK t \in [1 .. n -> rest] : InOrder(t, dir)
      BY <1>2, <3>2, <3>3
    <3>5. t \in [1 .. n -> {k \in U : Earlier(first, k, dir)}]
      BY <3>2
    <3>6. One(first) ++ t \in [1 .. n + 1 -> U] /\ InOrder(One(first) ++ t, dir)
      BY <3>2, <3>4, <3>5, ListingFront
    <3> QED BY <2>1, <3>6
  <2> HIDE DEF Has
  <2> QED BY <2>1
<1>3. Nat \subseteq T
  <2> HIDE DEF T
  <2> QED BY <1>1, <1>2, NaturalsInSet
<1>4. Cardinality(S) \in T
  BY <1>3, FS_CardinalityType
<1> HIDE DEF Has
<1>5. Has(S)
  BY <1>4
<1> QED BY <1>5 DEF Has

\* which starts with its first key,
LEMMA ListingStarts ==
  ASSUME NEW S \in SUBSET Keys, IsFiniteSet(S), S # {}, NEW dir,
         NEW s \in [1 .. Cardinality(S) -> S], InOrder(s, dir)
  PROVE  s[1] = FirstOf(S, dir)
<1> DEFINE first == FirstOf(S, dir)
           rest  == After(S, first, dir)
           n     == Cardinality(S)
<1>1. /\ first \in S /\ S = {first} \cup rest
      /\ IsFiniteSet(rest) /\ n = Cardinality(rest) + 1
      /\ \A k \in rest : Earlier(first, k, dir)
      /\ rest \in SUBSET Keys
  BY FirstAndRest
<1>2. rest = {j \in S : Earlier(first, j, dir)}
  BY DEF After, Earlier
<1> HIDE DEF first, rest
<1>3. Cardinality(rest) \in Nat /\ n \in Nat /\ 1 \in 1 .. n
  BY <1>1, FS_CardinalityType
<1> HIDE DEF n
<1>4. S \in SUBSET Nat /\ s \in [1 .. n -> S]
  BY FoldAssumption DEF n
<1>5. SUFFICES ASSUME s[1] # first
               PROVE  FALSE
  BY DEF first
<1>6. s[1] \in rest
  BY <1>1, <1>3, <1>4, <1>5
<1>7. ASSUME NEW k \in 1 .. n
      PROVE  s[k] \in rest
  <2>1. CASE k = 1
    BY <1>6, <2>1
  <2>2. CASE k # 1
    <3>1. 1 < k
      BY <2>2
    <3>2. Earlier(s[1], s[k], dir) /\ s[k] \in S
      BY <1>3, <1>4, <3>1 DEF InOrder
    <3>3. Earlier(first, s[k], dir)
      BY <1>1, <1>4, <1>6, <3>2, EarlierIs
    <3> QED BY <1>2, <3>2, <3>3
  <2> QED BY <2>1, <2>2
<1>8. s \in [1 .. n -> rest]
  BY <1>4, <1>7
<1>9. \A j, k \in 1 .. n : s[j] = s[k] => j = k
  <2>1. ASSUME NEW j \in 1 .. n, NEW k \in 1 .. n, s[j] = s[k]
        PROVE  j = k
    <3>1. ~Earlier(s[j], s[k], dir) /\ ~Earlier(s[k], s[j], dir)
      BY <1>4, <2>1, EarlierIs
    <3>2. DOMAIN s = 1 .. n
      BY <1>4
    <3>3. ~(j < k) /\ ~(k < j)
      BY <3>1, <3>2 DEF InOrder
    <3> QED BY <3>3
  <2> QED BY <2>1
<1>10. s \in Injection(1 .. n, rest)
  BY <1>8, <1>9 DEF Injection, IsInjective
<1>11. Cardinality(1 .. n) = n
  BY <1>3, FS_Interval
<1>12. n <= Cardinality(rest)
  BY <1>1, <1>10, <1>11, FS_Injection
<1> QED BY <1>1, <1>3, <1>12

\* and there is only one.
LEMMA ListingUnique ==
  ASSUME NEW S \in SUBSET Keys, IsFiniteSet(S), NEW dir,
         NEW s \in [1 .. Cardinality(S) -> S], InOrder(s, dir),
         NEW t \in [1 .. Cardinality(S) -> S], InOrder(t, dir)
  PROVE  s = t
<1> DEFINE Same(U) == \A x, y \in [1 .. Cardinality(U) -> U] :
                        InOrder(x, dir) /\ InOrder(y, dir) => x = y
           T == {n \in Nat : \A U \in SUBSET Keys :
                               IsFiniteSet(U) /\ Cardinality(U) = n => Same(U)}
<1>1. 0 \in T
  <2>1. ASSUME NEW U \in SUBSET Keys, IsFiniteSet(U), Cardinality(U) = 0
        PROVE  Same(U)
    <3>1. 1 .. Cardinality(U) = {}
      BY <2>1
    <3>2. \A x, y \in [{} -> U] : x = y
      OBVIOUS
    <3> QED BY <3>1, <3>2
  <2> HIDE DEF Same
  <2> QED BY <2>1
<1>2. ASSUME NEW n \in Nat, n \in T
      PROVE  n + 1 \in T
  <2>1. ASSUME NEW U \in SUBSET Keys, IsFiniteSet(U), Cardinality(U) = n + 1,
               NEW x \in [1 .. n + 1 -> U], NEW y \in [1 .. n + 1 -> U],
               InOrder(x, dir), InOrder(y, dir)
        PROVE  x = y
    <3> DEFINE first == FirstOf(U, dir)
               rest  == After(U, first, dir)
               tail(z) == [i \in 1 .. n |-> z[i + 1]]
    <3>1. U # {}
      <4>1. n + 1 # 0
        OBVIOUS
      <4> QED BY <2>1, <4>1, FS_EmptySet
    <3>2. /\ rest \in SUBSET Keys /\ IsFiniteSet(rest)
          /\ Cardinality(U) = Cardinality(rest) + 1
      BY <2>1, <3>1, FirstAndRest
    <3>3. Cardinality(rest) = n
      BY <2>1, <3>2, FS_CardinalityType
    <3>4. rest = {j \in U : Earlier(first, j, dir)}
      BY DEF After, Earlier
    <3>5. x[1] = first /\ y[1] = first
      BY <2>1, <3>1, ListingStarts
    <3> HIDE DEF first, rest
    <3>6. ASSUME NEW z \in [1 .. n + 1 -> U], InOrder(z, dir), z[1] = first
          PROVE  tail(z) \in [1 .. n -> rest] /\ InOrder(tail(z), dir)
      <4>1. \A i \in 1 .. n : i + 1 \in 1 .. n + 1 /\ 1 < i + 1 /\ 1 \in 1 .. n + 1
        OBVIOUS
      <4>2. \A i \in 1 .. n : z[i + 1] \in rest
        BY <3>4, <3>6, <4>1 DEF InOrder
      <4>3. \A i, j \in 1 .. n : i < j => Earlier(z[i + 1], z[j + 1], dir)
        <5>1. \A i, j \in 1 .. n : i < j => i + 1 < j + 1
          OBVIOUS
        <5> QED BY <3>6, <4>1, <5>1 DEF InOrder
      <4> QED BY <4>2, <4>3 DEF InOrder
    <3>7. tail(x) = tail(y)
      <4> DEFINE a == tail(x)
                 b == tail(y)
      <4>1. /\ a \in [1 .. n -> rest] /\ InOrder(a, dir)
            /\ b \in [1 .. n -> rest] /\ InOrder(b, dir)
        BY <2>1, <3>5, <3>6
      <4>2. Same(rest)
        <5> HIDE DEF Same
        <5> QED BY <1>2, <3>2, <3>3
      <4> HIDE DEF a, b
      <4>3. a = b
        BY <3>3, <4>1, <4>2
      <4> QED BY <4>3 DEF a, b
    <3>8. \A i \in 1 .. n : x[i + 1] = y[i + 1]
      BY <3>7
    <3>9. \A i \in 1 .. n + 1 : i = 1 \/ (i - 1 \in 1 .. n /\ (i - 1) + 1 = i)
      OBVIOUS
    <3>10. \A i \in 1 .. n + 1 : x[i] = y[i]
      <4> HIDE DEF tail
      <4> QED BY <3>5, <3>8, <3>9
    <3> QED BY <3>10
  <2>2. ASSUME NEW U \in SUBSET Keys, IsFiniteSet(U), Cardinality(U) = n + 1
        PROVE  Same(U)
    BY <2>1, <2>2
  <2> HIDE DEF Same
  <2> QED BY <2>2
<1>3. Nat \subseteq T
  <2> HIDE DEF T
  <2> QED BY <1>1, <1>2, NaturalsInSet
<1>4. Cardinality(S) \in T
  BY <1>3, FS_CardinalityType
<1> HIDE DEF Same
<1>5. Same(S)
  BY <1>4
<1> QED BY <1>5 DEF Same

\* The listing of a set is its first key and the listing of the rest.
LEMMA ListingUnfolds ==
  ASSUME NEW dir
  PROVE  /\ ListingOf({}, dir) = << >>
         /\ \A S \in SUBSET Keys : IsFiniteSet(S) =>
              /\ ListingOf(S, dir) \in Seq(Nat)
              /\ S # {} => LET first == FirstOf(S, dir)
                           IN  ListingOf(S, dir)
                                 = One(first) ++ ListingOf(After(S, first, dir), dir)
<1>1. ASSUME NEW S \in SUBSET Keys, IsFiniteSet(S)
      PROVE  /\ ListingOf(S, dir) \in [1 .. Cardinality(S) -> S]
             /\ InOrder(ListingOf(S, dir), dir)
  BY <1>1, ListingExists DEF ListingOf
<1>2. ListingOf({}, dir) = << >>
  <2>1. {} \in SUBSET Keys /\ IsFiniteSet({}) /\ Cardinality({}) = 0
    BY FS_EmptySet
  <2>2. ListingOf({}, dir) \in [1 .. 0 -> {}]
    BY <1>1, <2>1
  <2> QED BY <2>2
<1>3. ASSUME NEW S \in SUBSET Keys, IsFiniteSet(S)
      PROVE  ListingOf(S, dir) \in Seq(Nat)
  <2>1. Cardinality(S) \in Nat /\ S \in SUBSET Nat
    BY <1>3, FS_CardinalityType, FoldAssumption
  <2>2. ListingOf(S, dir) \in [1 .. Cardinality(S) -> Nat]
    BY <1>1, <1>3, <2>1
  <2> DEFINE m == Cardinality(S)
             s == ListingOf(S, dir)
  <2> HIDE DEF m, s
  <2>3. s \in [1 .. m -> Nat] /\ m \in Nat
    BY <2>1, <2>2 DEF m, s
  <2>4. s \in Seq(Nat)
    BY <2>3
  <2> QED BY <2>4 DEF s
<1>4. ASSUME NEW S \in SUBSET Keys, IsFiniteSet(S), S # {}
      PROVE  LET first == FirstOf(S, dir)
             IN  ListingOf(S, dir) = One(first) ++ ListingOf(After(S, first, dir), dir)
  <2> DEFINE first == FirstOf(S, dir)
             rest  == After(S, first, dir)
             n     == Cardinality(rest)
             t     == ListingOf(rest, dir)
  <2>1. /\ first \in S /\ rest \in SUBSET Keys /\ IsFiniteSet(rest)
        /\ Cardinality(S) = n + 1
        /\ S = {first} \cup rest
        /\ \A k \in rest : Earlier(first, k, dir)
    BY <1>4, FirstAndRest
  <2> HIDE DEF first, rest
  <2>2. t \in [1 .. n -> rest] /\ InOrder(t, dir) /\ n \in Nat
    BY <1>1, <2>1, FS_CardinalityType
  <2> HIDE DEF t, n
  <2>3. t \in [1 .. n -> {k \in S : Earlier(first, k, dir)}]
    BY <2>1, <2>2
  <2>4. One(first) ++ t \in [1 .. n + 1 -> S] /\ InOrder(One(first) ++ t, dir)
    BY <2>1, <2>2, <2>3, ListingFront
  <2>5. ListingOf(S, dir) = One(first) ++ t
    <3> DEFINE x == ListingOf(S, dir)
               y == One(first) ++ t
    <3>1. x \in [1 .. Cardinality(S) -> S] /\ InOrder(x, dir)
      BY <1>1, <1>4
    <3>2. y \in [1 .. Cardinality(S) -> S] /\ InOrder(y, dir)
      BY <2>1, <2>4
    <3> HIDE DEF x, y
    <3>3. x = y
      BY <1>4, <3>1, <3>2, ListingUnique
    <3> QED BY <3>3 DEF x, y
  <2> QED BY <2>5 DEF first, rest, t
<1> QED BY <1>2, <1>3, <1>4

-----------------------------------------------------------------------------
(* What has been given, is pending and is still to come.                   *)

Piece(call, i) == IF i \in ToSet(call.run) THEN One(call.key) ELSE << >>

GivenOf(calls, i) == FlattenSeq([c \in DOMAIN calls |-> Piece(calls[c], i)])

HeldOf(f, i) == IF f.iters[i].state = "NONE" THEN << >> ELSE One(f.iters[i].key)

RestOf(f, i) ==
  IF f.iters[i].at = NULL THEN {}
  ELSE {f.iters[i].at} \cup After(sas[f.arrays[i]], f.iters[i].at, f.dir)

\* What is yet to be given of slot i.
ToCome(f, i) == HeldOf(f, i) ++ ListingOf(RestOf(f, i), f.dir)

\* The pairs of a slot that one more call gives.
LEMMA GivenAppend ==
  ASSUME NEW calls \in Seq(Call), NEW call \in Call, NEW i
  PROVE  /\ GivenOf(calls, i) \in Seq(Nat)
         /\ Piece(call, i) \in Seq(Nat)
         /\ GivenOf(Append(calls, call), i) = GivenOf(calls, i) ++ Piece(call, i)
         /\ GivenOf(<< >>, i) = << >>
<1>1. ASSUME NEW c \in Call
      PROVE  Piece(c, i) \in Seq(Nat)
  <2>1. c.key \in Nat
    BY KeyIsNumber DEF Call
  <2>2. One(c.key) \in Seq(Nat)
    BY <2>1, OneProperties
  <2> QED BY <2>2 DEF Piece
<1> DEFINE pieces == [c \in DOMAIN calls |-> Piece(calls[c], i)]
           more == Append(calls, call)
           all == [c \in DOMAIN more |-> Piece(more[c], i)]
<1>2. /\ more \in Seq(Call) /\ Len(more) = Len(calls) + 1 /\ Len(calls) \in Nat
      /\ \A c \in 1 .. Len(calls) : more[c] = calls[c]
      /\ more[Len(calls) + 1] = call
      /\ DOMAIN calls = 1 .. Len(calls) /\ DOMAIN more = 1 .. Len(calls) + 1
  BY AppendProperties, LenProperties
<1> HIDE DEF more
<1>3. pieces \in Seq(Seq(Nat)) /\ Len(pieces) = Len(calls)
  <2>1. \A c \in 1 .. Len(calls) : Piece(calls[c], i) \in Seq(Nat)
    BY <1>1, ElementOfSeq
  <2>2. pieces \in [1 .. Len(calls) -> Seq(Nat)]
    BY <1>2, <2>1
  <2> HIDE DEF pieces
  <2> QED BY <1>2, <2>2, LenProperties
<1>4. all = Append(pieces, Piece(call, i))
  <2> DEFINE e == Piece(call, i)
             right == Append(pieces, e)
  <2>1. e \in Seq(Nat)
    BY <1>1
  <2>2. \A c \in 1 .. Len(calls) : pieces[c] = Piece(calls[c], i)
    BY <1>2
  <2>3. all = [c \in 1 .. Len(calls) + 1 |-> Piece(more[c], i)]
    BY <1>2
  <2>4. all[Len(calls) + 1] = e
    BY <1>2, <2>3
  <2>5. \A c \in 1 .. Len(calls) : all[c] = pieces[c]
    BY <1>2, <2>2, <2>3
  <2> HIDE DEF e, pieces
  <2>6. /\ right \in Seq(Seq(Nat)) /\ Len(right) = Len(calls) + 1
        /\ \A c \in 1 .. Len(calls) : right[c] = pieces[c]
        /\ right[Len(calls) + 1] = e
        /\ DOMAIN right = 1 .. Len(calls) + 1
    BY <1>2, <1>3, <2>1, AppendProperties, LenProperties
  <2>7. right = [c \in 1 .. Len(calls) + 1 |-> right[c]]
    <3> HIDE DEF right
    <3>1. right \in [1 .. Len(calls) + 1 -> Seq(Nat)]
      BY <2>6, ElementOfSeq
    <3> QED BY <3>1
  <2> HIDE DEF right
  <2>8. DOMAIN all = 1 .. Len(calls) + 1 /\ all = [c \in 1 .. Len(calls) + 1 |-> all[c]]
    BY <2>3
  <2> HIDE DEF all
  <2>9. \A c \in 1 .. Len(calls) + 1 : all[c] = right[c]
    <3>1. \A c \in 1 .. Len(calls) + 1 : c \in 1 .. Len(calls) \/ c = Len(calls) + 1
      BY <1>2
    <3> QED BY <2>4, <2>5, <2>6, <3>1
  <2>10. all = right
    BY <2>7, <2>8, <2>9
  <2> QED BY <2>10 DEF right, e
<1>5. GivenOf(calls, i) = FlattenSeq(pieces) /\ GivenOf(more, i) = FlattenSeq(all)
  BY DEF GivenOf
<1> HIDE DEF pieces, all
<1>6. Piece(call, i) \in Seq(Nat)
  BY <1>1
<1>7. FlattenSeq(pieces) \in Seq(Nat)
  BY <1>3, FlattenType
<1>8. FlattenSeq(Append(pieces, Piece(call, i))) = FlattenSeq(pieces) ++ Piece(call, i)
  <2> DEFINE e == Piece(call, i)
  <2> HIDE DEF e
  <2>1. e \in Seq(Nat)
    BY <1>6 DEF e
  <2>2. FlattenSeq(Append(pieces, e)) = FlattenSeq(pieces) \o e
    BY <1>3, <2>1, FlattenAppend
  <2>3. FlattenSeq(Append(pieces, e)) = FlattenSeq(pieces) ++ e
    BY <2>2, Zenon DEF ++
  <2> QED BY <2>3 DEF e
<1>9. GivenOf(<< >>, i) = << >>
  <2>1. [c \in DOMAIN << >> |-> Piece(<< >>[c], i)] = << >>
    OBVIOUS
  <2> QED BY <2>1, FlattenEmpty DEF GivenOf
<1> QED BY <1>4, <1>5, <1>6, <1>7, <1>8, <1>9 DEF more

\* A turn of an iterator takes the first of what is under it: what is to come
\* of its slot stays the same.
LEMMA TurnKeeps ==
  ASSUME Stored, NEW n \in Nat, NEW f, Good(f, n), NEW g, g.dir = f.dir,
         g.arrays = f.arrays, NEW i \in SlotsOf(n), Stepped(f, g, i)
  PROVE  ToCome(g, i) = ToCome(f, i)
<1>1. CASE f.iters[i].at = NULL \/ f.iters[i].state # "NONE"
  <2>1. g.iters[i] = f.iters[i]
    BY <1>1 DEF Stepped
  <2> QED BY <2>1 DEF ToCome, HeldOf, RestOf
<1>2. CASE f.iters[i].at # NULL /\ f.iters[i].state = "NONE"
  <2> DEFINE dir == f.dir
             at  == f.iters[i].at
             A   == After(sas[f.arrays[i]], at, dir)
             S   == {at} \cup A
             next == FirstOf(A, dir)
  <2>1. /\ g.iters[i].state # "NONE" /\ g.iters[i].key = at
        /\ g.iters[i].at = next
    BY <1>2 DEF Stepped, iter_step
  <2>2. f.iters[i] \in Iter /\ f.arrays[i] \in Arrays
    BY DEF Good, Shape
  <2>3. at \in Keys
    BY <1>2, <2>2 DEF Iter
  <2>4. A \in SUBSET Keys /\ IsFiniteSet(A)
    BY <2>2, AfterIs
  <2>5. sas[f.arrays[i]] \in SUBSET Nat
    BY <2>2, FoldAssumption DEF Stored
  <2>6. A = {k \in sas[f.arrays[i]] : Earlier(at, k, dir)}
    BY DEF After, Earlier
  <2>7. RestOf(f, i) = S /\ HeldOf(f, i) = << >> /\ HeldOf(g, i) = One(at)
    BY <1>2, <2>1 DEF RestOf, HeldOf
  <2>8. RestOf(g, i) = IF next = NULL THEN {}
                       ELSE {next} \cup After(sas[f.arrays[i]], next, dir)
    BY <2>1 DEF RestOf
  <2> HIDE DEF dir, at, next, A
  <2>9. RestOf(g, i) = A
    <3>1. CASE A = {}
      <4>1. next = NULL
        BY <2>4, <3>1, FirstOfIs DEF next
      <4> QED BY <2>8, <3>1, <4>1
    <3>2. CASE A # {}
      <4>1. next # NULL /\ next \in A
        BY <2>4, <3>2, FirstOfIs DEF next
      <4>2. A = {next} \cup After(A, next, dir)
        BY <2>4, <3>2, FirstAndRest DEF next
      <4>3. After(A, next, dir) = After(sas[f.arrays[i]], next, dir)
        <5>1. \A k \in sas[f.arrays[i]] : Earlier(next, k, dir) => k \in A
          BY <2>3, <2>4, <2>5, <2>6, <4>1, EarlierIs, FoldAssumption
        <5>2. /\ After(A, next, dir) = {k \in A : Earlier(next, k, dir)}
              /\ After(sas[f.arrays[i]], next, dir)
                   = {k \in sas[f.arrays[i]] : Earlier(next, k, dir)}
          BY DEF After, Earlier
        <5> QED BY <2>6, <5>1, <5>2
      <4> QED BY <2>8, <4>1, <4>2, <4>3
    <3> QED BY <3>1, <3>2
  <2>10. /\ S \in SUBSET Keys /\ IsFiniteSet(S) /\ S # {}
         /\ FirstOf(S, dir) = at /\ After(S, at, dir) = A
    <3>1. S \in SUBSET Keys /\ IsFiniteSet(S) /\ S # {}
      BY <2>3, <2>4, FS_AddElement
    <3>2. \A k \in A : Earlier(at, k, dir)
      BY <2>6
    <3>3. ~Earlier(at, at, dir) /\ at \in Nat
      BY <2>3, EarlierIs, FoldAssumption
    <3>4. After(S, at, dir) = A
      <4>1. After(S, at, dir) = {k \in S : Earlier(at, k, dir)}
        BY DEF After, Earlier
      <4> QED BY <3>2, <3>3, <4>1
    <3>5. FirstOf(S, dir) = at
      <4> DEFINE first == FirstOf(S, dir)
      <4>1. first \in S /\ \A j \in S : NotAfter(first, j, dir)
        BY <3>1, FirstOfIs
      <4>2. first \in Nat
        BY <3>1, <4>1, FoldAssumption
      <4> HIDE DEF first
      <4>3. first = at \/ Earlier(first, at, dir)
        BY <3>3, <4>1, <4>2, EarlierIs
      <4>4. first \in A => ~Earlier(first, at, dir)
        BY <3>2, <3>3, <4>2, EarlierIs
      <4>5. first = at
        BY <4>1, <4>3, <4>4
      <4> QED BY <4>5 DEF first
    <3> QED BY <3>1, <3>4, <3>5
  <2>11. /\ ListingOf(S, dir) = One(at) ++ ListingOf(A, dir)
         /\ ListingOf(S, dir) \in Seq(Nat)
    <3> HIDE DEF S
    <3> QED BY <2>10, ListingUnfolds
  <2>12. << >> ++ ListingOf(S, dir) = ListingOf(S, dir)
    <3> HIDE DEF S
    <3> QED BY <2>11, RowEmpty
  <2>13. ToCome(f, i) = << >> ++ ListingOf(S, dir)
    BY <2>7 DEF ToCome, dir
  <2>14. ToCome(g, i) = One(at) ++ ListingOf(A, dir)
    BY <2>7, <2>9 DEF ToCome, dir
  <2> QED BY <2>11, <2>12, <2>13, <2>14
<1> QED BY <1>1, <1>2

\* What the properties say, of any state.
Whole(f, calls, i) == GivenOf(calls, i) ++ ToCome(f, i)

Kept(f, calls, i) == Whole(f, calls, i) = ListingOf(begun[i], f.dir)

\* What is to come of a slot is a sequence of keys.
LEMMA ToComeType ==
  ASSUME Stored, NEW n \in Nat, NEW f, Good(f, n), NEW i \in SlotsOf(n)
  PROVE  /\ HeldOf(f, i) \in Seq(Nat)
         /\ ListingOf(RestOf(f, i), f.dir) \in Seq(Nat)
         /\ ToCome(f, i) \in Seq(Nat)
<1>1. f.iters[i] \in Iter /\ f.arrays[i] \in Arrays
  BY DEF Good, Shape
<1>2. f.iters[i].at \in {NULL} \cup Keys /\ f.iters[i].key \in Nat
  BY <1>1, KeyIsNumber DEF Iter
<1>3. HeldOf(f, i) \in Seq(Nat)
  <2>1. One(f.iters[i].key) \in Seq(Nat)
    BY <1>2, OneProperties
  <2> QED BY <2>1 DEF HeldOf
<1>4. RestOf(f, i) \in SUBSET Keys /\ IsFiniteSet(RestOf(f, i))
  <2> DEFINE A == After(sas[f.arrays[i]], f.iters[i].at, f.dir)
  <2>1. A \in SUBSET Keys /\ IsFiniteSet(A)
    BY <1>1, AfterIs
  <2>2. RestOf(f, i) = IF f.iters[i].at = NULL THEN {} ELSE A \cup {f.iters[i].at}
    BY DEF RestOf
  <2> HIDE DEF A
  <2> DEFINE at == f.iters[i].at
  <2> HIDE DEF at
  <2>3. IsFiniteSet(A \cup {at}) /\ IsFiniteSet({})
    BY <2>1, FS_AddElement, FS_EmptySet
  <2> QED BY <1>2, <2>1, <2>2, <2>3 DEF at
<1>5. ListingOf(RestOf(f, i), f.dir) \in Seq(Nat)
  BY <1>4, ListingUnfolds
<1>6. ToCome(f, i) \in Seq(Nat)
  BY <1>3, <1>5, RowProperties DEF ToCome
<1> QED BY <1>3, <1>5, <1>6

\* NothingLost, in these terms.
LEMMA KeptIs ==
  ASSUME Stored, NEW n \in Nat, Good(fs, n), out \in Seq(Call)
  PROVE  NothingLost <=> \A i \in SlotsOf(n) : Kept(fs, out, i)
<1>1. Slots = SlotsOf(n)
  BY DEF Slots, Good, Shape
<1>2. ASSUME NEW i \in SlotsOf(n)
      PROVE  /\ (Given(i) \o Held(i)) \o Listing(Rest(i)) = Whole(fs, out, i)
             /\ Listing(begun[i]) = ListingOf(begun[i], fs.dir)
  <2>1. Given(i) = GivenOf(out, i)
    BY DEF Given, GivenOf, Piece, One
  <2>2. Held(i) = HeldOf(fs, i)
    BY DEF Held, HeldOf, One, Key
  <2>3. Rest(i) = RestOf(fs, i)
    BY DEF Rest, RestOf
  <2>4. \A S : Listing(S) = ListingOf(S, fs.dir)
    BY DEF Listing, ListingOf, InOrder, Earlier
  <2>5. (Given(i) \o Held(i)) \o Listing(Rest(i))
          = (GivenOf(out, i) ++ HeldOf(fs, i)) ++ ListingOf(RestOf(fs, i), fs.dir)
    BY <2>1, <2>2, <2>3, <2>4, Zenon DEF ++
  <2>6. GivenOf(out, i) \in Seq(Nat)
    <3>1. [key |-> NULL, run |-> << >>] \in Call
      BY DEF Call
    <3> QED BY <3>1, GivenAppend
  <2>7. (GivenOf(out, i) ++ HeldOf(fs, i)) ++ ListingOf(RestOf(fs, i), fs.dir)
          = Whole(fs, out, i)
    BY <2>6, ToComeType, RowAssociative DEF Whole, ToCome
  <2> QED BY <2>4, <2>5, <2>7
<1> QED BY <1>1, <1>2 DEF NothingLost, Kept

\* The same of the state that a step leads to.
LEMMA KeptNext ==
  ASSUME NEW n \in Nat
  PROVE  (Stored /\ Good(fs, n) /\ out \in Seq(Call)
            => (NothingLost <=> \A i \in SlotsOf(n) : Kept(fs, out, i)))'
<1>1. Stored /\ Good(fs, n) /\ out \in Seq(Call)
            => (NothingLost <=> \A i \in SlotsOf(n) : Kept(fs, out, i))
  BY KeptIs
<1> QED BY <1>1, PTL

\* A call gives the pending pair of each slot it merges, and of no other.
LEMMA CallKeeps ==
  ASSUME Stored, NEW n \in Nat, NEW g, Good(g, n), g.available # 0,
         call_with_next(g), out \in Seq(Call), NEW i \in SlotsOf(n)
  PROVE  /\ GivenOf(out, i) \in Seq(Nat) /\ GivenOf(out', i) \in Seq(Nat)
         /\ GivenOf(out', i) ++ HeldOf(fs', i) = GivenOf(out, i) ++ HeldOf(g, i)
<1> DEFINE used == next_used(g)
           k0 == g.iters[Ids(g)[0]].key
           ids == {Ids(g)[c] : c \in 0 .. used - 1}
<1>1. /\ used \in 1 .. g.available
      /\ \A c \in 0 .. used - 1 : g.iters[Ids(g)[c]].key = k0
  BY UsedIs
<1>2. fs' = Called(g, used)
  BY CallIs
<1>3. PICK run \in [1 .. used -> SlotsOf(n)] :
        /\ ToSet(run) = ids
        /\ out' = Append(out, [key |-> k0, run |-> run])
  BY CallIs
<1> DEFINE call == [key |-> k0, run |-> run]
<1> HIDE DEF used
<1>4. /\ fs'.iters[i].key = g.iters[i].key
      /\ fs'.iters[i].state = IF i \in ids THEN "NONE" ELSE g.iters[i].state
  BY <1>1, <1>2, CalledGood
<1> HIDE DEF k0, ids
<1>5. \A c \in 0 .. g.available - 1 :
        /\ Ids(g)[c] \in SlotsOf(n)
        /\ g.iters[Ids(g)[c]].state # "NONE"
  <2>1. /\ g.available \in 0 .. n /\ g.offset \in 0 .. n - g.available
        /\ g.current \in [SlotsOf(n) -> SlotsOf(n)]
        /\ DOMAIN g.iters = SlotsOf(n)
        /\ Queued(g.iters, Ids(g), g.available)
    BY DEF Good, Shape
  <2>2. \A c \in 0 .. g.available - 1 : g.offset + c \in SlotsOf(n)
    <3> DEFINE v == g.available
               o == g.offset
    <3>1. v \in 0 .. n /\ o \in 0 .. n - v
      BY <2>1
    <3> HIDE DEF v, o
    <3>2. \A c \in 0 .. v - 1 : o + c \in SlotsOf(n)
      BY <3>1 DEF SlotsOf
    <3> QED BY <3>2 DEF v, o
  <2>3. \A c \in 0 .. g.available - 1 : Ids(g)[c] \in SlotsOf(n)
    BY <2>1, <2>2 DEF Ids
  <2> QED BY <2>1, <2>3 DEF Queued
<1>6. \A c \in 0 .. used - 1 : c \in 0 .. g.available - 1
  <2>1. g.available \in Nat
    BY DEF Good, Shape
  <2> QED BY <1>1, <2>1
<1>7. \A j \in ids : g.iters[j].key = k0 /\ g.iters[j].state # "NONE"
  BY <1>1, <1>5, <1>6 DEF ids
<1>8. call \in Call /\ call.key = k0 /\ call.run = run
  <2>1. k0 \in {NULL} \cup Keys
    <3>1. 0 \in 0 .. g.available - 1
      BY <1>1, <1>6
    <3>2. g.iters[Ids(g)[0]] \in Iter
      BY <1>5, <3>1 DEF Good, Shape
    <3> QED BY <3>2 DEF Iter, k0
  <2>2. run \in Seq(Nat)
    <3>1. g.available \in Nat
      BY DEF Good, Shape
    <3>2. used \in Nat
      BY <1>1, <3>1
    <3>3. run \in Seq(SlotsOf(n))
      BY <3>2
    <3>4. SlotsOf(n) \subseteq Nat
      BY DEF SlotsOf
    <3> QED BY <3>3, <3>4
  <2> QED BY <2>1, <2>2 DEF Call
<1> HIDE DEF call
<1>9. /\ GivenOf(out', i) = GivenOf(out, i) ++ Piece(call, i)
      /\ GivenOf(out, i) \in Seq(Nat)
      /\ Piece(call, i) \in Seq(Nat)
  BY <1>3, <1>8, GivenAppend DEF call
<1>10. HeldOf(g, i) \in Seq(Nat)
  BY ToComeType
<1>11. Piece(call, i) = IF i \in ids THEN One(k0) ELSE << >>
  BY <1>3, <1>8 DEF Piece
<1>12. CASE i \in ids
  <2>1. HeldOf(fs', i) = << >> /\ HeldOf(g, i) = One(k0)
    BY <1>4, <1>7, <1>12 DEF HeldOf
  <2>2. Piece(call, i) = HeldOf(g, i)
    BY <1>11, <1>12, <2>1
  <2>3. GivenOf(out, i) ++ Piece(call, i) \in Seq(Nat)
    BY <1>9, RowProperties
  <2> QED BY <1>9, <2>1, <2>2, <2>3, RowEmpty
<1>13. CASE i \notin ids
  <2>1. HeldOf(fs', i) = HeldOf(g, i)
    BY <1>4, <1>13 DEF HeldOf
  <2>2. Piece(call, i) = << >>
    BY <1>11, <1>13
  <2> QED BY <1>9, <2>1, <2>2, RowEmpty
<1>14. GivenOf(out', i) \in Seq(Nat)
  BY <1>9, RowProperties
<1> QED BY <1>9, <1>12, <1>13, <1>14

\* A call of skiparray_fold_next loses nothing of a slot.
LEMMA NextKeeps ==
  ASSUME Stored, NEW n \in Nat, Good(fs, n), out \in Seq(Call),
         fs.live > 0 \/ fs.available > 0, UNCHANGED <<sas, begun>>,
         NEW g, g = IF fs.live > 0 THEN step_active_iterators(fs) ELSE fs,
         call_with_next(g), NEW i \in SlotsOf(n), Kept(fs, out, i)
  PROVE  Kept(fs, out, i)'
<1>1. /\ Good(g, n) /\ g.available # 0
      /\ g.dir = fs.dir /\ g.arrays = fs.arrays /\ Stepped(fs, g, i)
  BY ReadyIs
<1>2. ToCome(g, i) = ToCome(fs, i)
  BY <1>1, TurnKeeps
<1>3. GivenOf(out', i) ++ HeldOf(fs', i) = GivenOf(out, i) ++ HeldOf(g, i)
  BY <1>1, CallKeeps
<1> DEFINE used == next_used(g)
<1>4. used \in 1 .. g.available /\ fs' = Called(g, used)
  BY <1>1, UsedIs, CallIs
<1> HIDE DEF used
<1>5. /\ fs'.dir = g.dir /\ fs'.arrays = g.arrays /\ fs'.iters[i].at = g.iters[i].at
      /\ Good(fs', n)
  BY <1>1, <1>4, CalledGood
<1>6. RestOf(fs, i)' = RestOf(g, i)
  BY <1>5 DEF RestOf
<1> DEFINE given == GivenOf(out, i)
           given2 == GivenOf(out', i)
           held  == HeldOf(g, i)
           held2 == HeldOf(fs', i)
           come  == ListingOf(RestOf(g, i), fs.dir)
<1>7. /\ given \in Seq(Nat) /\ given2 \in Seq(Nat)
  BY <1>1, CallKeeps
<1>8. held \in Seq(Nat) /\ come \in Seq(Nat)
  BY <1>1, ToComeType
<1>9. held2 \in Seq(Nat)
  <2>1. fs'.iters[i].key \in Nat
    <3>1. fs'.iters[i] \in Iter
      BY <1>5 DEF Good, Shape
    <3> QED BY <3>1, KeyIsNumber DEF Iter
  <2> QED BY <2>1, OneProperties DEF HeldOf
<1>10. Whole(fs, out, i)' = given2 ++ (held2 ++ come)
  BY <1>1, <1>5, <1>6 DEF Whole, ToCome
<1>11. Whole(fs, out, i) = given ++ (held ++ come)
  BY <1>1, <1>2 DEF Whole, ToCome
<1>12. given2 ++ held2 = given ++ held
  BY <1>3
<1> HIDE DEF given, given2, held, held2, come
<1>13. given2 ++ (held2 ++ come) = given ++ (held ++ come)
  <2>1. (given2 ++ held2) ++ come = given2 ++ (held2 ++ come)
    BY <1>7, <1>8, <1>9, RowAssociative
  <2>2. (given ++ held) ++ come = given ++ (held ++ come)
    BY <1>7, <1>8, RowAssociative
  <2> QED BY <1>12, <2>1, <2>2
<1> QED BY <1>1, <1>5, <1>10, <1>11, <1>13 DEF Kept

\* At the start all is to come.
LEMMA StartKeeps ==
  ASSUME FoldInv, NEW n \in 1 .. MaxCount, NEW dir \in Directions,
         NEW arrays \in [0 .. n - 1 -> Arrays], Start(dir, arrays)
  PROVE  NothingLost'
<1>1. /\ n \in Nat \ {0} /\ dir \in {"LEFT", "RIGHT"} /\ Stored /\ n \in Nat
  BY FoldAssumption DEF FoldInv
<1>2. /\ fs' = fold_state(dir, arrays) /\ sas' = sas /\ out' = << >>
      /\ begun' = [i \in DOMAIN arrays |-> sas[arrays[i]]]
      /\ DOMAIN arrays = SlotsOf(n)
  BY DEF Start, Active, FoldInv, SlotsOf
<1>3. /\ Good(fs', n) /\ fs'.dir = dir /\ fs'.arrays = arrays
      /\ \A i \in SlotsOf(n) : /\ fs'.iters[i].at = FirstOf(sas[arrays[i]], dir)
                               /\ fs'.iters[i].state = "NONE"
  BY <1>1, <1>2, StartGood
<1>4. ASSUME NEW i \in SlotsOf(n)
      PROVE  Kept(fs, out, i)'
  <2> DEFINE S == sas[arrays[i]]
             L == ListingOf(S, dir)
  <2>1. arrays[i] \in Arrays
    BY <1>2
  <2>2. S \in SUBSET Keys /\ IsFiniteSet(S) /\ begun'[i] = S
    BY <1>1, <1>2, <2>1 DEF Stored
  <2> HIDE DEF S
  <2>3. RestOf(fs, i)' = IF FirstOf(S, dir) = NULL THEN {}
                         ELSE {FirstOf(S, dir)} \cup After(S, FirstOf(S, dir), dir)
    BY <1>2, <1>3 DEF RestOf, S
  <2>4. RestOf(fs, i)' = S
    <3>1. CASE S = {}
      BY <2>2, <2>3, <3>1, FirstOfIs
    <3>2. CASE S # {}
      BY <2>2, <2>3, <3>2, FirstOfIs, FirstAndRest
    <3> QED BY <3>1, <3>2
  <2>5. HeldOf(fs, i)' = << >>
    BY <1>3 DEF HeldOf
  <2>6. GivenOf(out, i)' = << >>
    <3>1. << >> \in Seq(Call) /\ [key |-> NULL, run |-> << >>] \in Call
      BY DEF Call
    <3> QED BY <1>2, <3>1, GivenAppend
  <2>7. Whole(fs, out, i)' = << >> ++ (<< >> ++ L)
    BY <1>3, <2>4, <2>5, <2>6 DEF Whole, ToCome
  <2>8. L \in Seq(Nat)
    BY <2>2, ListingUnfolds
  <2> HIDE DEF L
  <2>9. << >> ++ (<< >> ++ L) = L
    BY <2>8, RowEmpty
  <2> QED BY <1>3, <2>2, <2>7, <2>9 DEF Kept, L
<1>5. Stored' /\ out' \in Seq(Call)
  BY <1>1, <1>2 DEF Stored
<1>6. NothingLost' <=> \A i \in SlotsOf(n) : Kept(fs, out, i)'
  BY <1>1, <1>3, <1>5, KeptNext
<1> QED BY <1>4, <1>6

\* A client changes no skiparray that an iterator still stands in.
LEMMA ChangeKeeps ==
  ASSUME FoldInv, NothingLost, NEW a \in Arrays, NEW key \in Keys, Change(a, key)
  PROVE  NothingLost'
<1>1. PICK n \in Nat : Good(fs, n)
  BY DEF FoldInv
<1>2. fs' = fs /\ out' = out /\ begun' = begun
  BY DEF Change
<1>3. DOMAIN fs.iters = SlotsOf(n)
  BY <1>1 DEF Good, Shape
<1>4. \A b \in Arrays : b # a => sas'[b] = sas[b]
  BY DEF Change, FoldInv, Stored
<1>5. ASSUME NEW i \in SlotsOf(n)
      PROVE  Rest(i)' = Rest(i)
  <2>1. CASE fs.iters[i].at = NULL
    BY <1>2, <2>1 DEF Rest
  <2>2. CASE fs.iters[i].at # NULL
    <3>1. fs.arrays[i] # a
      BY <1>3, <2>2 DEF Change, Locked, Slots
    <3>2. fs.arrays[i] \in Arrays
      BY <1>1 DEF Good, Shape
    <3>3. sas'[fs.arrays[i]] = sas[fs.arrays[i]]
      BY <1>4, <3>1, <3>2
    <3> QED BY <1>2, <3>3 DEF Rest
  <2> QED BY <2>1, <2>2
<1>6. \A i \in SlotsOf(n) : Given(i)' = Given(i) /\ Held(i)' = Held(i)
  BY <1>2 DEF Given, Held, Key
<1>7. \A S : Listing(S)' = Listing(S)
  BY <1>2 DEF Listing
<1>8. ASSUME NEW i \in SlotsOf(n)
      PROVE  (Given(i) \o Held(i) \o Listing(Rest(i)))'
               = Given(i) \o Held(i) \o Listing(Rest(i))
  <2>1. Listing(Rest(i))' = Listing(Rest(i))
    BY <1>2, <1>5 DEF Listing
  <2> QED BY <1>6, <2>1
<1>9. \A i \in SlotsOf(n) : Listing(begun[i])' = Listing(begun[i])
  BY <1>2 DEF Listing
<1> QED BY <1>2, <1>3, <1>8, <1>9 DEF NothingLost, Slots

\* No step loses a pair of any slot, or gives one twice.
LEMMA NothingLostStep ==
  ASSUME FoldInv, NothingLost, [Next]_vars
  PROVE  NothingLost'
<1>1. ASSUME End
      PROVE  NothingLost'
  <2>1. fs'.iters = << >>
    BY <1>1, IdleGood DEF End, fold_halt
  <2> QED BY <2>1 DEF NothingLost, Slots
<1>2. ASSUME NEW dir \in Directions, NEW n \in 1 .. MaxCount,
             NEW arrays \in [0 .. n - 1 -> Arrays], Start(dir, arrays)
      PROVE  NothingLost'
  BY <1>2, StartKeeps
<1>3. CASE FoldNext
  <2>1. CASE End
    BY <1>1, <2>1
  <2>2. CASE ~End
    <3> DEFINE g == IF fs.live > 0 THEN step_active_iterators(fs) ELSE fs
    <3>1. /\ fs.live > 0 \/ fs.available > 0
          /\ UNCHANGED <<sas, begun>>
          /\ call_with_next(g)
      BY <1>3, <2>2 DEF FoldNext
    <3>2. PICK n \in Nat : Good(fs, n)
      BY DEF FoldInv
    <3>3. Stored /\ out \in Seq(Call)
      BY DEF FoldInv
    <3>4. FoldInv'
      BY FoldStep
    <3>5. Good(g, n) /\ g.available # 0
      BY <3>1, <3>2, <3>3, ReadyIs
    <3>6. Good(fs', n)
      BY <3>1, <3>5, CallIs, UsedIs, CalledGood
    <3> HIDE DEF g
    <3>7. \A i \in SlotsOf(n) : Kept(fs, out, i)
      BY <3>2, <3>3, KeptIs
    <3>8. \A i \in SlotsOf(n) : Kept(fs, out, i)'
      BY <3>1, <3>2, <3>3, <3>7, NextKeeps DEF g
    <3>9. Stored' /\ out' \in Seq(Call)
      BY <3>4 DEF FoldInv
    <3>10. NothingLost' <=> \A i \in SlotsOf(n) : Kept(fs, out, i)'
      BY <3>6, <3>9, KeptNext
    <3> QED BY <3>8, <3>10
  <2> QED BY <2>1, <2>2
<1>4. CASE Halt
  BY <1>1, <1>4 DEF Halt
<1>5. ASSUME NEW a \in Arrays, NEW key \in Keys, Change(a, key)
      PROVE  NothingLost'
  BY <1>5, ChangeKeeps
<1>6. CASE UNCHANGED vars
  <2>1. /\ fs' = fs /\ out' = out /\ begun' = begun
        /\ sas' = sas
    BY <1>6 DEF vars
  <2>2. \A i : /\ Given(i)' = Given(i) /\ Held(i)' = Held(i)
               /\ Listing(Rest(i))' = Listing(Rest(i))
               /\ Listing(begun[i])' = Listing(begun[i])
    BY <2>1 DEF Given, Held, Key, Listing, Rest
  <2>3. \A i : (Given(i) \o Held(i) \o Listing(Rest(i)))'
               = Given(i) \o Held(i) \o Listing(Rest(i))
    BY <2>2, Zenon
  <2> QED BY <2>1, <2>2, <2>3 DEF NothingLost, Slots
<1> QED BY <1>2, <1>3, <1>4, <1>5, <1>6 DEF Next

\* skiparray_fold_next gives every pair of every skiparray once and in its
\* turn, alone or merged, though iterators are freed as soon as they meet
\* their end and the client changes the skiparrays that this unlocks.
THEOREM FoldLosesNothing == Spec => []NothingLost
<1>1. Init => NothingLost
  <2>1. Init => fs.iters = << >>
    BY IdleGood DEF Init
  <2> QED BY <2>1 DEF NothingLost, Slots
<1>2. FoldInv /\ NothingLost /\ [Next]_vars => NothingLost'
  BY NothingLostStep
<1> QED BY <1>1, <1>2, FoldAlways, PTL DEF Spec

-----------------------------------------------------------------------------
(* The promise of the header.                                              *)

\* The keys of a slot that are pending or still to come.
Come(f, i) ==
  (IF f.iters[i].state = "NONE" THEN {} ELSE {f.iters[i].key}) \cup RestOf(f, i)

AllCome(f) == UNION {Come(f, i) : i \in DOMAIN f.iters}

\* An iterator is ahead of its pending pair, in either direction.
Forward(f, i) ==
  LET it == f.iters[i]
  IN  it.state # "NONE" /\ it.at # NULL => Earlier(it.key, it.at, f.dir)

PromiseInv ==
  /\ DOMAIN begun = Slots
  /\ \A i \in Slots : Come(fs, i) \subseteq begun[i] /\ Forward(fs, i)

\* The keys to come, as a set: a turn of the iterator takes none of them.
LEMMA TurnSame ==
  ASSUME Stored, NEW n \in Nat, NEW f, Good(f, n), NEW g, g.dir = f.dir,
         g.arrays = f.arrays, NEW i \in SlotsOf(n), Stepped(f, g, i), Forward(f, i)
  PROVE  Come(g, i) = Come(f, i) /\ Forward(g, i)
<1>1. CASE f.iters[i].at = NULL \/ f.iters[i].state # "NONE"
  <2>1. g.iters[i] = f.iters[i]
    BY <1>1 DEF Stepped
  <2> QED BY <2>1 DEF Come, RestOf, Forward
<1>2. CASE f.iters[i].at # NULL /\ f.iters[i].state = "NONE"
  <2> DEFINE dir == f.dir
             at  == f.iters[i].at
             all == sas[f.arrays[i]]
             A   == After(all, at, dir)
             next == FirstOf(A, dir)
  <2>1. /\ g.iters[i].state # "NONE" /\ g.iters[i].key = at
        /\ g.iters[i].at = next
    BY <1>2 DEF Stepped, iter_step
  <2>2. f.iters[i] \in Iter /\ f.arrays[i] \in Arrays
    BY DEF Good, Shape
  <2>3. at \in Keys
    BY <1>2, <2>2 DEF Iter
  <2>4. A \in SUBSET Keys /\ IsFiniteSet(A)
    BY <2>2, AfterIs
  <2>5. all \in SUBSET Nat
    BY <2>2, FoldAssumption DEF Stored
  <2>6. A = {k \in all : Earlier(at, k, dir)}
    BY DEF After, Earlier
  <2>7. Come(f, i) = {at} \cup A
    BY <1>2 DEF Come, RestOf
  <2>8. Come(g, i) = {at} \cup (IF next = NULL THEN {} ELSE {next} \cup After(all, next, dir))
    BY <2>1 DEF Come, RestOf
  <2>9. Forward(g, i) <=> (next # NULL => Earlier(at, next, dir))
    BY <2>1 DEF Forward
  <2> HIDE DEF dir, at, next, A, all
  <2>10. CASE A = {}
    <3>1. next = NULL
      BY <2>4, <2>10, FirstOfIs DEF next
    <3> QED BY <2>7, <2>8, <2>9, <2>10, <3>1
  <2>11. CASE A # {}
    <3>1. next # NULL /\ next \in A /\ next \in Nat /\ at \in Nat
      BY <2>3, <2>4, <2>11, FirstOfIs, FoldAssumption DEF next
    <3>2. A = {next} \cup After(A, next, dir)
      BY <2>4, <2>11, FirstAndRest DEF next
    <3>3. /\ After(A, next, dir) = {k \in A : Earlier(next, k, dir)}
          /\ After(all, next, dir) = {k \in all : Earlier(next, k, dir)}
      BY DEF After, Earlier
    <3>4. \A k \in all : Earlier(next, k, dir) => k \in A
      BY <2>5, <2>6, <3>1, EarlierIs
    <3>5. After(A, next, dir) = After(all, next, dir)
      BY <2>6, <3>3, <3>4
    <3>6. Earlier(at, next, dir)
      BY <2>6, <3>1
    <3> QED BY <2>7, <2>8, <2>9, <3>1, <3>2, <3>5, <3>6
  <2> QED BY <2>10, <2>11
<1> QED BY <1>1, <1>2

\* A live iterator is not behind the first key that it has left.
LEMMA RestAfter ==
  ASSUME Stored, NEW n \in Nat, NEW g, Good(g, n), NEW i \in SlotsOf(n),
         Forward(g, i), g.iters[i].at # NULL => g.iters[i].state # "NONE"
  PROVE  /\ \A k \in RestOf(g, i) : k \in Nat /\ Earlier(g.iters[i].key, k, g.dir)
         /\ g.iters[i].state = "NONE" => RestOf(g, i) = {}
<1> DEFINE dir == g.dir
           at  == g.iters[i].at
           key == g.iters[i].key
           all == sas[g.arrays[i]]
<1>1. g.iters[i] \in Iter /\ g.arrays[i] \in Arrays
  BY DEF Good, Shape
<1>2. at \in Nat /\ key \in Nat
  BY <1>1, KeyIsNumber DEF Iter
<1>3. all \in SUBSET Nat
  BY <1>1, FoldAssumption DEF Stored
<1>4. RestOf(g, i) = IF at = NULL THEN {} ELSE {at} \cup After(all, at, dir)
  BY DEF RestOf
<1>5. After(all, at, dir) = {k \in all : Earlier(at, k, dir)}
  BY DEF After, Earlier
<1>6. g.iters[i].state # "NONE" /\ at # NULL => Earlier(key, at, dir)
  BY DEF Forward
<1>7. at # NULL => g.iters[i].state # "NONE"
  OBVIOUS
<1> HIDE DEF at, key, all, dir
<1>8. \A k \in RestOf(g, i) : k \in Nat /\ Earlier(key, k, dir)
  BY <1>2, <1>3, <1>4, <1>5, <1>6, <1>7, EarlierIs
<1>9. g.iters[i].state = "NONE" => RestOf(g, i) = {}
  BY <1>4, <1>7
<1> QED BY <1>8, <1>9 DEF key, dir

\* A call gives pending pairs only.
LEMMA CallLess ==
  ASSUME NEW n \in Nat, NEW g, Good(g, n), g.available # 0, call_with_next(g),
         NEW i \in SlotsOf(n), Forward(g, i)
  PROVE  Come(fs', i) \subseteq Come(g, i) /\ Forward(fs', i)
<1> DEFINE used == next_used(g)
<1>1. used \in 1 .. g.available /\ fs' = Called(g, used)
  BY UsedIs, CallIs
<1> HIDE DEF used
<1>2. /\ fs'.dir = g.dir /\ fs'.arrays = g.arrays
      /\ fs'.iters[i].at = g.iters[i].at /\ fs'.iters[i].key = g.iters[i].key
      /\ fs'.iters[i].state \in {"NONE", g.iters[i].state}
  BY <1>1, CalledGood
<1>3. RestOf(fs', i) = RestOf(g, i)
  BY <1>2 DEF RestOf
<1>4. Come(fs', i) \subseteq Come(g, i)
  BY <1>2, <1>3 DEF Come
<1>5. Forward(fs', i)
  BY <1>2 DEF Forward
<1> QED BY <1>4, <1>5

\* The callback gets the first of all the keys to come, and it is taken from
\* them, when no other skiparray has it.
LEMMA CallGives ==
  ASSUME Stored, NEW n \in Nat, NEW g, Good(g, n), g.available # 0,
         call_with_next(g),
         \A i \in SlotsOf(n) : /\ Forward(g, i)
                               /\ g.iters[i].at # NULL => g.iters[i].state # "NONE",
         g.dir \in {"LEFT", "RIGHT"},
         g.dir = "RIGHT" => SlotsOf(n) = {0},
         \A i, j \in SlotsOf(n) : i # j => Come(g, i) \cap Come(g, j) = {}
  PROVE  LET k0 == g.iters[Ids(g)[0]].key
         IN  /\ k0 \in AllCome(g) /\ k0 \in Nat
             /\ \A k \in AllCome(g) : k \in Nat /\ NotAfter(k0, k, g.dir)
             /\ AllCome(fs') = AllCome(g) \ {k0}
             /\ \E run : out' = Append(out, [key |-> k0, run |-> run])
<1> DEFINE used == next_used(g)
           id == Ids(g)[0]
           k0 == g.iters[id].key
           ids == {Ids(g)[c] : c \in 0 .. used - 1}
<1>1. /\ used \in 1 .. g.available
      /\ \A c \in 0 .. used - 1 : g.iters[Ids(g)[c]].key = k0
  BY UsedIs
<1>2. /\ fs' = Called(g, used)
      /\ \E run : out' = Append(out, [key |-> k0, run |-> run])
  BY CallIs
<1> HIDE DEF used
<1>3. /\ Good(fs', n) /\ fs'.dir = g.dir /\ fs'.arrays = g.arrays
      /\ \A i \in SlotsOf(n) :
           /\ fs'.iters[i].at = g.iters[i].at /\ fs'.iters[i].key = g.iters[i].key
           /\ fs'.iters[i].state = IF i \in ids THEN "NONE" ELSE g.iters[i].state
  BY <1>1, <1>2, CalledGood
<1>4. /\ DOMAIN g.iters = SlotsOf(n) /\ DOMAIN fs'.iters = SlotsOf(n)
      /\ g.available \in Nat /\ Queued(g.iters, Ids(g), g.available)
      /\ g.iters \in [SlotsOf(n) -> Iter]
  BY <1>3 DEF Good, Shape
<1>5. \A c \in 0 .. used - 1 : c \in 0 .. g.available - 1
  BY <1>1, <1>4
<1>6. 0 \in 0 .. used - 1 /\ 0 \in 0 .. g.available - 1
  BY <1>1, <1>4, <1>5
<1>7. \A c \in 0 .. g.available - 1 :
        /\ Ids(g)[c] \in SlotsOf(n)
        /\ g.iters[Ids(g)[c]].state # "NONE"
  <2>1. /\ g.available \in 0 .. n /\ g.offset \in 0 .. n - g.available
        /\ g.current \in [SlotsOf(n) -> SlotsOf(n)]
    BY DEF Good, Shape
  <2>2. \A c \in 0 .. g.available - 1 : g.offset + c \in SlotsOf(n)
    <3> DEFINE v == g.available
               o == g.offset
    <3>1. v \in 0 .. n /\ o \in 0 .. n - v
      BY <2>1
    <3> HIDE DEF v, o
    <3>2. \A c \in 0 .. v - 1 : o + c \in SlotsOf(n)
      BY <3>1 DEF SlotsOf
    <3> QED BY <3>2 DEF v, o
  <2>3. \A c \in 0 .. g.available - 1 : Ids(g)[c] \in SlotsOf(n)
    BY <2>1, <2>2 DEF Ids
  <2> QED BY <1>4, <2>3 DEF Queued
<1>8. /\ id \in SlotsOf(n) /\ id \in ids /\ g.iters[id].state # "NONE"
      /\ k0 \in Come(g, id)
  BY <1>6, <1>7 DEF Come
<1>9. \A j \in ids : j \in SlotsOf(n) /\ g.iters[j].key = k0 /\ g.iters[j].state # "NONE"
  BY <1>1, <1>5, <1>7
<1>10. \A i \in SlotsOf(n) : g.iters[i].key \in Nat
  BY <1>4, KeyIsNumber DEF Iter
<1>11. \A j \in ids : j = id
  <2>1. \A j \in ids : k0 \in Come(g, j)
    BY <1>9 DEF Come
  <2> QED BY <1>8, <1>9, <2>1
<1>12. ASSUME NEW i \in SlotsOf(n), g.iters[i].state # "NONE"
       PROVE  NotAfter(k0, g.iters[i].key, g.dir)
  <2>1. CASE g.dir = "RIGHT"
    <3>1. i = id
      BY <1>8, <2>1
    <3> QED BY <1>10, <2>1, <3>1 DEF NotAfter
  <2>2. CASE g.dir = "LEFT"
    <3>1. PICK c \in 0 .. g.available - 1 : Ids(g)[c] = i
      BY <1>4, <1>12 DEF Queued
    <3>2. CASE c = 0
      BY <1>10, <2>2, <3>1, <3>2 DEF NotAfter
    <3>3. CASE c # 0
      <4>1. 0 < c
        BY <1>4, <3>1, <3>3
      <4> QED BY <1>4, <1>6, <2>2, <3>1, <4>1 DEF Queued, NotAfter
    <3> QED BY <3>2, <3>3
  <2> QED BY <2>1, <2>2
<1> HIDE DEF k0, id, ids
<1>13. k0 \in Nat
  BY <1>8, <1>10 DEF k0
<1>14. ASSUME NEW i \in SlotsOf(n), NEW k \in Come(g, i)
       PROVE  k \in Nat /\ NotAfter(k0, k, g.dir)
  <2>1. /\ \A x \in RestOf(g, i) : x \in Nat /\ Earlier(g.iters[i].key, x, g.dir)
        /\ g.iters[i].state = "NONE" => RestOf(g, i) = {}
    BY RestAfter
  <2>2. CASE k \in RestOf(g, i)
    <3>1. k \in Nat /\ Earlier(g.iters[i].key, k, g.dir) /\ g.iters[i].state # "NONE"
      BY <2>1, <2>2
    <3>2. NotAfter(k0, g.iters[i].key, g.dir)
      BY <1>12, <3>1
    <3> QED BY <1>10, <1>13, <3>1, <3>2, EarlierIs
  <2>3. CASE k \notin RestOf(g, i)
    <3>1. g.iters[i].state # "NONE" /\ k = g.iters[i].key
      BY <1>14, <2>3 DEF Come
    <3> QED BY <1>10, <1>12, <3>1
  <2> QED BY <2>2, <2>3
<1>15. \A i \in SlotsOf(n) : RestOf(fs', i) = RestOf(g, i)
  BY <1>3 DEF RestOf
<1>16. Come(fs', id) = Come(g, id) \ {k0}
  <2>1. Come(fs', id) = RestOf(g, id)
    BY <1>3, <1>8, <1>15 DEF Come
  <2>2. Come(g, id) = {k0} \cup RestOf(g, id)
    BY <1>8 DEF Come, k0
  <2>3. k0 \notin RestOf(g, id)
    <3>1. \A x \in RestOf(g, id) : Earlier(g.iters[id].key, x, g.dir)
      BY <1>8, RestAfter
    <3> QED BY <1>13, <3>1, EarlierIs DEF k0
  <2> QED BY <2>1, <2>2, <2>3
<1>17. \A i \in SlotsOf(n) : i # id => Come(fs', i) = Come(g, i) /\ k0 \notin Come(g, i)
  <2>1. ASSUME NEW i \in SlotsOf(n), i # id
        PROVE  Come(fs', i) = Come(g, i) /\ k0 \notin Come(g, i)
    <3>1. i \notin ids
      BY <1>11, <2>1
    <3>2. Come(fs', i) = Come(g, i)
      BY <1>3, <1>15, <3>1 DEF Come
    <3> QED BY <1>8, <2>1, <3>2
  <2> QED BY <2>1
<1>18. AllCome(fs') = AllCome(g) \ {k0}
  <2>1. \A i \in SlotsOf(n) : Come(fs', i) = Come(g, i) \ {k0}
    BY <1>16, <1>17
  <2> QED BY <1>4, <2>1 DEF AllCome
<1>19. /\ k0 \in AllCome(g)
       /\ \A k \in AllCome(g) : k \in Nat /\ NotAfter(k0, k, g.dir)
  BY <1>4, <1>8, <1>14 DEF AllCome
<1> QED BY <1>2, <1>13, <1>18, <1>19 DEF k0, id

\* What the promise calls todo.
LEMMA TodoIs ==
  UNION {Rest(i) \cup ToSet(Held(i)) : i \in Slots} = AllCome(fs)
<1>1. ToSet(<< >>) = {} /\ \A k : ToSet(<<k>>) = {k}
  BY DEF ToSet
<1>2. \A i : Rest(i) = RestOf(fs, i)
  BY DEF Rest, RestOf
<1>3. \A i : ToSet(Held(i)) = IF fs.iters[i].state = "NONE" THEN {} ELSE {fs.iters[i].key}
  BY <1>1 DEF Held, Key
<1>4. \A i : Rest(i) \cup ToSet(Held(i)) = Come(fs, i)
  BY <1>2, <1>3 DEF Come
<1> QED BY <1>4 DEF AllCome, Slots

\* The same of the state that a step leads to.
LEMMA TodoNext ==
  (UNION {Rest(i) \cup ToSet(Held(i)) : i \in Slots} = AllCome(fs))'
<1>1. UNION {Rest(i) \cup ToSet(Held(i)) : i \in Slots} = AllCome(fs)
  BY TodoIs
<1> QED BY <1>1, PTL

\* The keys to come are keys of the skiparrays.
LEMMA ComeIsKeys ==
  ASSUME Stored, NEW n \in Nat, NEW f, Good(f, n)
  PROVE  AllCome(f) \subseteq {NULL} \cup Keys
<1>1. DOMAIN f.iters = SlotsOf(n)
  BY DEF Good, Shape
<1>2. ASSUME NEW i \in SlotsOf(n)
      PROVE  Come(f, i) \subseteq {NULL} \cup Keys
  <2>1. f.iters[i] \in Iter /\ f.arrays[i] \in Arrays
    BY DEF Good, Shape
  <2>2. After(sas[f.arrays[i]], f.iters[i].at, f.dir) \subseteq Keys
    BY <2>1, AfterIs
  <2> QED BY <2>1, <2>2 DEF Come, RestOf, Iter
<1> QED BY <1>1, <1>2 DEF AllCome

\* The keys of each slot are those of its skiparray at the start.
LEMMA StartPromise ==
  ASSUME FoldInv, NEW n \in 1 .. MaxCount, NEW dir \in Directions,
         NEW arrays \in [0 .. n - 1 -> Arrays], Start(dir, arrays)
  PROVE  /\ PromiseInv'
         /\ AllCome(fs)' \subseteq Keys
<1>1. /\ n \in Nat \ {0} /\ dir \in {"LEFT", "RIGHT"} /\ Stored /\ n \in Nat
  BY FoldAssumption DEF FoldInv
<1>2. /\ fs' = fold_state(dir, arrays) /\ sas' = sas
      /\ begun' = [i \in DOMAIN arrays |-> sas[arrays[i]]]
      /\ DOMAIN arrays = SlotsOf(n)
  BY DEF Start, SlotsOf
<1>3. /\ Good(fs', n) /\ fs'.dir = dir /\ fs'.arrays = arrays
      /\ \A i \in SlotsOf(n) : /\ fs'.iters[i].at = FirstOf(sas[arrays[i]], dir)
                               /\ fs'.iters[i].state = "NONE"
  BY <1>1, <1>2, StartGood
<1>4. DOMAIN fs'.iters = SlotsOf(n) /\ DOMAIN begun' = SlotsOf(n)
  BY <1>2, <1>3 DEF Good, Shape
<1>5. ASSUME NEW i \in SlotsOf(n)
      PROVE  Come(fs, i)' \subseteq begun'[i] /\ begun'[i] \subseteq Keys /\ Forward(fs, i)'
  <2> DEFINE S == sas[arrays[i]]
  <2>1. S \in SUBSET Keys /\ IsFiniteSet(S) /\ begun'[i] = S
    <3>1. arrays[i] \in Arrays
      BY <1>2
    <3> QED BY <1>1, <1>2, <3>1 DEF Stored
  <2>2. Come(fs, i)' = IF FirstOf(S, dir) = NULL THEN {}
                       ELSE {FirstOf(S, dir)} \cup After(S, FirstOf(S, dir), dir)
    BY <1>2, <1>3 DEF Come, RestOf
  <2>3. Forward(fs, i)'
    BY <1>3 DEF Forward
  <2> HIDE DEF S
  <2>4. Come(fs, i)' \subseteq S
    <3>1. CASE S = {}
      BY <2>1, <2>2, <3>1, FirstOfIs
    <3>2. CASE S # {}
      BY <2>1, <2>2, <3>2, FirstOfIs, FirstAndRest
    <3> QED BY <3>1, <3>2
  <2> QED BY <2>1, <2>3, <2>4
<1>6. PromiseInv'
  BY <1>4, <1>5 DEF PromiseInv, Slots
<1>7. AllCome(fs)' \subseteq Keys
  BY <1>4, <1>5 DEF AllCome
<1> QED BY <1>6, <1>7

\* A change of a skiparray that is not locked changes nothing to come.
LEMMA ChangePromise ==
  ASSUME FoldInv, NEW a \in Arrays, NEW key \in Keys, Change(a, key)
  PROVE  /\ \A i \in Slots : Come(fs, i)' = Come(fs, i)
         /\ AllCome(fs)' = AllCome(fs)
<1>1. PICK n \in Nat : Good(fs, n)
  BY DEF FoldInv
<1>2. fs' = fs
  BY DEF Change
<1>3. DOMAIN fs.iters = SlotsOf(n)
  BY <1>1 DEF Good, Shape
<1>4. \A b \in Arrays : b # a => sas'[b] = sas[b]
  BY DEF Change, FoldInv, Stored
<1>5. ASSUME NEW i \in SlotsOf(n)
      PROVE  Come(fs, i)' = Come(fs, i)
  <2>1. CASE fs.iters[i].at = NULL
    BY <1>2, <2>1 DEF Come, RestOf
  <2>2. CASE fs.iters[i].at # NULL
    <3>1. fs.arrays[i] # a
      BY <1>3, <2>2 DEF Change, Locked, Slots
    <3>2. fs.arrays[i] \in Arrays
      BY <1>1 DEF Good, Shape
    <3>3. sas'[fs.arrays[i]] = sas[fs.arrays[i]]
      BY <1>4, <3>1, <3>2
    <3> QED BY <1>2, <3>3 DEF Come, RestOf
  <2> QED BY <2>1, <2>2
<1> QED BY <1>2, <1>3, <1>5 DEF AllCome, Slots

\* A call of skiparray_fold_next gives of each slot what it had to come,
LEMMA NextPromise ==
  ASSUME FoldInv, PromiseInv, fs.live > 0 \/ fs.available > 0,
         UNCHANGED <<sas, begun>>,
         NEW g, g = IF fs.live > 0 THEN step_active_iterators(fs) ELSE fs,
         call_with_next(g)
  PROVE  PromiseInv' /\ fs'.dir = fs.dir
<1>1. PICK n \in Nat : Good(fs, n)
  BY DEF FoldInv
<1>2. /\ Good(g, n) /\ g.available # 0
      /\ g.dir = fs.dir /\ g.arrays = fs.arrays
      /\ \A i \in SlotsOf(n) : Stepped(fs, g, i)
  BY <1>1, ReadyIs DEF FoldInv
<1>3. DOMAIN fs.iters = SlotsOf(n)
  BY <1>1 DEF Good, Shape
<1>4. \A i \in SlotsOf(n) : Come(g, i) = Come(fs, i) /\ Forward(g, i)
  BY <1>1, <1>2, <1>3, TurnSame DEF FoldInv, PromiseInv, Slots
<1>5. \A i \in SlotsOf(n) : Come(fs', i) \subseteq Come(g, i) /\ Forward(fs', i)
  BY <1>2, <1>4, CallLess
<1>6. \A i : Come(fs, i)' = Come(fs', i) /\ (Forward(fs, i)' <=> Forward(fs', i))
  BY DEF Come, RestOf, Forward
<1>7. DOMAIN fs'.iters = SlotsOf(n) /\ fs'.dir = g.dir
  <2>1. fs' = Called(g, next_used(g)) /\ next_used(g) \in 1 .. g.available
    BY <1>2, CallIs, UsedIs
  <2>2. Good(fs', n) /\ fs'.dir = g.dir
    BY <1>2, <2>1, CalledGood
  <2> QED BY <2>2 DEF Good, Shape
<1>8. PromiseInv'
  BY <1>3, <1>4, <1>5, <1>6, <1>7 DEF PromiseInv, Slots
<1> QED BY <1>2, <1>7, <1>8

\* and the first of all of them when no two skiparrays have a key in common.
LEMMA NextGives ==
  ASSUME FoldInv, PromiseInv, Simple, fs.live > 0 \/ fs.available > 0,
         UNCHANGED <<sas, begun>>, Active,
         NEW g, g = IF fs.live > 0 THEN step_active_iterators(fs) ELSE fs,
         call_with_next(g)
  PROVE  \E k0 \in AllCome(fs) :
           /\ k0 \in Nat
           /\ \A k \in AllCome(fs) : k \in Nat /\ NotAfter(k0, k, fs.dir)
           /\ AllCome(fs)' = AllCome(fs) \ {k0}
           /\ \E run : out' = Append(out, [key |-> k0, run |-> run])
<1>1. PICK n \in Nat : Good(fs, n)
  BY DEF FoldInv
<1>2. /\ Good(g, n) /\ g.available # 0
      /\ g.dir = fs.dir /\ g.arrays = fs.arrays
      /\ \A i \in SlotsOf(n) : Stepped(fs, g, i)
      /\ \A i \in SlotsOf(n) : g.iters[i].at # NULL => g.iters[i].state # "NONE"
  BY <1>1, ReadyIs DEF FoldInv
<1>3. DOMAIN fs.iters = SlotsOf(n) /\ DOMAIN g.iters = SlotsOf(n)
  BY <1>1, <1>2 DEF Good, Shape
<1>4. \A i \in SlotsOf(n) : Come(g, i) = Come(fs, i) /\ Forward(g, i)
  BY <1>1, <1>2, <1>3, TurnSame DEF FoldInv, PromiseInv, Slots
<1>5. g.dir \in {"LEFT", "RIGHT"}
  BY <1>1, <1>2 DEF FoldInv, Active, Good, Shape
<1>6. g.dir = "RIGHT" => SlotsOf(n) = {0}
  BY <1>2, <1>3 DEF Simple, Slots
<1>7. \A i, j \in SlotsOf(n) : i # j => Come(g, i) \cap Come(g, j) = {}
  <2>1. \A i \in SlotsOf(n) : Come(g, i) \subseteq begun[i] /\ i \in DOMAIN begun
    BY <1>3, <1>4 DEF PromiseInv, Slots
  <2>2. \A i, j \in SlotsOf(n) : i # j => begun[i] \cap begun[j] = {}
    BY <2>1 DEF Simple
  <2> QED BY <2>1, <2>2
<1>8. AllCome(g) = AllCome(fs)
  BY <1>3, <1>4 DEF AllCome
<1> DEFINE k0 == g.iters[Ids(g)[0]].key
<1>9. /\ k0 \in AllCome(g) /\ k0 \in Nat
      /\ \A k \in AllCome(g) : k \in Nat /\ NotAfter(k0, k, g.dir)
      /\ AllCome(fs') = AllCome(g) \ {k0}
      /\ \E run : out' = Append(out, [key |-> k0, run |-> run])
  BY <1>2, <1>4, <1>5, <1>6, <1>7, CallGives DEF FoldInv
<1> HIDE DEF k0
<1>10. AllCome(fs)' = AllCome(fs')
  BY DEF AllCome, Come, RestOf
<1> QED BY <1>2, <1>8, <1>9, <1>10

\* The keys given, as the promise sees them.
LEMMA SeenAppend ==
  ASSUME out \in Seq(Call), NEW k0, NEW run,
         out' = Append(out, [key |-> k0, run |-> run]), out' \in Seq(Call)
  PROVE  [c \in DOMAIN out' |-> out'[c].key]
           = Append([c \in DOMAIN out |-> out[c].key], k0)
<1> DEFINE e == [key |-> k0, run |-> run]
           s == [c \in DOMAIN out |-> out[c].key]
           t == [c \in DOMAIN out' |-> out'[c].key]
           m == Len(out)
<1>1. /\ m \in Nat /\ DOMAIN out = 1 .. m /\ DOMAIN out' = 1 .. m + 1
      /\ \A c \in 1 .. m : out'[c] = out[c]
      /\ out'[m + 1] = e
  <2> DEFINE S == Call \cup {e}
  <2> HIDE DEF e
  <2>1. out \in Seq(S) /\ e \in S
    BY ElementOfSeq
  <2>2. out' = Append(out, e)
    BY DEF e
  <2> HIDE DEF S
  <2> QED BY <2>1, <2>2, AppendProperties, LenProperties
<1>2. e.key = k0
  OBVIOUS
<1> HIDE DEF e, m
<1>3. \A c \in 1 .. m : s[c] = out[c].key /\ t[c] = out[c].key
  BY <1>1
<1>4. t[m + 1] = k0
  BY <1>1, <1>2
<1> DEFINE T == {out[c].key : c \in 1 .. m} \cup {k0}
<1>5. s \in [1 .. m -> T] /\ t = [c \in 1 .. m + 1 |-> t[c]]
  BY <1>1
<1> HIDE DEF s, t, T
<1>6. s \in Seq(T) /\ Len(s) = m
  BY <1>1, <1>5, LenProperties
<1>7. k0 \in T
  BY DEF T
<1> DEFINE r == Append(s, k0)
<1>8. /\ r \in Seq(T) /\ Len(r) = m + 1 /\ DOMAIN r = 1 .. m + 1
      /\ \A c \in 1 .. m : r[c] = s[c]
      /\ r[m + 1] = k0
  BY <1>6, <1>7, AppendProperties, LenProperties
<1> HIDE DEF r
<1>9. r = [c \in 1 .. m + 1 |-> r[c]]
  <2>1. r \in [1 .. m + 1 -> T]
    BY <1>8, ElementOfSeq
  <2> QED BY <2>1
<1>10. \A c \in 1 .. m + 1 : r[c] = t[c]
  <2>1. \A c \in 1 .. m + 1 : c \in 1 .. m \/ c = m + 1
    BY <1>1
  <2> QED BY <1>3, <1>4, <1>8, <2>1
<1>11. r = t
  BY <1>5, <1>9, <1>10
<1> QED BY <1>11 DEF r, s, t

PromiseStep == Promise!Next \/ UNCHANGED Promise!vars

\* Every step of a fold is one of the promise, or none.
LEMMA KeepsStep ==
  ASSUME FoldInv, PromiseInv, [Next]_vars
  PROVE  PromiseInv' /\ (Simple /\ Simple' => PromiseStep)
<1> DEFINE todo == UNION {Rest(i) \cup ToSet(Held(i)) : i \in Slots}
           seen == [c \in DOMAIN out |-> out[c].key]
<1>1. todo = AllCome(fs) /\ todo' = AllCome(fs)'
  BY TodoIs, TodoNext
<1>2. PICK n \in Nat : Good(fs, n)
  BY DEF FoldInv
<1>3. ASSUME End, Active
      PROVE  PromiseInv' /\ PromiseStep
  <2>1. fs'.iters = << >> /\ fs'.dir = "NONE" /\ out' = << >> /\ begun' = << >>
    BY <1>3, IdleGood DEF End, fold_halt
  <2>2. fs.dir # "NONE"
    BY <1>3 DEF FoldInv, Active
  <2>3. AllCome(fs)' = {}
    BY <2>1 DEF AllCome
  <2>4. PromiseInv'
    BY <2>1 DEF PromiseInv, Slots
  <2>5. seen' = << >>
    BY <2>1
  <2>6. Promise!End
    BY <1>1, <2>1, <2>2, <2>3, <2>5 DEF Promise!End
  <2> QED BY <2>4, <2>6 DEF PromiseStep, Promise!Next
<1>4. ASSUME NEW dir \in Directions, NEW m \in 1 .. MaxCount,
             NEW arrays \in [0 .. m - 1 -> Arrays], Start(dir, arrays)
      PROVE  PromiseInv' /\ PromiseStep
  <2>1. PromiseInv' /\ AllCome(fs)' \subseteq Keys
    BY <1>4, StartPromise
  <2>2. fs.dir = "NONE" /\ out' = out
    BY <1>4, IdleGood DEF Start, Active
  <2>3. fs'.dir \in {"LEFT", "RIGHT"}
    BY <1>4, FoldAssumption DEF Start, fold_state
  <2>4. seen' = seen
    BY <2>2
  <2>5. Promise!Begin
    BY <1>1, <2>1, <2>2, <2>3, <2>4 DEF Promise!Begin
  <2> QED BY <2>1, <2>5 DEF PromiseStep, Promise!Next
<1>5. CASE FoldNext
  <2>1. CASE End
    BY <1>3, <1>5, <2>1 DEF FoldNext
  <2>2. CASE ~End
    <3> DEFINE g == IF fs.live > 0 THEN step_active_iterators(fs) ELSE fs
    <3>1. /\ fs.live > 0 \/ fs.available > 0
          /\ UNCHANGED <<sas, begun>> /\ Active
          /\ call_with_next(g)
      BY <1>5, <2>2 DEF FoldNext
    <3> HIDE DEF g
    <3>2. PromiseInv' /\ fs'.dir = fs.dir
      BY <3>1, NextPromise DEF g
    <3>3. ASSUME Simple
          PROVE  PromiseStep
      <4>1. PICK k0 \in AllCome(fs) :
              /\ k0 \in Nat
              /\ \A k \in AllCome(fs) : k \in Nat /\ NotAfter(k0, k, fs.dir)
              /\ AllCome(fs)' = AllCome(fs) \ {k0}
              /\ \E run : out' = Append(out, [key |-> k0, run |-> run])
        BY <3>1, <3>3, NextGives DEF g
      <4>2. PICK run : out' = Append(out, [key |-> k0, run |-> run])
        BY <4>1
      <4>3. out \in Seq(Call) /\ out' \in Seq(Call)
        <5>1. FoldInv'
          BY FoldStep
        <5> QED BY <5>1 DEF FoldInv
      <4>4. seen' = Append(seen, k0)
        BY <4>2, <4>3, SeenAppend
      <4>5. Promise!First(todo) = k0
        <5> DEFINE Is(k) == \A j \in AllCome(fs) : NotAfter(k, j, fs.dir)
        <5>1. Promise!First(todo) = CHOOSE k \in AllCome(fs) : Is(k)
          BY <1>1 DEF Promise!First, NotAfter
        <5>2. Is(k0) /\ \A k \in AllCome(fs) : Is(k) => k = k0
          <6>1. \A k \in AllCome(fs) : k \in Nat /\ NotAfter(k0, k, fs.dir)
            BY <4>1
          <6>2. \A k \in AllCome(fs) : NotAfter(k, k0, fs.dir) => k = k0
            BY <4>1, <6>1 DEF NotAfter
          <6> QED BY <4>1, <6>1, <6>2
        <5> HIDE DEF Is
        <5> QED BY <4>1, <5>1, <5>2
      <4>6. todo # {}
        BY <1>1, <4>1
      <4>7. todo' = todo \ {k0}
        BY <1>1, <4>1
      <4> HIDE DEF todo, seen
      <4>8. Promise!Give
        BY <3>2, <4>4, <4>5, <4>6, <4>7 DEF Promise!Give, todo, seen
      <4> QED BY <4>8 DEF PromiseStep, Promise!Next
    <3> QED BY <3>2, <3>3
  <2> QED BY <2>1, <2>2
<1>6. CASE Halt
  BY <1>3, <1>6 DEF Halt
<1>7. ASSUME NEW a \in Arrays, NEW key \in Keys, Change(a, key)
      PROVE  PromiseInv' /\ PromiseStep
  <2>1. (\A i \in Slots : Come(fs, i)' = Come(fs, i)) /\ AllCome(fs)' = AllCome(fs)
    BY <1>7, ChangePromise
  <2>2. fs' = fs /\ out' = out /\ begun' = begun
    BY <1>7 DEF Change
  <2>3. PromiseInv'
    BY <2>1, <2>2 DEF PromiseInv, Slots, Forward
  <2>4. UNCHANGED Promise!vars
    BY <1>1, <2>1, <2>2 DEF Promise!vars
  <2> QED BY <2>3, <2>4 DEF PromiseStep
<1>8. CASE UNCHANGED vars
  <2>1. fs' = fs /\ out' = out /\ begun' = begun /\ sas' = sas
    BY <1>8 DEF vars
  <2>2. PromiseInv'
    BY <2>1 DEF PromiseInv, Slots, Forward, Come, RestOf
  <2>3. AllCome(fs)' = AllCome(fs)
    BY <2>1 DEF AllCome, Come, RestOf
  <2>4. UNCHANGED Promise!vars
    BY <1>1, <2>1, <2>3 DEF Promise!vars
  <2> QED BY <2>2, <2>4 DEF PromiseStep
<1> QED BY <1>4, <1>5, <1>6, <1>7, <1>8 DEF Next

\* What include/skiparray.h says of folds: over skiparrays that share no key
\* to the left, and over one to the right, each call of the callback gets the
\* next of all the keys, and none is given twice or left out.
THEOREM FoldKeepsPromise == Spec => KeepsPromise
<1>1. Init => PromiseInv
  <2>1. Init => fs.iters = << >> /\ begun = << >>
    BY IdleGood DEF Init
  <2> QED BY <2>1 DEF PromiseInv, Slots
<1>2. FoldInv /\ PromiseInv /\ [Next]_vars => PromiseInv'
  BY KeepsStep
<1>3. FoldInv /\ PromiseInv /\ [Next]_vars
        => [Simple /\ Simple' => Promise!Next \/ UNCHANGED Promise!vars]_vars
  BY KeepsStep DEF PromiseStep
<1> QED BY <1>1, <1>2, <1>3, FoldAlways, PTL DEF Spec, KeepsPromise
=============================================================================
