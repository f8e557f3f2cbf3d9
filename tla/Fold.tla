-------------------------------- MODULE Fold --------------------------------
(***************************************************************************)
(* src/skiparray_fold.c: one fold in progress over up to MaxCount          *)
(* skiparrays, each read through an iterator.  A skiparray is the set of   *)
(* its keys, and an iterator the key it stands on, as SkipArrayIter shows  *)
(* iterators to be (RefinesCursors); a skiparray is locked while one of    *)
(* its iterators is live.                                                  *)
(*                                                                         *)
(* Every iterator has at most one pair taken off it that has not been      *)
(* given to the callback yet.  The slots of these pairs lie sorted by key  *)
(* in ids.current[offset .. offset + available - 1].                       *)
(*                                                                         *)
(* Between two calls of skiparray_fold_next, or in its callback, the       *)
(* client changes the skiparrays that are not locked.                      *)
(***************************************************************************)
EXTENDS Integers, Sequences, FiniteSets, SequencesExt

CONSTANTS Keys,        \* keys, ordered as integers by cmp
          Arrays,      \* skiparrays
          MaxCount,    \* bound on skiparray_count
          Directions   \* of the folds the client starts

ASSUME FoldAssumption ==
  /\ Keys \subseteq Nat \ {0}
  /\ MaxCount \in Nat /\ MaxCount >= 1
  /\ Directions \subseteq {"LEFT", "RIGHT"}

VARIABLES sas,    \* the keys of each skiparray
          fs,     \* the fold state
          out,    \* the calls of the fold callback: [key, run], where run is
                  \* the slots whose pairs were merged
          begun   \* for the properties: the keys of each slot at the start

vars == <<sas, fs, out, begun>>

NULL == 0

Extremes(S, dir) ==
  {k \in S : \A j \in S : IF dir = "LEFT" THEN k <= j ELSE k >= j}

\* The first key of a set in the direction of the fold; NULL if there is none.
FirstOf(S, dir) == IF S = {} THEN NULL ELSE CHOOSE k \in Extremes(S, dir) : TRUE

After(S, k, dir) == {j \in S : IF dir = "LEFT" THEN j > k ELSE j < k}

-----------------------------------------------------------------------------
(* The state: slots are numbered from 0, as in the code. *)

Idle == [dir |-> "NONE", arrays |-> << >>, iters |-> << >>, live |-> 0,
         current |-> << >>, available |-> 0, offset |-> 0]

Active == fs # Idle

Slots == DOMAIN fs.iters

Locked(a) == \E i \in Slots : fs.arrays[i] = a /\ fs.iters[i].at # NULL

\* ids.current while in use.
Pending == [c \in 1 .. fs.available |-> fs.current[fs.offset + c - 1]]

live_count_All(arrays) == Cardinality(DOMAIN arrays)

\* An empty skiparray has no iterator.
live_count(arrays) == Cardinality({i \in DOMAIN arrays : sas[arrays[i]] # {}})

\* One iterator per skiparray, at its first or last key; none for an empty one.
fold_state(dir, arrays) ==
  [dir       |-> dir,
   arrays    |-> arrays,
   iters     |-> [i \in DOMAIN arrays |->
                    [at |-> FirstOf(sas[arrays[i]], dir), state |-> "NONE", key |-> NULL]],
   live      |-> live_count(arrays),
   current   |-> [c \in DOMAIN arrays |-> 0],
   available |-> 0,
   offset    |-> 0]

\* memmove(&ids[0], &ids[offset], available); offset = 0
compact(f) ==
  [f EXCEPT !.current = [c \in DOMAIN @ |->
              IF c < f.available THEN @[c + f.offset] ELSE @[c]],
            !.offset  = 0]

insert_place_Last(f, key) == f.available

\* The first pending pair whose key is not smaller, or the end.
insert_place(f, key) ==
  CHOOSE p \in 0 .. f.available :
    /\ p < f.available => key <= f.iters[f.current[p]].key
    /\ \A c \in 0 .. p - 1 : key > f.iters[f.current[c]].key

\* Slot i joins the pending ones: before those with an equal key, and marked
\* as EQ if there is one.
insert_pair(f, i) ==
  LET g     == compact(f)
      key   == g.iters[i].key
      place == insert_place(g, key)
      equal == place < g.available /\ g.iters[g.current[place]].key = key
  IN  [g EXCEPT
         !.current = [c \in DOMAIN @ \cup (0 .. g.available) |->
            IF c = place THEN i
            ELSE IF c \in place + 1 .. g.available THEN @[c - 1] ELSE @[c]],
         !.iters[i].state = IF equal THEN "EQ" ELSE "LT",
         !.available = @ + 1]

iter_step_Stay(f, i) == FirstOf(sas[f.arrays[i]], f.dir)

\* skiparray_iter_next or _prev; NULL at the end.
iter_step(f, i) ==
  FirstOf(After(sas[f.arrays[i]], f.iters[i].at, f.dir), f.dir)

\* One turn of the loop over the iterators: the pair under the iterator is
\* taken; an iterator that meets its end is freed at once.
step_iterator(f, i) ==
  LET taken == insert_pair([f EXCEPT !.iters[i].key = f.iters[i].at], i)
      next  == iter_step(f, i)
  IN  IF f.iters[i].at = NULL \/ f.iters[i].state # "NONE" THEN f
      ELSE [taken EXCEPT !.iters[i].at = next,
                         !.live = IF next = NULL THEN @ - 1 ELSE @]

\* One turn for each iterator, in order.  (TLC evaluates an argument each time
\* it is used; e is the argument evaluated once.)
step_active_iterators(f) ==
  LET count == Cardinality(DOMAIN f.iters)
      turns[n \in 0 .. count] ==
        IF n = 0 THEN f
        ELSE CHOOSE h \in {step_iterator(e, n - 1) : e \in {turns[n - 1]}} : TRUE
  IN  turns[count]

\* How many pending pairs are given next: one that is less than the following
\* one, or a run of those that equal the following one.
next_used(f) ==
  LET IsEq(c) == f.iters[f.current[f.offset + c]].state = "EQ"
  IN  CHOOSE used \in 1 .. f.available :
        /\ \A c \in 0 .. used - 1 : IsEq(c) \/ used = 1
        /\ used < f.available /\ IsEq(0) => ~IsEq(used)

call_with_next(f) ==
  LET used == next_used(f)
      run  == [c \in 1 .. used |-> f.current[f.offset + c - 1]]
  IN  /\ out' = Append(out, [key |-> f.iters[run[1]].key, run |-> run])
      /\ fs' = [f EXCEPT
                  !.available = @ - used,
                  !.offset    = @ + used,
                  !.iters     = [i \in DOMAIN @ |->
                    IF i \in ToSet(run) THEN [@[i] EXCEPT !.state = "NONE"] ELSE @[i]]]

fold_halt_Kept(f) == f

\* Frees the iterators that are left, and the state.
fold_halt(f) == Idle

-----------------------------------------------------------------------------

Init ==
  /\ sas = [a \in Arrays |-> {}]
  /\ fs = Idle
  /\ out = << >>
  /\ begun = << >>

\* skiparray_fold_multi_init, and skiparray_fold_init for one skiparray.  The
\* same skiparray may be given twice.  When memory runs out nothing is left
\* behind; Lifetimes has that case.
Start(dir, arrays) ==
  /\ ~Active
  /\ fs' = fold_state(dir, arrays)
  /\ begun' = [i \in DOMAIN arrays |-> sas[arrays[i]]]
  /\ UNCHANGED <<sas, out>>

End ==
  /\ fs' = fold_halt(fs)
  /\ out' = << >>
  /\ begun' = << >>
  /\ UNCHANGED sas

FoldNext ==
  /\ Active
  /\ \/ fs.live = 0 /\ fs.available = 0 /\ End
     \/ /\ fs.live > 0 \/ fs.available > 0
        /\ UNCHANGED <<sas, begun>>
        /\ \E f \in {IF fs.live > 0 THEN step_active_iterators(fs) ELSE fs} :
             call_with_next(f)

Halt == Active /\ End

\* skiparray_set or skiparray_forget of a key; refused while locked.
Change(a, key) ==
  /\ ~Locked(a)
  /\ sas' = [sas EXCEPT ![a] = IF key \in @ THEN @ \ {key} ELSE @ \cup {key}]
  /\ UNCHANGED <<fs, out, begun>>

Next ==
  \/ \E dir \in Directions, n \in 1 .. MaxCount :
       \E arrays \in [0 .. n - 1 -> Arrays] : Start(dir, arrays)
  \/ FoldNext
  \/ Halt
  \/ \E a \in Arrays, key \in Keys : Change(a, key)

Spec == Init /\ [][Next]_vars

\* skiparray_fold calls skiparray_fold_next until it returns DONE.
FairSpec == Spec /\ WF_vars(FoldNext)

-----------------------------------------------------------------------------
(* Properties. *)

Key(i) == fs.iters[i].key

\* The fields have the types the code gives them; the ids lie in their array,
\* which has one cell for each slot, whatever the order in which pairs are
\* added at the front and taken off it.
TypeOK ==
  /\ sas \in [Arrays -> SUBSET Keys]
  /\ fs.dir \in {"NONE", "LEFT", "RIGHT"}
  /\ \A i \in Slots : fs.iters[i] \in [at : {NULL} \cup Keys, key : {NULL} \cup Keys,
                                       state : {"NONE", "LT", "EQ"}]
  /\ DOMAIN fs.current = Slots /\ \A c \in Slots : fs.current[c] \in Slots
  /\ fs.offset >= 0 /\ fs.available >= 0
  /\ fs.offset + fs.available <= Cardinality(Slots)
  /\ fs.live = Cardinality({i \in Slots : fs.iters[i].at # NULL})

\* The pending slots are those with a state, each once, their keys ascend
\* whatever the direction, and EQ marks just those that equal the next one:
\* also after some iterators have moved on and others have ended.
PendingExact ==
  /\ ToSet(Pending) = {i \in Slots : fs.iters[i].state # "NONE"}
  /\ \A c, d \in DOMAIN Pending : c < d =>
       /\ Pending[c] # Pending[d]
       /\ Key(Pending[c]) <= Key(Pending[d])
  /\ \A c \in DOMAIN Pending :
       fs.iters[Pending[c]].state = "EQ" <=>
         c < fs.available /\ Key(Pending[c]) = Key(Pending[c + 1])

\* The keys of a set in the order of the fold.
Listing(S) ==
  CHOOSE s \in [1 .. Cardinality(S) -> S] :
    \A j, k \in DOMAIN s : j < k => IF fs.dir = "LEFT" THEN s[j] < s[k]
                                                     ELSE s[j] > s[k]

\* What has been given of the keys of slot i, alone or merged.
Given(i) ==
  FlattenSeq([c \in DOMAIN out |->
                IF i \in ToSet(out[c].run) THEN <<out[c].key>> ELSE << >>])

Held(i) == IF fs.iters[i].state = "NONE" THEN << >> ELSE <<Key(i)>>

Rest(i) ==
  LET at == fs.iters[i].at
  IN  IF at = NULL THEN {} ELSE {at} \cup After(sas[fs.arrays[i]], at, fs.dir)

\* No pair is lost, given twice or given out of turn: what was given of a
\* skiparray, what is pending and what is still under its iterator make up
\* what it held when the fold began, although the client changes it as soon as
\* it is unlocked.  In particular all has been given when fold_next says DONE.
NothingLost ==
  \A i \in Slots : Given(i) \o Held(i) \o Listing(Rest(i)) = Listing(begun[i])

\* A fold to the left calls back with keys that never descend, however many
\* skiparrays there are and whichever of them end first.
LeftAscends ==
  fs.dir = "LEFT" => \A c, d \in DOMAIN out : c < d => out[c].key <= out[d].key

\* A fold whose client goes on calling fold_next, as skiparray_fold does, ends.
FoldEnds == Active ~> ~Active

Promise == INSTANCE OrderedFold
             WITH dir  <- fs.dir,
                  todo <- UNION {Rest(i) \cup ToSet(Held(i)) : i \in Slots},
                  seen <- [c \in DOMAIN out |-> out[c].key]

\* Over skiparrays that share no key, to the left, or a single one.
Simple ==
  /\ \A i, j \in DOMAIN begun : i # j => begun[i] \cap begun[j] = {}
  /\ fs.dir = "RIGHT" => Slots = {0}

\* Folds to the left over skiparrays that share no key, and to the right over
\* one, keep the promise of the header: each step gives the next key of all.
KeepsPromise == [][Simple /\ Simple' => Promise!Next \/ UNCHANGED Promise!vars]_vars

\* "If multiple skiparrays' next available keys compare equal, then the merge
\* callback will be called to merge the options to a single key, value pair
\* first" (include/skiparray.h): a fold to the left gives no key twice.
MergedOnce ==
  fs.dir = "LEFT" => \A c, d \in DOMAIN out : c # d => out[c].key # out[d].key

=============================================================================
