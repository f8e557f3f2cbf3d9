----------------------------- MODULE OrderedMap -----------------------------
(***************************************************************************)
(* What include/skiparray.h promises, with no node in sight: a finite map  *)
(* over ordered keys, read through iterators that lock it.  `map` takes a  *)
(* key that is bound to its binding; `pos` takes each live iterator to the *)
(* key it stands on, or to PastLast after it has run off the end; `call`   *)
(* is the last call and its arguments, `ret` what it returned.             *)
(***************************************************************************)
EXTENDS Integers, FiniteSets

CONSTANTS Pair,     \* the pairs of the client: key, inst, val
          IterIds   \* iterator handles

VARIABLES map, pos, call, ret

vars == <<map, pos, call, ret>>

\* No key: keys are positive.
PastLast == 0

Keys == {p.key : p \in Pair}

Bound == DOMAIN map

Least(S) == CHOOSE k \in S : \A j \in S : k <= j

Greatest(S) == CHOOSE k \in S : \A j \in S : k >= j

Following(k) == {j \in Bound : j > k}

Preceding(k) == {j \in Bound : j < k}

Without(f, x) == [y \in DOMAIN f \ {x} |-> f[y]]

With(f, x, v) == [y \in DOMAIN f \cup {x} |-> IF y = x THEN v ELSE f[y]]

Unlocked == DOMAIN pos = {}

Returns(res, pair) == ret' = [res |-> res, pair |-> pair]

\* The call changes nothing.
Look(res, pair) == Returns(res, pair) /\ UNCHANGED <<map, pos>>

Refuse(res) == Look(res, {})

-----------------------------------------------------------------------------

Init ==
  /\ map = [k \in {} |-> 0]
  /\ pos = [i \in {} |-> 0]
  /\ call = <<"new">>
  /\ ret = [res |-> "OK", pair |-> {}]

Set(pair, replace_key) ==
  LET k == pair.key
  IN  /\ call' = <<"set", pair, replace_key>>
      /\ \/ ~Unlocked /\ Refuse("LOCKED")
         \/ Unlocked /\ k \notin Bound /\ Refuse("MEMORY")
         \/ /\ Unlocked /\ k \notin Bound
            /\ map' = With(map, k, pair)
            /\ Returns("BOUND", {})
            /\ UNCHANGED pos
         \/ /\ Unlocked /\ k \in Bound
            /\ map' = [map EXCEPT ![k] =
                 IF replace_key THEN pair ELSE [@ EXCEPT !.val = pair.val]]
            /\ Returns("REPLACED", {map[k]})
            /\ UNCHANGED pos

Remove(k) ==
  /\ map' = Without(map, k)
  /\ Returns("OK", {map[k]})
  /\ UNCHANGED pos

Forget(k) ==
  /\ call' = <<"forget", k>>
  /\ \/ ~Unlocked /\ Refuse("LOCKED")
     \/ Unlocked /\ k \notin Bound /\ Refuse("NOT_FOUND")
     \/ Unlocked /\ k \in Bound /\ Remove(k)

Pop(EndOf(_)) ==
  \/ ~Unlocked /\ Refuse("LOCKED")
  \/ Unlocked /\ Bound = {} /\ Refuse("EMPTY")
  \/ Unlocked /\ Bound # {} /\ Remove(EndOf(Bound))

PopFirst == call' = <<"pop_first">> /\ Pop(Least)

PopLast == call' = <<"pop_last">> /\ Pop(Greatest)

-----------------------------------------------------------------------------
(* Queries, which no iterator locks out. *)

Get(k) ==
  /\ call' = <<"get", k>>
  /\ \/ k \in Bound /\ Look("OK", {map[k]})
     \/ k \notin Bound /\ Look("NOT_FOUND", {})

CountPairs == call' = <<"count">> /\ Look(Cardinality(Bound), {})

Endpoint(EndOf(_)) ==
  \/ Bound = {} /\ Look("EMPTY", {})
  \/ Bound # {} /\ Look("OK", {map[EndOf(Bound)]})

FirstPair == call' = <<"first">> /\ Endpoint(Least)

LastPair == call' = <<"last">> /\ Endpoint(Greatest)

-----------------------------------------------------------------------------
(* Iterators. *)

IterNew(i) ==
  /\ call' = <<"iter_new", i>>
  /\ i \notin DOMAIN pos
  /\ \/ Bound = {} /\ Refuse("EMPTY")
     \/ Bound # {} /\ Refuse("MEMORY")
     \/ /\ Bound # {}
        /\ pos' = With(pos, i, Least(Bound))
        /\ Returns("OK", {})
        /\ UNCHANGED map

IterFree(i) ==
  /\ call' = <<"iter_free", i>>
  /\ i \in DOMAIN pos
  /\ pos' = Without(pos, i)
  /\ Returns("OK", {})
  /\ UNCHANGED map

\* Iterator i now stands on k; the call reports res.
Stand(i, k, res) ==
  /\ pos' = [pos EXCEPT ![i] = k]
  /\ Returns(res, {})
  /\ UNCHANGED map

IterSeekEndpoint(i, end) ==
  /\ call' = <<"iter_seek_endpoint", i, end>>
  /\ i \in DOMAIN pos
  /\ Stand(i, IF end = "FIRST" THEN Least(Bound) ELSE Greatest(Bound), "OK")

IterSeek(i, k) ==
  /\ call' = <<"iter_seek", i, k>>
  /\ i \in DOMAIN pos
  /\ \/ k \in Bound /\ Stand(i, k, "FOUND")
     \/ k \notin Bound /\ Preceding(k) = {} /\ Refuse("BEFORE_FIRST")
     \/ k \notin Bound /\ Following(k) = {} /\ Refuse("AFTER_LAST")
     \/ /\ k \notin Bound /\ Preceding(k) # {} /\ Following(k) # {}
        /\ Stand(i, Least(Following(k)), "NOT_FOUND")

IterNext(i) ==
  /\ call' = <<"iter_next", i>>
  /\ i \in DOMAIN pos
  /\ \/ /\ pos[i] = PastLast \/ Following(pos[i]) = {}
        /\ Stand(i, PastLast, "END")
     \/ /\ pos[i] # PastLast /\ Following(pos[i]) # {}
        /\ Stand(i, Least(Following(pos[i])), "OK")

IterPrev(i) ==
  LET before == IF pos[i] = PastLast THEN Bound ELSE Preceding(pos[i])
  IN  /\ call' = <<"iter_prev", i>>
      /\ i \in DOMAIN pos
      /\ \/ before = {} /\ Stand(i, pos[i], "END")
         \/ before # {} /\ Stand(i, Greatest(before), "OK")

\* The binding under iterator i, which stands on one.
IterGet(i) ==
  /\ call' = <<"iter_get", i>>
  /\ i \in DOMAIN pos /\ pos[i] # PastLast
  /\ Look("OK", {map[pos[i]]})

-----------------------------------------------------------------------------

Next ==
  \/ \E pair \in Pair, replace_key \in BOOLEAN : Set(pair, replace_key)
  \/ \E k \in Keys : Forget(k) \/ Get(k)
  \/ PopFirst \/ PopLast
  \/ CountPairs \/ FirstPair \/ LastPair
  \/ \E i \in IterIds :
       \/ IterNew(i)
       \/ IterFree(i)
       \/ \E end \in {"FIRST", "LAST"} : IterSeekEndpoint(i, end)
       \/ \E k \in Keys : IterSeek(i, k)
       \/ IterNext(i)
       \/ IterPrev(i)
       \/ IterGet(i)

Spec == Init /\ [][Next]_vars

=============================================================================
