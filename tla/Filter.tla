------------------------------- MODULE Filter -------------------------------
(***************************************************************************)
(* skiparray_filter of src/skiparray_hof.c: a fold to the left over one    *)
(* skiparray whose callback appends to a builder.  It puts Fold, in which  *)
(* the source is a set of keys, and Builder, which makes the copy node by  *)
(* node, together.  Every allocation may fail.                             *)
(*                                                                         *)
(* The predicate, a callback of the client, answers as it likes and may    *)
(* change the source whenever that is not locked.                          *)
(***************************************************************************)
EXTENDS Builder

CONSTANT SourceKeys  \* keys, ordered as integers by cmp

VARIABLES sas, fs, out, begun,  \* of the fold
          b,       \* the set of the builder, empty when there is none
          ok,      \* env.ok
          copies,  \* the set of the skiparray returned, empty for NULL
          phase,   \* "idle", "fold" or "returned"
          judged,  \* for the properties: the answers of the predicate,
          before,  \* the keys of the source at the call,
          failed,  \* whether an allocation has failed,
          freed    \* and the keys whose pairs the free callback was given

foldVars == <<sas, fs, out, begun>>

history == <<judged, before, failed, freed>>

vars == <<foldVars, b, ok, copies, phase, history>>

Source == 1

F == INSTANCE Fold
       WITH Keys <- SourceKeys, Arrays <- {Source}, MaxCount <- 1,
            Directions <- {"LEFT"}

Levels == 0 .. MaxLevel - 1

PairOf(key) == [key |-> key, inst |-> 1, val |-> 1]

KeysOf(sa) == {p.key : p \in ToSet(Bindings(sa))}

Init ==
  /\ F!Init
  /\ b = {} /\ ok = TRUE /\ copies = {} /\ phase = "idle"
  /\ judged = [k \in {} |-> TRUE] /\ before = {} /\ failed = FALSE /\ freed = {}

\* The builder, or the fold after it, cannot be allocated; an empty builder is
\* freed without any pair.
BeginFails ==
  /\ phase' = "returned" /\ copies' = {} /\ failed' = TRUE /\ b' = {}
  /\ UNCHANGED <<foldVars, ok, freed>>

BeginFold ==
  /\ \E lvl \in Levels : b' = {builder_new(lvl, FALSE)}
  /\ F!Start("LEFT", [i \in {0} |-> Source])
  /\ phase' = "fold" /\ ok' = TRUE /\ copies' = {} /\ failed' = FALSE
  /\ UNCHANGED freed

Begin ==
  /\ phase = "idle"
  /\ judged' = [k \in {} |-> TRUE]
  /\ before' = sas[Source]
  /\ BeginFails \/ BeginFold

filter_append_Silent(builder, key, keep) ==
  \/ ~keep /\ UNCHANGED <<b, ok, failed>>
  \/ /\ keep
     /\ \E lvl \in IF last_is_full(builder) THEN Levels ELSE {0} :
          b' = {append(builder, PairOf(key), lvl)}
     /\ UNCHANGED <<ok, failed>>
  \/ keep /\ last_is_full(builder) /\ failed' = TRUE /\ UNCHANGED <<b, ok>>

\* The fold callback.  An append that fails is noted, and the fold goes on.
filter_append(builder, key, keep) ==
  \/ ~keep /\ UNCHANGED <<b, ok, failed>>
  \/ /\ keep
     /\ \E lvl \in IF last_is_full(builder) THEN Levels ELSE {0} :
          b' = {append(builder, PairOf(key), lvl)}
     /\ UNCHANGED <<ok, failed>>
  \/ keep /\ last_is_full(builder) /\ ok' = FALSE /\ failed' = TRUE /\ UNCHANGED b

\* skiparray_fold_next gives one pair to the callback.
Step ==
  /\ phase = "fold" /\ fs.live + fs.available > 0
  /\ F!FoldNext
  /\ \E builder \in b, keep \in BOOLEAN :
       LET key == out'[Len(out')].key
       IN  /\ filter_append(builder, key, keep)
           /\ judged' = (key :> keep) @@ judged
  /\ UNCHANGED <<copies, phase, before, freed>>

\* builder_finish, or builder_free: that frees the structure, and hands every
\* pair in it to the free callback.
finish(builder) ==
  /\ copies' = IF ok THEN {builder.sa} ELSE {}
  /\ freed' = IF ok THEN freed ELSE freed \cup KeysOf(builder.sa)

\* skiparray_fold_next says DONE.
Return ==
  /\ phase = "fold" /\ fs.live + fs.available = 0
  /\ F!FoldNext
  /\ \E builder \in b : finish(builder)
  /\ b' = {} /\ phase' = "returned"
  /\ UNCHANGED <<ok, judged, before, failed>>

\* The client sets or forgets a key of the source (a pair it has set is not one
\* that was freed), or is done with what the filter returned.
Change(key) ==
  /\ F!Change(Source, key)
  /\ freed' = freed \ {key}
  /\ UNCHANGED <<b, ok, copies, phase, judged, before, failed>>

Drop ==
  /\ phase = "returned"
  /\ phase' = "idle" /\ copies' = {} /\ failed' = FALSE
  /\ UNCHANGED <<foldVars, b, ok, judged, before, freed>>

Next ==
  \/ Begin
  \/ Step
  \/ Return
  \/ \E key \in SourceKeys : Change(key)
  \/ Drop

Spec == Init /\ [][Next]_vars

-----------------------------------------------------------------------------
(* Properties. *)

\* "containing a subset of another's key/value pairs" (include/skiparray.h):
\* every key the source held at the call was put to the predicate, and the copy
\* holds those it kept in order, whatever the predicate does to the source as
\* soon as the fold has let go of it.
CopyExact ==
  \A sa \in copies :
    /\ DOMAIN judged = before
    /\ [i \in DOMAIN Bindings(sa) |-> Bindings(sa)[i].key]
         = SetToSortSeq({k \in before : judged[k]}, <)

\* "Returns NULL on allocation failure, or the new skiparray"
\* (include/skiparray.h), and NULL for no other reason: also when appends after
\* the failed one succeed.
NullIffOutOfMemory == phase = "returned" => (copies = {} <=> failed)

Copy(sa) == INSTANCE SkipArray
              WITH iter <- NULL, call <- << >>, ret <- << >>,
                   Pair <- {PairOf(k) : k \in SourceKeys}

\* The copy is a skiparray like any other: its levels, back pointers and the
\* search in it are exact.
CopyWellFormed ==
  \A sa \in copies :
    Copy(sa)!LevelsExact /\ Copy(sa)!BackLinksExact /\ Copy(sa)!SearchExact

\* "a filtered shallow copy of another skiparray" (CHANGELOG.md): a filter that
\* runs out of memory leaves the pairs of its source alone.
SourceNotFreed == freed \cap sas[Source] = {}

=============================================================================
