-------------------------- MODULE SkipArrayBuilder --------------------------
(***************************************************************************)
(* A skiparray that is made with a builder and then used: the builder      *)
(* calls of src/skiparray.c, followed by those of SkipArray.  While it is  *)
(* built the client cannot reach the skiparray, but the next append can:   *)
(* `sa` is the builder's skiparray until finish hands it over.             *)
(***************************************************************************)
EXTENDS SkipArray, Builder

VARIABLE builder  \* the set of the builder, empty after finish

BuiltVars == <<sa, iter, call, ret, builder>>

Building == builder # {}

BuilderNew ==
  /\ \E lvl \in Levels, check \in BOOLEAN : builder = {builder_new(lvl, check)}
  /\ \A b \in builder : sa = b.sa
  /\ iter = NULL
  /\ call = <<"builder_new">>
  /\ ret = [res |-> "OK", pair |-> {}]

\* With skip_ascending_key_check the client has to see to the order itself:
\* "appending a key that is not > the previous may silently corrupt data".
ClientMayAppend(b, key) ==
  \A p \in ToSet(b.sa.heap[b.last].pairs) : b.check \/ p.key < key

BuilderRefuse(res) == Refuse(res) /\ UNCHANGED builder

BuilderAppend(b, pair) ==
  /\ ClientMayAppend(b, pair.key)
  /\ call' = <<"append", pair>>
  /\ \/ rejects(b, pair.key) /\ BuilderRefuse("MISUSE")
     \/ ~rejects(b, pair.key) /\ last_is_full(b) /\ BuilderRefuse("MEMORY")
     \/ /\ ~rejects(b, pair.key)
        /\ \E lvl \in IF last_is_full(b) THEN Levels ELSE {0} :
             builder' = {append(b, pair, lvl)}
        /\ \A grown \in builder' : sa' = grown.sa
        /\ Returns("OK", {})
        /\ UNCHANGED iter

BuilderFinish ==
  /\ Building
  /\ builder' = {}
  /\ call' = <<"finish">>
  /\ Returns("OK", {})
  /\ UNCHANGED <<sa, iter>>

\* Any call of SkipArray, on the skiparray finish has handed over.
Use == ~Building /\ Next /\ UNCHANGED builder

BuiltNext ==
  \/ \E b \in builder, pair \in Pair : BuilderAppend(b, pair)
  \/ BuilderFinish
  \/ Use

BuiltSpec == BuilderNew /\ [][BuiltNext]_BuiltVars

-----------------------------------------------------------------------------
(* Properties, besides those of SkipArray: LevelsExact, BackLinksExact and  *)
(* SearchExact hold of a skiparray that is being built and of one that was. *)

\* On each level the trail is at the last node, and at none on a level no node
\* has reached yet: the next node is linked behind all its predecessors.
TrailExact ==
  \A b \in builder, l \in 0 .. MaxLevel - 1 :
    LET chain == Chain(sa, l)
    IN  b.trail[l] = IF chain = << >> THEN NULL ELSE chain[Len(chain)]

\* "it will compare the new key against the previously appended key (if any),
\* and either append or return ERROR_MISUSE and leave the builder unchanged":
\* a key is accepted just when it is above every key there, whatever was
\* refused or ran out of memory before, and lands behind all of them.
AppendAtEnd ==
  [][\A pair \in Pair : call' = <<"append", pair>> =>
       LET above == \A k \in DOMAIN MapOf : k < pair.key
       IN  /\ ret'.res = "MISUSE" <=> ~above
           /\ Bindings(sa)' = IF ret'.res = "OK" THEN Append(Bindings(sa), pair)
                                                 ELSE Bindings(sa)
    ]_BuiltVars

\* From finish on the calls do what the header promises of an ordered map.
UsedAsOrderedMap == [][~Building => Promise!Next]_BuiltVars

\* From finish on level 0 changes by the rules of NodeChain: search opens the
\* gap NodeChain!Place allows, and no link surgery on the levels above lets a
\* node or a pair slip.
UsedAsNodeChain == [][~Building => Level0!Next]_BuiltVars

\* A builder packs nodes full, as sets never do; they stay half full all the
\* same, while it is building and whatever calls follow.
BuiltHalfFull == Level0!HalfFull

=============================================================================
