# skiparray in TLA+

A verification project for skiparray, an ordered map in C that stores its
bindings in a skip list of arrays ("unrolled skip list"). Paths below are
relative to the root of the repository, which is `src/` here: the library is
`src/src/skiparray.c`, `src/src/skiparray_fold.c` and `src/src/skiparray_hof.c`, its interface
`src/include/skiparray.h`.

To check a run: `tlc -workers 2 -config Fold.cfg Fold`.
To check the proofs of a module: `tlapm NodeChainProofs.tla`.

## The system

The library is sequential. A client makes calls; each call runs to its end. What
makes it hard is not scheduling but the length and the mix of the sequences of
calls: the same structure is reshaped by six different code paths (split, merge
forward, merge back, borrow, pop first, pop last), each of which maintains the
links of all levels and the arrays of the nodes by hand. Choices made outside it
are the order of the calls and their arguments, the level a new node is given
(the level callback), and whether the memory callback fails. Folds add what
looks like concurrency: between two steps of a fold, or in its callback, the client may change every skiparray that
is not locked at that moment.

| Component | State | Operations | What makes it correct |
|---|---|---|---|
| Node arrays | per node: two arrays of `node_size` cells, `offset`, `count` | make room and insert, remove, split, append from the next node | no access outside the arrays; no pair lost, doubled or torn from its value |
| Balance of the node chain | the nodes of level 0 and how full they are | split, merge with next, merge into previous, borrow, drop | a node never overfull; all but the last half full; the order of pairs is kept |
| Skip list | `height`, the heads `nodes[]`, per node `height`, `back`, `fwd[]` | search, link a new node on its levels, unlink one, raise and lower the height | each level is the subsequence of tall enough nodes; `back` is the inverse of `fwd[0]`; search finds the key or its place |
| Map operations | the above, `iter` | set, set_with_pair, forget, pop_first, pop_last, get, get_pair, member, count, first, last | an ordered map; results and old bindings as documented; refused while locked; unchanged when refused or out of memory |
| Iterators | a doubly linked list of iterators, each a node and an index | new, free, seek, seek_endpoint, next, prev, get | walk the bindings in order, in both directions; the map is locked just while one is live |
| Search inside a node | `low`, `high` of one call | skiparray_bsearch | finds the key or the one place where it belongs; inside the array; ends |
| Construction, teardown | the allocated blocks | new, free, and all calls that allocate or free | arguments checked; every allocation given back once, also when a later one of the same call fails |
| Builder | last node, `trail[]` of last nodes by level, last key | new, append, finish, free | the same structure as by repeated set; ascending keys enforced |
| Folds | iterators over several skiparrays, pending pairs in order | init, next, halt, free, multi_init, merge callback | every pair once, in order; equal keys merged; unlocked at the end |
| Filter | a fold and a builder | filter | the bindings that satisfy the predicate; nothing freed twice |
| Random levels | none (hash of a seed) | the default level callback | geometric distribution |

Interaction: the map operations call `search`, then the skip list and the node
arrays on the node it answers; iterators read the nodes and, by being in the list
`sa->iter`, make the map operations return LOCKED; a fold is a client of
iterators; the builder writes nodes directly and hands the skiparray over; filter
connects a fold to a builder. Callbacks (cmp, free, level, memory, fold, merge)
run inside a call.

## Modules

```
  OrderedMap            the promise: map, cursors        OrderedFold   the promise: keys in order
      ^                                                      ^
      | UsedAsOrderedMap, RefinesCursors                     | KeepsPromise
      |                                                      |
  SkipArray <---- SkipArrayIter    the calls             Fold          the fold state
   |  |   ^---- SkipArrayBuilder   make, then use            ^
   |  |              |                                       | INSTANCE
   |  |           Builder <------------------------------- Filter
   |  |              |                                    (fold into builder)
   |  SkipList <-----+             the structure, as operators
   |      ^
   |      | AgreesWithSkipList
   |  BinarySearch                 search inside a node, as a loop
   |
   | UsedAsNodeChain                             Lifetimes     who owns which block
   v
  NodeChain <---- RefinesNodeChain ---- NodeBuffers
  level 0 as sequences of pairs         the same nodes as arrays
```

`NodeChain` is where the two halves of the detailed model meet. `SkipArray` treats
a node's pairs as a sequence, and has the levels; `NodeBuffers` treats level 0 as
a sequence, and has the cells. Both are shown to implement `NodeChain`, which says
what each does to the pairs; together they cover `skiparray.c` without a state
space that is the product of the two.

- **SkipList** translates the functions of `skiparray.c` that read or change the
  structure, under their C names, as operators from the structure `sa` to the
  structure after it. A heap maps addresses to nodes; a freed node leaves the heap,
  so a link kept to it shows. `search` keeps its loop: `search_step` is one turn,
  with its descent, its jump over levels on which the next node has been rejected,
  and its choice between the end of a node and the start of the next.
- **SkipArray** has one action per call. The level of a new node is any value the
  callback may give; a call that allocates may also answer MEMORY. `call` and `ret` record
  the call and its result for the properties.
- **Builder** has the builder as operators on the record of its C fields; it links a new last node
  twice, from the previous last node and from the trail, as the code does.
  **SkipArrayBuilder** makes calls of them, lets the client finish at any point (also at
  once, which is `skiparray_new`) and goes on with any calls of SkipArray. A builder that does not check
  keys trusts its client: `ClientMayAppend` is that precondition, quoted from the header.
- **SkipArrayIter** adds the iterators: `its` maps the address of each live one to
  its fields, and actions for any iterator interleave with each other and with the
  actions of SkipArray. `iter_next` after END is a call the client may or may not
  make (`StepPastEnd`), for the reason given under *Findings*.
- **BinarySearch** is `skiparray_bsearch`, one step per turn of its loop. `MCBinarySearch`
  compares it with the operator SkipList uses.
- **Fold** is the state of a fold: the slots with their iterators and pending keys, the ids, `live`, `available` and
  `offset`. A skiparray is the set of its keys and an iterator the key under it, as RefinesCursors shows
  them to be. `FoldNext` is one call of `skiparray_fold_next`: all idle iterators are stepped, in the order of
  their slots, and one run of pending pairs is given. `Change` is the client, on whatever is unlocked. `out` and `begun` are
  the history the properties speak of.
- **Filter** is `skiparray_filter`, with an instance of Fold for the source and Builder for the copy. The predicate
  answers as it likes, and its client changes the source as soon as it is unlocked, which is when the last pair has been taken off it.
  `freed` is what the free callback has been given.
- **Lifetimes** has the calls that allocate or free, with what is in the blocks left out. Every call may succeed in any number `left` of
  allocations and fail in the next one, so each error path of `node_alloc`, `skiparray_new`,
  `builder_new` and `fold_multi_init` is taken. When exactly a set needs a node is for SkipArray to say: here it may or may not. The nodes of a skiparray and its iterators are sets of blocks,
  as nothing about freeing them depends on their order, which is the subject of SkipList and SkipArrayIter.
  The client does not free a skiparray that a fold is reading, and drops its iterators with it, as the header asks.
- **OrderedMap**, **OrderedFold** are abstract specifications: a function from keys to bindings,
  with a key (or the end) under each iterator; the keys still to be given, and those given.
- **NodeChain** and **NodeBuffers** as above. `copied` is memmove: it writes
  exactly the cells asked for, so that a write past the end of an array gives the
  array a cell it must not have, and a read past it has no value.
- **MCSkipArray**, **MCSkipArrayBuilder**, **MCNodeSizes**, **MCSkipArrayIter**, **MCNodeBuffers**, **MCLifetimes**,
  **MCBinarySearch** instantiate them for TLC. MCNodeSizes runs two instances of SkipArrayBuilder, with nodes of four and of five pairs, side by side.
- **SequenceLemmas**, **SkipListProofs**, **SkipArrayProofs**, **NodeChainProofs**, **NodeBuffersProofs**, **FoldProofs**, **BinarySearchProofs**, **LifetimesProofs** hold the proofs.

What is abstracted: a key is a natural number compared with `<` (cmp is
required to be a total order); `inst` tells apart pointers to equal keys, which matters for
`replace_key`; a value is opaque, and `use_values` off is a single value. `Pair` is the set of pairs the client uses. The
comparisons of `search` with the first and last keys of a node follow the code's. The counters of the asserts and the logging are left out.

### Definitions with a slip

An operator whose name ends in an underscore and a word is the operator of the
same name with a plausible mistake in it. No other definition uses it: each run's
property was seen to fail when the operator is replaced by it, so the property does depend on the
code it is about.

| Operator | The mistake | Property that fails |
|---|---|---|
| `Required_Above` | half of `node_size` is one more | UsedAsNodeChain (wide) |
| `SetBack_Skip` | a back pointer is not updated | BackLinksExact |
| `skiparray_bsearch_Before` | the place found is one too low | SearchExact, AgreesWithSkipList |
| `prefer_back_Always` | the place is always given as the end of the previous node | UsedAsNodeChain (narrow) |
| `raise_height_Once` | a taller node raises the height by one level only | LevelsExact |
| `fits_OneOver` | merging is allowed for one pair too many | BuiltHalfFull (wide) |
| `remove_last_Kept` | an emptied last node is not unlinked | BuiltHalfFull (narrow) |
| `Reshape_Unlocked` | the lock is not checked | LockHolds |
| `set_found_NewKey` | the key is replaced although replace_key is false | UsedAsOrderedMap |
| `advance_trail_New` | the trail only moves on levels that had a node already | TrailExact |
| `rejects_Smaller` | a builder accepts the previous key once more | AppendAtEnd |
| `new_last_Unbacked` | a builder sets no back pointer | CopyWellFormed |
| `list_prev_Skip` | `prev` of the neighbour is not updated | IterListExact |
| `LastIndex_Behind`, `LastIndex_Zero` | the last position of a node is taken as count, or 0 | IterOnPairOrEnd, RefinesCursors |
| `SeekBehind_Blind` | the next node is not compared with NULL | IterTypeOK |
| `live_count_All` | empty skiparrays count as live | TypeOK of Fold |
| `insert_place_Last` | a pending pair goes to the end of the ids | PendingExact, LeftAscends, KeepsPromise |
| `iter_step_Stay` | an iterator restarts instead of stepping | NothingLost |
| `fold_halt_Kept` | the state survives DONE | FoldEnds |
| `filter_append_Silent` | a failed append is not noted | CopyExact, NullIffOutOfMemory |
| `node_cleanup_Struct` | a node is given back without its keys | LedgerExact |
| `end_iters_Twice` | an ended iterator stays in the fold's slots | NoBadFree |
| `fold_cleanup_Kept` | a fold that cannot start leaves its iterators | LocksHeld |
| `builder_cleanup_Header` | builder_new frees the skiparray without its node | FailureLeavesNothing |
| `above_Kept`, `below_Short`, `cur_Up` | `low = cur`; `high = cur - 1`; the middle is rounded up | Halves and Returns; IndInv and Correct; InBounds |
| `Merge_Front`, `Refill_OneMore`, `MergeOrRefill_OneOver` | merged pairs go to the front; one pair too many is borrowed; as `fits_OneOver` | OnePlaceAtATime, HalfFull, TypeOK of NodeChain |
| `move_pairs_KeysOnly`, `drop_first_Drift`, `give_Tail` | only keys are moved; offset runs off the end; the giver keeps its first pairs | NoTornPair, TypeOK, RefinesNodeChain of NodeBuffers |

## Properties

- **LevelsExact**: on every level the chain from `nodes[l]` is the level-0 chain
  without the nodes that are too low; there is no level above the tallest node
  beyond the first; no node is freed and reachable, or allocated and not. This is what
  `test/test_skiparray_invariants.c` asserts of one state after each operation of a random
  sequence.
- **BackLinksExact**: `back` is the inverse of `fwd[0]`.
- **SearchExact**: for every key, bound or not, search answers the binding or a
  place at which inserting keeps the order.
- **UsedAsOrderedMap**, **RefinesCursors**: what each call does and returns is what the
  header promises, for the map alone, however it was made, and with iterators. That a set which
  runs out of memory changes no pair is not among what they show: `split_node` allocates before it changes anything, and
  the models' sets are written so. What such a call does to memory is FailureLeavesNothing's subject.
- **UsedAsNodeChain**, **RefinesNodeChain**: see above.
- **TrailExact**, **AppendAtEnd**, **BuiltHalfFull**: the trail is the last node of each level, so that nothing is linked past a node;
  a key is refused just when it is not above all keys there, whatever was refused or ran out of memory before; the packed
  nodes of a builder stay half full under the calls that follow, and emptied ones are gone from all levels.
- **HalfFull**, **OnePlaceAtATime** (NodeChain): all but the last node hold at least
  `node_size/2` pairs, and an emptied node is gone unless it is the only one; a step inserts, removes or
  replaces one pair in the list of all, however many it slides. That says nothing of where a new pair goes:
  SearchExact and UsedAsNodeChain do.
- **NoTornPair** (NodeBuffers): every key lies beside its own value, although the two arrays are moved by separate calls.
- **IterListExact**, **LockHolds**, **IterOnPairOrEnd**: the list of iterators is
  exact after freeing in any order, so that `skiparray_free`, which walks it, meets each live one
  once; nothing moves under a live iterator; an iterator is on a binding or just behind the last one, where END leaves it and
  `skiparray_iter_get` must not be called.
- **PendingExact**, **NothingLost**, **LeftAscends**, **FoldEnds**: the pending pairs are sorted and marked EQ just where two are equal; what was given of a
  skiparray, what is pending and what is left are together what it held when the fold began, although its client changes it
  from the moment it is unlocked; keys never descend to the left; a fold that goes on comes to an end.
- **KeepsPromise**: folds to the left over skiparrays without common keys, and to the right over one, give the next of
  all keys each time. The header promises that of all folds; see *Findings* for the others.
- **CopyExact**, **NullIffOutOfMemory**, **CopyWellFormed**: the copy is what the predicate kept of the source as it was at the call,
  or nothing just when memory ran out, and is a skiparray with exact levels.
- **LedgerExact**, **NoBadFree**, **LocksHeld**, **FailureLeavesNothing**: what is allocated is what the client's handles lead to, each block once;
  a locked skiparray has someone who can unlock it; a call that runs out of memory leaves blocks and locks as they were.
- **Correct**, **InBounds**, **Halves**, **Returns**: the binary search is right, reads inside the array, does not overflow,
  halves what is left, and returns.
- One type invariant per module; that of NodeBuffers includes that no write leaves an array.

## Runs and bounds

| Run | Bounds | States | What it shows |
|---|---|---|---|
| narrow | node_size 2, 3 levels, 5 keys, the middle one with 2 pointers and 2 values | 3369 | trail, levels, back pointers, search, no empty nodes, the promise: up to five nodes with every choice of heights, from a builder finished at any point |
| wide | node_size 4 and 5, 2 levels, 8 keys | 5576 | borrowing from the next node, which needs node_size >= 4, where half is exact and where it is rounded down |
| iter | node_size 2, 2 levels, 4 keys, 3 iterators | 25218 | creation and freeing in every order, seeks and steps over several nodes, the lock |
| iter_past_end | 1 iterator | violation | see *Findings* |
| chain | node_size 4, 7 pairs | 4821 | balance of up to three nodes |
| buffers | node_size 4, 6 pairs | 3880 | the arrays at every offset |
| fold | 3 keys, 2 skiparrays, 3 iterators, both directions | 135108 | order, completeness and end of folds while the client changes what is unlocked |
| fold_merged_once | 2 keys, 3 skiparrays | violation | see *Findings* |
| filter | 5 keys, node_size 2, 3 levels | 647409 | the copy, and failure at each append |
| filter_not_freed | 4 keys | violation | see *Findings* |
| lifetimes | 2 skiparrays of up to 2 nodes, 1 iterator of the client, a builder, a fold over up to 2 | 8211 | ownership, with memory running out at each allocation |
| bsearch | 7 keys, up to 6 in the node | 3058 | the search for every key in every sorted array; agreement with SkipList |

Why the bounds are enough for the cases: node_size 2 is the least `skiparray_new`
accepts, and gives the most nodes per key; three levels give a node that is taller
than the list, one that is lower, and a level between. At node_size 2 and 3 an underfull
node that does not fit with its neighbour cannot arise (required is 1, so underfull is empty), hence 4 and 5. Three
iterators give a head, a middle and an end of their list. The middle key of narrow tells apart which of
key and value a set replaces; what it does to one binding does not depend on the others. Three iterators of a fold are the fewest at which a
pending pair has neighbours on both sides and a run of equal keys has a middle; with two skiparrays one is then given
twice. KeepsPromise needs skiparrays without common keys, so in this run it is about two, and empty ones. Five keys in a filter make three nodes of the copy, so that an
append can fail and a later one succeed. In lifetimes two nodes are one that stays and one that goes; `MaxLeft`, five, is the most a call allocates
(builder_new: skiparray, three for its node, builder).

States are few because runs use a VIEW. `MCSkipArray!Shape`, part of the views of narrow, wide and iter, names nodes by their position instead
of their address, and the views drop `call` and `ret`, which no action reads; TLC still evaluates
action properties and refinements on every step it generates. `MCNodeBuffers!View` drops the
contents of cells outside the live slices, which no action reads: with NodeBuffers also
checked once without it (474,899 states), the result was the same. `MCLifetimes!View` keeps what
determines a state up to the addresses of blocks, and whether LedgerExact and LocksHeld are true, so that a state in which they are not is never taken
for one seen before. `MaxPairs`, `MaxIndex`, `MaxKey`, `MaxCount`, `MaxArrays`,
`MaxNodes`, `MaxIters` and the sets of keys, pairs and iterators are the only bounds that are not in the code.

No deadlock: some call is always possible, and every run checks for it but bsearch, which is one call and stops when it has returned.

Fairness: two places where the code itself goes on. `Fold!FairSpec` assumes WF(FoldNext): `skiparray_fold` calls `skiparray_fold_next` in a loop
until it says DONE, and so does a client of the stepwise interface that wants its skiparrays unlocked; nothing is assumed of `Change`, `Halt` and `Start`.
`BinarySearch!Spec` assumes WF(Next): a call runs until it returns. Every other call is one step, made when the client likes, and has no
liveness to claim. The loop of `search` ends, as its operator has a value for every key in every state (SearchExact).

## Proofs

TLC checks the runs' sizes. What follows is proved with TLAPS for every value of the constants: any
`node_size` from 2 on, any number of levels, any sets of keys and pairs, any number of nodes, iterators and skiparrays. The only hypotheses
are the named assumptions in the modules, each of them something the code enforces (`skiparray_new` refuses a smaller
`node_size`) or that the representation needs (a key is a number other than NULL).

**The skip list** (`SkipListProofs`, `SkipArrayProofs`)

- `AlwaysSound`: the inductive invariant `IsSound(sa)`. LevelsExact cannot be one: it speaks of what a walk along the links meets, and
  not one of the functions that patch links can be followed by walks. `Sound(sa, r)` says the same of a numbering `r` of the nodes, their order on
  level 0. On every level, NULL and each node lead to the *next* node, by `r`, of those tall enough for the level
  (`Chained`); `back` leads to the one before; the height is that of the tallest node (`Formed`). Keys ascend within and across nodes, by `r` (`Ordered`), and
  no node but a lone one is empty (`Filled`), without which `search` and the walks of a split and an unlink would read the keys of an empty node. A node that comes takes a number right behind the
  node it was split from (`RanksMakeRoom`), one that goes takes its number along, and a pointer patch is the insertion or
  removal of one element of a chain (`ChainInsert`, `ChainRemove`), on each level by itself.
- The walks. `search` is a loop with no counter: `SearchFinds` shows that each turn ends it, goes down a level or goes on
  behind `prev` (`TurnOK`), and that what it has passed is smaller than the key, so that its answer is what a look at all keys would give
  (`Answer`). `split_node` and `unlink_node` find their predecessors with keys instead of positions; `KeysTell` and `EndTells` are what
  makes that right: by the first key of the new node, or the last key of the node before the one that goes, a node can be told to be in front.
  Both loops carry the predecessor down from level to level (`NotPast`).
- `LevelsStayExact`, `BackLinksStayExact`: `ChainLists` shows that the walk `Chain` meets just the nodes of a level in the order of `r`.
- `TrailStaysExact`, `BuiltLinksStayExact`: the same for a skiparray that is made with a builder and then used. `BuiltInv` adds
  that `last` and `trail` are the greatest nodes of their levels by `r`, and that a builder that checks has the last key, so that what it accepts goes behind all keys.

**The ordered map** (`SkipArrayProofs`)

- `IsOrderedMap`, `BuiltIsOrderedMap`: the refinement of OrderedMap, the mapping being the set of pairs in the nodes (`MapOf`). What a call does to
  this set is stated once for each function, next to what it does to the links: the pair `insert_pair` puts in (`Gains`), the one `remove_at`
  takes out (`Loses`), the one `set_found` exchanges (`Swaps`), with splits, merges and refills leaving the set alone (`SameBindings`). The
  lemmas `SetOnMap` ... `LastOnMap` add what is returned, which needs that `search` is right (`FoundIs`), and that the ends of level 0 have the least and the
  greatest key (`FirstIs`, `LastIsGreatest`). That skiparray_count adds up to the number of keys is `CountOnMap`: a list without repetitions
  (`BindingsAre`) is as long as its set is large.
- `SearchStaysExact`, `BuiltSearchesExactly`: SearchExact is about the list of *all* bindings. In a sound skiparray this list ascends and has just the pairs of the nodes (`BindingsAre`). Where
  a key is missing, the pair that is put at the place answered leaves the list ascending (`InsertedSorted`), whatever node of the two beside a gap is answered.
- `AppendsAtEnd`: the builder compares with the previous key only. `AppendInv` is `BuiltInv` and that this key is bound (`PrevKept`), from which a key is above all there just
  if it is above that one. That the list gets one pair at its end and is otherwise the same follows from `SameRow`: two ascending lists with the same pairs are one list.

**Iterators as cursors** (`SkipArrayProofs`)

- `IteratorsAreCursors` == `ASSUME ~StepPastEnd PROVE IterSpec => RefinesCursors`: the refinement of OrderedMap's cursors, each iterator
  mapped to the key under it (`PosOf`) and the live ones to `open`. Places (a node and an index in it) and keys are tied together once, by `NextInNode` and
  `NextInNextNode` (no key lies between two places next to each other, the last of a node and the first of the next included), and `FirstPlace` and `LastPlace` for the ends.
  `NextCursor` and `PrevCursor` then are facts about keys: the least one above, the greatest one below. A seek to a missing key rests on what search
  answers for it (`SeekCursor`), a place that is between two keys (`GapFollows`) or at an end (`GapAtEnds`). `iter_new` and `iter_free` link and unlink an iterator and
  leave where the others are (`LinkSpots`, `UnlinkSpots`). A call of the map is the one of `IsOrderedMap` if no iterator is live, and otherwise stops at its guard (`CallsWithCursors`).
  A client that goes on after END is excluded, as for `IteratorsOnPairOrEnd`: its iterator is at no key.

**How full the nodes are** (`SkipArrayProofs`)

- `BuiltStaysHalfFull`: BuiltHalfFull is about the list of nodes on level 0. `LowIsLast` says it of the links: a node with a next one is at least half full. With `BuiltInv` this is
  inductive. By ranks (`LowByRank`) it is the same to say that of two nodes the one in front is not low, and that survives what the levels above do. `insert_pair` gives one node one
  pair more (`PairInserted`), a split halves a full one (`SplitUp`, `Halves`), a removal takes a pair from one node which only then may be low (`LowBut`), and
  `shift_or_merge` merges it with a node beside it, refills it from one, or leaves it because it is the last or not low (`Merged`, `Refilled`, `RebalancedLow`); `pop_last` needs
  none of these, since the node it takes from is the last (`TrimmedLow`). A builder begins a new node only when the one before is full (`AppendLow`).

**The balance of the chain** (`NodeChainProofs`)

- `ChainTypeCorrect`, `ChainHalfFull`. Neither invariant is inductive alone: a refill takes
  `count(next) - required` pairs, which is negative, or too many, unless the sizes
  of both nodes are known from the other. Their conjunction is, and is restated node by node
  as `InOrder`. A removal leaves a chain in order but for one node that is at most one pair short (`LowAt`, lemma
  `RemovedLowAt`), and `BalanceInOrder` goes through the branches of Balance: merging with
  the next node gives at least `2 * required - 1 >= required`; refilling happens only
  if `count(next) > node_size - count(c)`, which leaves node c one pair fewer than the next one
  had, at least half; merging back happens only to the last node. Splits:
  `SplitInOrder`. pop_last does not balance, and `PopLastKeepsOrder` shows that it need not:
  it only ever takes from the last node.
- `ChainOnePlaceAtATime`, the action property: the list of all pairs is FlattenSeq of the chain, and each call changes it
  in one place. A merge or a refill moves pairs between neighbours, which `MergeKeepsList` and `RefillKeepsList` show
  to leave the list alone; what is then left is one insertion, removal or replacement inside one node
  (`InsertInList`, `SplitInList`, `RemovedFromList`).

**The arrays of the nodes** (`NodeBuffersProofs`)

- `BuffersTypeCorrect`: no call moves cells
  outside the arrays, and `offset + count <= node_size`. It is inductive, node by node (`Fits`). Each of the branches of
  `prepare_node_for_insert` is a case of `PrepareFits`; `GiveFits` needs the giver to
  keep a pair, which follows in `RefillFits` from the two nodes not fitting in one.
- `BuffersRefineNodeChain`: NodeBuffers implements NodeChain, the refinement mapping being the live slice of each node. In three
  layers: where a move leaves each cell (`MovedCells`, `ShiftedCells`, for memcpy and for the overlapping memmove), what each
  operation on a node does to its slice (`InsertContent`, `SplitContent`, `GiveContent`, ...), and that each call is the call
  of the same name of NodeChain (`InsertStep` ... `PopLastStep`).
- `BuffersNoTornPair`: through that refinement, as every pair of the chain is one that was put in; the module
  takes the theorems of NodeChain over by instantiating `NodeChainProofs` with the slices.

**Iterators** (`SkipArrayProofs`)

- `IteratorsOnOneList`, `IteratorsLockTheMap`. The inductive invariant `ListInv` says that there is a sequence of all
  live iterators, each once, that `sa->iter`, `next` and `prev` spell out. `StrungNew` puts a new one at its front, `StrungFree` takes one
  out wherever it stands. What the calls of the map do inside is not needed: `iter` is NULL only if the list is empty, so
  with an iterator live their guard stops them.
- `IteratorsOnPairOrEnd` (behind the last pair the assertion of `skiparray_iter_get` fails; anywhere else it holds), for clients that stop at END, which `~StepPastEnd` says. The inductive invariant is `SpotInv`: each iterator is on a pair of its node, or right behind
  the last pair of the last node, and while one is live no node is empty. It rests on `ListInv`, as `IterNew` and `IterFree` change the iterators beside the one they are called for, and
  on `IsSound`, as a step goes to the next node or along `back`. `ShapeUnderIterators`: the calls of iterators leave the levels and back pointers exact.

**Folds** (`FoldProofs`)

- `FoldTypeCorrect`, `FoldPending`, `FoldLeftAscends` follow from `FoldInv`, which is inductive: between two calls the ids from
  `offset` on are the slots with a pending pair, each once, with ascending keys and with EQ on just those equal to the
  next (`Good`), and in a fold to the left nothing given is behind what is to come (`Ahead`; LeftAscends alone does not say that the *next* pair is not smaller).
  Inside `skiparray_fold_next` it holds after every turn of the loop over
  the iterators (`TurnGood`), by induction over the turns; that the ids never overflow their array is the pigeonhole argument of `RoomLeft`.
- `FoldLosesNothing`: for each slot, what was given, is pending and is left under its iterator, in a row, are the keys it began with. A turn moves one key
  from the third part to the second, a call one from the second to the first, and `Change` by the client does not reach a slot that still reads its skiparray. The rest
  of a slot is a *set* in the model; `Listing` is its order, and lemmas show that there is one and only one, and what its first element is.
- `FoldKeepsPromise`: the refinement of OrderedFold. With no key in two skiparrays the first pending key is the first of all keys
  still to come, as an iterator is ahead of its own pending pair (`Forward`) and every live slot has one; to the right, over one skiparray, there is only one slot.

**The search inside a node** (`BinarySearchProofs`)

- `SearchInvariant`, `SearchCorrect`, `SearchInBounds`, `SearchHalves`, for every set of integer keys and nodes of up to 65535 of them (node_size is a `uint16_t`).
  `Correct` is not inductive: that a miss returns the right place needs `Bracketed`, that all keys
  before `low` are smaller and all from `high` on greater, which a narrowing keeps only in a sorted array. `IndInv` is `TypeOK`, `Sorted`, `Bracketed` and `Correct` together.

**Who owns which block** (`LifetimesProofs`)

- `BlocksOwnedOnce`, `NothingFreedTwice`, `LocksHaveHolders`, for any number of skiparrays, of nodes and iterators of each, and of skiparrays in a fold, with the
  memory failing at any allocation. LedgerExact is not inductive: nothing in it keeps the client, or a fold, from
  naming an iterator that is in no list any more, which would then be freed twice. `LifetimesInv` adds that they do not (`Refs`, from which LocksHeld follows), and that finitely many addresses are
  allocated (`Types`, without which `Fresh` need not have a value).
- The ledger is restated block by block (`Ledger`), so that each call is one change of it: `LedgerPlus`, `LedgerMinus` and `LedgerReplace` for a skiparray that comes,
  goes, or gains or loses a block, `LedgerFreed` for iterators that end in several skiparrays at once.
- `FailureUndoes`, the action property, call by call: `node_alloc`, `skiparray_new` and `builder_new` give back what they got, and for `fold_multi_init` it is `FoldItersMade`, by induction over the skiparrays it is given,
  that the iterators to free on failure are just the new ones, so that removing them restores every list (`FoldUndone`).

**What they share** (`SequenceLemmas`): InsertAt, RemoveAt and ReplaceAt by their elements and by the parts they leave alone; concatenation and FlattenSeq. Two of its lemmas make the rest possible.
`LeastNatural` and `NaturalsInSet` are induction over the numbers without an operator as parameter: the claim is put into a *set* of numbers, and a set with 0 and all successors is all of them.
`RecursionExists` gives, for a step that is a function, the function it defines recursively; with it `FlattenUnfolds`, `IterListUnfolds` and the turns of a fold's loop
are equations that can be used. The models write such recursions as functions over an interval of numbers.

Only model-checked:

- the refinement of NodeChain by SkipArray (UsedAsNodeChain): NodeChain and the links are proved each by itself, that `search` and the walks act on level 0 as NodeChain does is checked;
- the filter, which rests on the builder;
- liveness (FoldEnds, Returns), which is out of the prover's reach, as is ENABLED. That a search returns follows from SearchHalves, and that a fold ends from FoldLosesNothing,
  only with fairness and a well-founded order.

## Findings

- **Stepping past the end.** `skiparray_iter_next` adds one to the index first and compares it with the count by
  `==` (`src/src/skiparray.c:762`). After it has returned END the index equals the count of the
  last node; a further call makes it larger than the count and returns OK, with no
  binding under the iterator, and `skiparray_iter_get` then fails its assertion. The header says
  "Seek to the next binding; returns END if at the last pair." `iter_prev` does keep
  answering END. Run `iter_past_end`, property `NextOkIsOnPair`. The run iter has clients that do not
  step past END without moving the iterator first.
- **Equal keys of a fold.** `insert_pair` marks a pending pair EQ if it equals the one behind it, so the last of a run is
  not marked, and `call_with_next` takes pairs while they are marked (`src/src/skiparray_fold.c:293`): the last of a run is left out of the merge and given
  by itself in the next call. The header promises one merged pair. In the trace TLC gives the key is under two iterators of one
  skiparray, given twice; two skiparrays that hold it take the same path. Run `fold_merged_once`, property `MergedOnce`; nothing is lost, though
  (`NothingLost`).
- **Freeing a filtered copy.** A filter whose append fails frees the pairs copied so far with the free callback it took from the source
  (`src/src/skiparray_hof.c:65`), although the copy is shallow and the source still holds them. Run `filter_not_freed`, property `SourceNotFreed`.

Modelling the code turned up four more places where it and the header differ. They have no run of their own, and the last is read from the code alone:

- To the right, a fold over several skiparrays does not give keys in descending order: the ids ascend whatever the direction (`PendingExact`), and the first is taken.
- The merge callback gets the pairs of equal keys with later skiparrays first, as `insert_pair` puts a pair before its equals;
  the header says in the order of the call.
- A skiparray is unlocked when its last pair has been taken off its iterator, before that pair is given
  (`src/src/skiparray_fold.c:214`); the header says all are locked while the fold is active. `Change` of Fold is enabled then, which is why NothingLost
  compares with `begun`.
- `SKIPARRAY_MAX_MAX_LEVEL` is documented as a maximum and not enforced by `skiparray_new`.

## Not modelled

- The random generator behind the default level callback: 64-bit hashing is beyond TLC's integers, and the structure must be right for any heights; the models let a new node have any height the callback may choose.
- The 16-bit wrap of an iterator's index after 65536 steps past the end, and heights above 128, where
  `int8_t` in `pop_last` is negative: both need counts that no run can reach. They are listed as hazards without a property, and the theorems,
  whose heights and indices are natural numbers, do not speak of them either.
- Of the arguments of `skiparray_fold_multi_init`, NULL ones and skiparrays that differ in cmp, mem or free
  (`src/src/skiparray_fold.c:52`, 63 to 66): those checks come before anything is allocated and answer MISUSE. `FoldMayStart` of
  Lifetimes has the two others, a missing merge callback and values in some skiparrays only.
- Assertions and logging; `src/src/bench.c`; the tests; the vendored test framework.
- Concurrent use from several threads, which the library does not offer.
