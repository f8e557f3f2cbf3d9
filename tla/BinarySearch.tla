---------------------------- MODULE BinarySearch ----------------------------
(***************************************************************************)
(* skiparray_bsearch of src/skiparray.c, one step per turn of its loop:    *)
(* the index in the keys of a node at which a key is, or belongs.  The     *)
(* array has the indices 0 .. Len(keys) - 1 of the code.                   *)
(***************************************************************************)
EXTENDS Integers, Sequences

CONSTANTS Keys,     \* keys, ordered as integers by cmp
          MaxCount  \* bound on key_count: the largest node_size

UINT16_MAX == 65535

INT_MAX == 2147483647

\* node_size is a uint16_t.
ASSUME BinarySearchAssumption ==
  /\ Keys \subseteq Int
  /\ MaxCount \in Nat /\ 1 <= MaxCount /\ MaxCount <= UINT16_MAX

VARIABLES keys, key,   \* the arguments
          low, high,
          found,       \* the value returned
          index,       \* *index
          done         \* has the call returned?

vars == <<keys, key, low, high, found, index, done>>

args == <<keys, key>>

Sorted(s) == \A i, j \in 1 .. Len(s) : i < j => s[i] < s[j]

Init ==
  /\ \E n \in 1 .. MaxCount : keys \in {s \in [1 .. n -> Keys] : Sorted(s)}
  /\ key \in Keys
  /\ low = 0
  /\ high = Len(keys)
  /\ found = FALSE
  /\ index = 0
  /\ done = FALSE

cur_Up == (low + high + 1) \div 2

\* The middle of what is left.
cur == (low + high) \div 2

above_Kept == low' = cur /\ UNCHANGED high

\* What to look at next when the key is after keys[cur].
above == low' = cur + 1 /\ UNCHANGED high

below_Short == high' = cur - 1 /\ UNCHANGED low

\* ... and when it is before keys[cur].
below == high' = cur /\ UNCHANGED low

Narrow ==
  /\ ~done /\ low < high
  /\ \/ key < keys[cur + 1] /\ below
     \/ key > keys[cur + 1] /\ above
  /\ UNCHANGED <<args, found, index, done>>

Return(res, at) ==
  /\ found' = res
  /\ index' = at
  /\ done' = TRUE
  /\ UNCHANGED <<args, low, high>>

Hit == ~done /\ low < high /\ key = keys[cur + 1] /\ Return(TRUE, cur)

Miss == ~done /\ low >= high /\ Return(FALSE, low)

Next == Narrow \/ Hit \/ Miss

\* The call runs until it returns.
Spec == Init /\ [][Next]_vars /\ WF_vars(Next)

-----------------------------------------------------------------------------
(* Properties. *)

\* keys[cur] is read inside the array, whatever the parity of the bounds, and
\* neither the int low + high nor the uint16_t *index can overflow.
InBounds ==
  /\ low < high => cur \in 0 .. Len(keys) - 1
  /\ low + high <= INT_MAX
  /\ 0 <= index /\ index <= UINT16_MAX

\* A key that is there is found at its index; for another one the index is the
\* place where it belongs: all keys before it are smaller, all others greater.
Correct ==
  done => IF found
          THEN index \in 0 .. Len(keys) - 1 /\ keys[index + 1] = key
          ELSE /\ index \in 0 .. Len(keys)
               /\ \A i \in 1 .. Len(keys) :
                    IF i <= index THEN keys[i] < key ELSE keys[i] > key

\* Each comparison that does not end the search halves what is left to look at,
\* so that their number is logarithmic in the size of the node.
Halves == [][~done' => 2 * (high' - low') <= high - low]_vars

\* The search returns.
Returns == <>done

-----------------------------------------------------------------------------

\* The inductive invariant: the place of the key is in low .. high, as long as
\* the search goes on.
Bracketed ==
  /\ \A i \in 1 .. low : keys[i] < key
  /\ \A i \in high + 1 .. Len(keys) : keys[i] > key

TypeOK ==
  /\ keys \in Seq(Int) /\ Len(keys) \in 1 .. MaxCount
  /\ key \in Int
  /\ low \in Nat /\ high \in Nat
  /\ low <= high /\ high <= Len(keys)
  /\ found \in BOOLEAN /\ done \in BOOLEAN
  /\ index \in 0 .. Len(keys)

IndInv == TypeOK /\ Sorted(keys) /\ Bracketed /\ Correct

=============================================================================
