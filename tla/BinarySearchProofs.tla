------------------------- MODULE BinarySearchProofs -------------------------
(***************************************************************************)
(* Proofs about BinarySearch, for every set of keys and every node size    *)
(* that a uint16_t holds.  IndInv is inductive: TypeOK keeps the bounds    *)
(* inside the array, and Bracketed says that what has been ruled out so    *)
(* far was ruled out rightly, which is what makes a miss correct.          *)
(***************************************************************************)
EXTENDS BinarySearch, SequenceTheorems, TLAPS

\* The middle of a range that is not empty lies in it, and each half is at
\* most half as long.
LEMMA MiddleInside ==
  ASSUME NEW l \in Nat, NEW h \in Nat, l < h
  PROVE  LET c == (l + h) \div 2
         IN  /\ c \in Nat /\ l <= c /\ c < h
             /\ 2 * (c - l) <= h - l
             /\ 2 * (h - (c + 1)) <= h - l
  BY Z3

\* What is before a key in sorted keys is smaller, what is behind it greater.
LEMMA SortedSides ==
  ASSUME NEW s \in Seq(Int), Sorted(s), NEW c \in 1 .. Len(s)
  PROVE  /\ \A i \in 1 .. c - 1 : s[i] < s[c]
         /\ \A i \in c + 1 .. Len(s) : s[c] < s[i]
  BY DEF Sorted

\* Init establishes the invariant.
LEMMA InitIndInv == Init => IndInv
  <1> SUFFICES ASSUME Init PROVE IndInv
    OBVIOUS
  <1>1. PICK n \in 1 .. MaxCount : keys \in [1 .. n -> Keys] /\ Sorted(keys)
    BY DEF Init
  <1>2. keys \in Seq(Int) /\ Len(keys) = n
    <2>1. keys \in [1 .. n -> Int]
      <3>1. Keys \subseteq Int
        BY BinarySearchAssumption
      <3> QED
        BY <1>1, <3>1, Zenon
    <2>2. keys \in Seq(Int)
      BY <2>1, BinarySearchAssumption, SeqDef
    <2> QED
      BY <2>1, <2>2, BinarySearchAssumption
  <1>3. TypeOK
    <2>1. found \in BOOLEAN /\ done \in BOOLEAN
      BY Zenon DEF Init
    <2>2. low = 0 /\ high = Len(keys) /\ index = 0 /\ key \in Int
      BY BinarySearchAssumption DEF Init
    <2> QED
      BY <1>2, <2>1, <2>2, BinarySearchAssumption DEF TypeOK
  <1>4. Bracketed
    BY <1>2 DEF Init, Bracketed
  <1>5. Correct
    BY DEF Init, Correct
  <1> QED
    BY <1>1, <1>3, <1>4, <1>5 DEF IndInv

\* The key is before keys[cur]: everything from cur on is ruled out.
LEMMA BelowIndInv ==
  ASSUME IndInv, Narrow, key < keys[cur + 1], below
  PROVE  IndInv'
  <1>1. /\ low < high /\ ~done /\ high' = cur
        /\ UNCHANGED <<keys, key, low, found, index, done>>
    BY DEF Narrow, below, args
  <1>2. /\ keys \in Seq(Int) /\ key \in Int /\ Sorted(keys)
        /\ low \in Nat /\ high \in Nat /\ high <= Len(keys)
    BY DEF IndInv, TypeOK
  <1>3. cur \in Nat /\ low <= cur /\ cur < high
    BY <1>1, <1>2, MiddleInside DEF cur
  <1>4. TypeOK'
    BY <1>1, <1>2, <1>3 DEF IndInv, TypeOK
  <1>5. \A i \in cur + 1 .. Len(keys) : keys[i] > key
    <2> DEFINE at == cur + 1
    <2>1. at \in 1 .. Len(keys)
      BY <1>2, <1>3
    <2>2. \A i \in at + 1 .. Len(keys) : keys[at] < keys[i]
      BY <1>2, <2>1, SortedSides
    <2>3. keys[at] \in Int /\ key < keys[at]
      BY <1>2, <2>1
    <2> HIDE DEF at
    <2>4. \A i \in at .. Len(keys) : keys[i] > key
      BY <1>2, <2>1, <2>2, <2>3
    <2> QED
      BY <2>4 DEF at
  <1>6. Bracketed'
    BY <1>1, <1>5 DEF IndInv, Bracketed
  <1>7. Correct'
    BY <1>1 DEF Correct
  <1> QED
    BY <1>1, <1>2, <1>4, <1>6, <1>7 DEF IndInv, Sorted

\* The key is after keys[cur]: everything up to cur is ruled out.
LEMMA AboveIndInv ==
  ASSUME IndInv, Narrow, key > keys[cur + 1], above
  PROVE  IndInv'
  <1>1. /\ low < high /\ ~done /\ low' = cur + 1
        /\ UNCHANGED <<keys, key, high, found, index, done>>
    BY DEF Narrow, above, args
  <1>2. /\ keys \in Seq(Int) /\ key \in Int /\ Sorted(keys)
        /\ low \in Nat /\ high \in Nat /\ high <= Len(keys)
    BY DEF IndInv, TypeOK
  <1>3. cur \in Nat /\ low <= cur /\ cur < high
    BY <1>1, <1>2, MiddleInside DEF cur
  <1>4. TypeOK'
    BY <1>1, <1>2, <1>3 DEF IndInv, TypeOK
  <1>5. \A i \in 1 .. cur + 1 : keys[i] < key
    <2> DEFINE at == cur + 1
    <2>1. at \in 1 .. Len(keys)
      BY <1>2, <1>3
    <2>2. \A i \in 1 .. at - 1 : keys[i] < keys[at]
      BY <1>2, <2>1, SortedSides
    <2>3. keys[at] \in Int /\ keys[at] < key
      BY <1>2, <2>1
    <2> HIDE DEF at
    <2>4. \A i \in 1 .. at : keys[i] < key
      BY <1>2, <2>1, <2>2, <2>3
    <2> QED
      BY <2>4 DEF at
  <1>6. Bracketed'
    BY <1>1, <1>5 DEF IndInv, Bracketed
  <1>7. Correct'
    BY <1>1 DEF Correct
  <1> QED
    BY <1>1, <1>2, <1>4, <1>6, <1>7 DEF IndInv, Sorted

\* A hit returns the index of the key.
LEMMA HitIndInv == IndInv /\ Hit => IndInv'
  <1> SUFFICES ASSUME IndInv, Hit PROVE IndInv'
    OBVIOUS
  <1>1. /\ low < high /\ key = keys[cur + 1]
        /\ found' = TRUE /\ index' = cur /\ done' = TRUE
        /\ UNCHANGED <<keys, key, low, high>>
    BY DEF Hit, Return, args
  <1>2. low \in Nat /\ high \in Nat /\ high <= Len(keys) /\ keys \in Seq(Int)
    BY DEF IndInv, TypeOK
  <1>3. cur \in Nat /\ cur < high
    BY <1>1, <1>2, MiddleInside DEF cur
  <1>4. TypeOK'
    BY <1>1, <1>2, <1>3 DEF IndInv, TypeOK
  <1>5. Correct'
    BY <1>1, <1>2, <1>3 DEF Correct
  <1>6. Bracketed' /\ Sorted(keys)'
    BY <1>1 DEF IndInv, Bracketed, Sorted
  <1> QED
    BY <1>4, <1>5, <1>6 DEF IndInv

\* A miss returns the one index that is left, where Bracketed says it belongs.
LEMMA MissIndInv == IndInv /\ Miss => IndInv'
  <1> SUFFICES ASSUME IndInv, Miss PROVE IndInv'
    OBVIOUS
  <1>1. /\ low >= high
        /\ found' = FALSE /\ index' = low /\ done' = TRUE
        /\ UNCHANGED <<keys, key, low, high>>
    BY DEF Miss, Return, args
  <1>2. low \in Nat /\ high \in Nat /\ low <= high /\ high <= Len(keys)
    BY DEF IndInv, TypeOK
  <1>3. TypeOK'
    <2>1. found' \in BOOLEAN /\ done' \in BOOLEAN
      BY <1>1, Zenon
    <2>2. index' \in 0 .. Len(keys)
      BY <1>1, <1>2
    <2> QED
      BY <1>1, <2>1, <2>2 DEF IndInv, TypeOK
  <1>4. low = high
    BY <1>1, <1>2
  <1>5. \A i \in 1 .. Len(keys) : IF i <= low THEN keys[i] < key ELSE keys[i] > key
    <2> SUFFICES ASSUME NEW i \in 1 .. Len(keys)
                 PROVE  IF i <= low THEN keys[i] < key ELSE keys[i] > key
      OBVIOUS
    <2>1. CASE i <= low
      <3>1. i \in 1 .. low
        BY <1>2, <2>1
      <3> QED
        BY <2>1, <3>1 DEF IndInv, Bracketed
    <2>2. CASE ~(i <= low)
      <3>1. i \in high + 1 .. Len(keys)
        BY <1>2, <1>4, <2>2
      <3> QED
        BY <2>2, <3>1 DEF IndInv, Bracketed
    <2> QED
      BY <2>1, <2>2
  <1>6. Correct'
    BY <1>1, <1>2, <1>5 DEF Correct
  <1>7. Bracketed' /\ Sorted(keys)'
    BY <1>1 DEF IndInv, Bracketed, Sorted
  <1> QED
    BY <1>3, <1>6, <1>7 DEF IndInv

\* Every step keeps the invariant.
LEMMA NextIndInv == IndInv /\ [Next]_vars => IndInv'
  <1> SUFFICES ASSUME IndInv, [Next]_vars PROVE IndInv'
    OBVIOUS
  <1>1. CASE Narrow
    <2>1. \/ key < keys[cur + 1] /\ below
          \/ key > keys[cur + 1] /\ above
      BY <1>1 DEF Narrow
    <2> QED
      BY <1>1, <2>1, BelowIndInv, AboveIndInv
  <1>2. CASE Hit
    BY <1>2, HitIndInv
  <1>3. CASE Miss
    BY <1>3, MissIndInv
  <1>4. CASE UNCHANGED vars
    BY <1>4 DEF IndInv, TypeOK, Sorted, Bracketed, Correct, vars
  <1> QED
    BY <1>1, <1>2, <1>3, <1>4 DEF Next

\* The bounds bracket the place of the key throughout.
THEOREM SearchInvariant == Spec => []IndInv
  BY InitIndInv, NextIndInv, PTL DEF Spec

\* skiparray_bsearch finds a key that is there, and else the place where it
\* belongs, in the keys of a node of any size.
THEOREM SearchCorrect == Spec => []Correct
  <1>1. IndInv => Correct
    BY DEF IndInv
  <1> QED
    BY <1>1, SearchInvariant, PTL

\* It reads the array only inside its bounds, and no int or uint16_t overflows.
THEOREM SearchInBounds == Spec => []InBounds
  <1>1. IndInv => InBounds
    <2> SUFFICES ASSUME IndInv PROVE InBounds
      OBVIOUS
    <2>1. /\ low \in Nat /\ high \in Nat /\ low <= high /\ high <= Len(keys)
          /\ Len(keys) \in 1 .. MaxCount /\ index \in 0 .. Len(keys)
      BY DEF IndInv, TypeOK
    <2>2. low < high => cur \in 0 .. Len(keys) - 1
      BY <2>1, MiddleInside DEF cur
    <2>3. MaxCount \in Nat /\ MaxCount <= UINT16_MAX
      BY BinarySearchAssumption
    <2>4. UINT16_MAX \in Nat /\ INT_MAX \in Nat /\ 2 * UINT16_MAX <= INT_MAX
      BY SMT DEF UINT16_MAX, INT_MAX
    <2>5. low + high <= INT_MAX /\ 0 <= index /\ index <= UINT16_MAX
      <3> DEFINE n == Len(keys)
      <3>1. /\ low <= n /\ high <= n /\ n \in Nat /\ n <= MaxCount
            /\ index \in Nat /\ index <= n
        BY <2>1
      <3> HIDE DEF n
      <3> QED
        BY <2>1, <2>3, <2>4, <3>1
    <2> QED
      BY <2>2, <2>5 DEF InBounds
  <1> QED
    BY <1>1, SearchInvariant, PTL

\* Every comparison that does not end the search halves what is left.
THEOREM SearchHalves == Spec => Halves
  <1>1. IndInv /\ [Next]_vars => [~done' => 2 * (high' - low') <= high - low]_vars
    <2> SUFFICES ASSUME IndInv, Next, ~done'
                 PROVE  2 * (high' - low') <= high - low
      BY DEF Next
    <2>1. low \in Nat /\ high \in Nat
      BY DEF IndInv, TypeOK
    <2>2. Narrow
      BY DEF Next, Hit, Miss, Return
    <2>3. low < high
      BY <2>2 DEF Narrow
    <2>4. /\ cur \in Nat
          /\ 2 * (cur - low) <= high - low
          /\ 2 * (high - (cur + 1)) <= high - low
      BY <2>1, <2>3, MiddleInside DEF cur
    <2>5. CASE below
      BY <2>4, <2>5 DEF below
    <2>6. CASE above
      BY <2>4, <2>6 DEF above
    <2> QED
      BY <2>2, <2>5, <2>6 DEF Narrow
  <1> QED
    BY <1>1, SearchInvariant, PTL DEF Spec, Halves

=============================================================================
