--------------------------- MODULE SequenceLemmas ---------------------------
(***************************************************************************)
(* What the proofs of the other modules share.  Induction over the numbers *)
(* and the recursive functions it defines; what FlattenSeq, which is one,  *)
(* makes of a chain; what insertion, removal and replacement return, by    *)
(* their elements and by the parts of the sequence that they leave alone.  *)
(***************************************************************************)
EXTENDS Integers, Sequences, SequencesExt, SequenceTheorems,
        WellFoundedInduction, TLAPS

-----------------------------------------------------------------------------
(* Induction.  The induction theorems of the library have an operator as  *)
(* parameter; that every set of numbers has a least one needs none.        *)

\* Every set of natural numbers that is not empty has a least one.
LEMMA LeastNatural ==
  ASSUME NEW T \in SUBSET Nat, T # {}
  PROVE  \E n \in T : \A m \in T : n <= m
<1> DEFINE R == OpToRel(<, Nat)
<1>1. IsWellFoundedOn(R, Nat)
  BY NatLessThanWellFounded
<1>2. \A x, y \in Nat : x < y => <<x, y>> \in R
  BY DEF OpToRel
<1> HIDE DEF R
<1>3. PICK n \in T : \A m \in T : <<m, n>> \notin R
  BY <1>1, WFMin
<1>4. ASSUME NEW m \in T
      PROVE  n <= m
  <2>1. m \in Nat /\ n \in Nat /\ ~(m < n)
    BY <1>2, <1>3
  <2> QED BY <2>1
<1> QED BY <1>4

\* Induction, over membership of a set.
LEMMA NaturalsInSet ==
  ASSUME NEW T, 0 \in T, \A n \in Nat : n \in T => n + 1 \in T
  PROVE  Nat \subseteq T
<1>1. SUFFICES ASSUME Nat \ T # {}
               PROVE  FALSE
  OBVIOUS
<1>2. PICK n \in Nat \ T : \A m \in Nat \ T : n <= m
  BY <1>1, LeastNatural
<1>3. n - 1 \in Nat /\ n - 1 \in T
  BY <1>2
<1> QED BY <1>2, <1>3

\* g follows the recursion from base by step, up to m.
Recurs(g, m, base, step) ==
  /\ g[0] = base
  /\ \A i \in 0 .. m - 1 : g[i + 1] = step[<<i, g[i]>>]

\* There is only one way to follow it,
LEMMA RecursionUnique ==
  ASSUME NEW base, NEW step, NEW m \in Nat, NEW g, NEW h,
         Recurs(g, m, base, step), Recurs(h, m, base, step)
  PROVE  \A i \in 0 .. m : g[i] = h[i]
<1> DEFINE T == {i \in Nat : i <= m => g[i] = h[i]}
<1>1. 0 \in T
  BY DEF Recurs
<1>2. ASSUME NEW n \in Nat, n \in T
      PROVE  n + 1 \in T
  <2>1. SUFFICES ASSUME n + 1 <= m
                 PROVE  g[n + 1] = h[n + 1]
    OBVIOUS
  <2>2. n \in 0 .. m - 1 /\ g[n] = h[n]
    BY <1>2, <2>1
  <2>3. g[n + 1] = step[<<n, g[n]>>] /\ h[n + 1] = step[<<n, h[n]>>]
    BY <2>2 DEF Recurs
  <2> QED BY <2>2, <2>3
<1>3. Nat \subseteq T
  <2> HIDE DEF T
  <2> QED BY <1>1, <1>2, NaturalsInSet
<1> QED BY <1>3

\* and there is one, for every function step.
LEMMA RecursionExists ==
  ASSUME NEW S, NEW base \in S, NEW step \in [Nat \X S -> S]
  PROVE  \E f \in [Nat -> S] : \A m \in Nat : Recurs(f, m, base, step)
<1> DEFINE Part(n) == {g \in [0 .. n -> S] : Recurs(g, n, base, step)}
           T == {n \in Nat : Part(n) # {}}
<1>1. 0 \in T
  <2>1. [i \in 0 .. 0 |-> base] \in Part(0)
    BY DEF Recurs
  <2> QED BY <2>1
<1>2. ASSUME NEW n \in Nat, n \in T
      PROVE  n + 1 \in T
  <2>1. PICK g \in [0 .. n -> S] : Recurs(g, n, base, step)
    BY <1>2
  <2> DEFINE h == [i \in 0 .. n + 1 |-> IF i <= n THEN g[i] ELSE step[<<n, g[n]>>]]
  <2>2. h \in [0 .. n + 1 -> S]
    BY <2>1
  <2>3. Recurs(h, n + 1, base, step)
    <3>1. h[0] = base
      BY <2>1 DEF Recurs
    <3>2. ASSUME NEW i \in 0 .. (n + 1) - 1
          PROVE  h[i + 1] = step[<<i, h[i]>>]
      <4>1. CASE i = n
        BY <4>1
      <4>2. CASE i # n
        <5>1. i \in 0 .. n - 1 /\ h[i] = g[i] /\ h[i + 1] = g[i + 1]
          BY <4>2
        <5> QED BY <2>1, <5>1 DEF Recurs
      <4> QED BY <4>1, <4>2
    <3> QED BY <3>1, <3>2 DEF Recurs
  <2>4. h \in Part(n + 1)
    BY <2>2, <2>3
  <2> QED BY <2>4
<1>3. \A n \in Nat : Part(n) # {}
  <2>1. Nat \subseteq T
    <3> HIDE DEF T
    <3> QED BY <1>1, <1>2, NaturalsInSet
  <2> QED BY <2>1
<1> DEFINE part == [n \in Nat |-> CHOOSE g \in Part(n) : TRUE]
           f == [n \in Nat |-> part[n][n]]
<1>4. \A n \in Nat : part[n] \in [0 .. n -> S] /\ Recurs(part[n], n, base, step)
  <2>1. \A n \in Nat : part[n] \in Part(n)
    BY <1>3
  <2> QED BY <2>1
<1> HIDE DEF part
<1>5. f \in [Nat -> S]
  BY <1>4
<1>6. ASSUME NEW m \in Nat, NEW n \in 0 .. m
      PROVE  part[m][n] = f[n]
  <2>1. Recurs(part[m], n, base, step) /\ Recurs(part[n], n, base, step)
    BY <1>4 DEF Recurs
  <2>2. n \in Nat /\ n \in 0 .. n
    OBVIOUS
  <2>3. \A g, h : Recurs(g, n, base, step) /\ Recurs(h, n, base, step)
                   => \A i \in 0 .. n : g[i] = h[i]
    BY <2>2, RecursionUnique
  <2> QED BY <2>1, <2>2, <2>3
<1>7. ASSUME NEW m \in Nat
      PROVE  Recurs(f, m, base, step)
  <2>1. Recurs(part[m], m, base, step) /\ \A n \in 0 .. m : part[m][n] = f[n]
    BY <1>4, <1>6
  <2> HIDE DEF f
  <2>2. 0 \in 0 .. m /\ \A i \in 0 .. m - 1 : i \in 0 .. m /\ i + 1 \in 0 .. m
    OBVIOUS
  <2> QED BY <2>1, <2>2 DEF Recurs
<1> QED BY <1>5, <1>7

-----------------------------------------------------------------------------
(* The concatenation of the nodes of a chain. *)

\* fl[i] is the concatenation of the first i elements of s.
Flattens(fl, s) ==
  /\ fl[1] = s[1]
  /\ \A i \in 2 .. Len(s) : fl[i] = fl[i - 1] \o s[i]

\* The recursive function in FlattenSeq is what its equation says.
LEMMA FlattenUnfolds ==
  ASSUME NEW S, NEW s \in Seq(Seq(S)), s # << >>
  PROVE  \E fl \in [1 .. Len(s) -> Seq(S)] :
           Flattens(fl, s) /\ FlattenSeq(s) = fl[Len(s)]
<1> DEFINE Is(fl) == fl = [i \in 1 .. Len(s) |-> IF i = 1 THEN s[i] ELSE fl[i - 1] \o s[i]]
<1>1. Len(s) \in Nat /\ Len(s) >= 1
  BY EmptySeq, LenProperties
<1>2. \A i \in 1 .. Len(s) : s[i] \in Seq(S)
  BY ElementOfSeq
<1>3. \E fl : Is(fl)
  <2> DEFINE step == [p \in Nat \X Seq(S) |->
                        IF p[1] + 2 <= Len(s) THEN p[2] \o s[p[1] + 2] ELSE p[2]]
  <2>1. step \in [Nat \X Seq(S) -> Seq(S)]
    <3>1. ASSUME NEW p \in Nat \X Seq(S)
          PROVE  (IF p[1] + 2 <= Len(s) THEN p[2] \o s[p[1] + 2] ELSE p[2]) \in Seq(S)
      <4>1. CASE p[1] + 2 <= Len(s)
        <5>1. p[2] \in Seq(S) /\ s[p[1] + 2] \in Seq(S)
          BY <1>2, <4>1
        <5> QED BY <4>1, <5>1, ConcatProperties
      <4> QED BY <4>1
    <3> QED BY <3>1
  <2>2. s[1] \in Seq(S)
    BY <1>1, <1>2
  <2> HIDE DEF step
  <2>3. PICK f \in [Nat -> Seq(S)] : \A m \in Nat : Recurs(f, m, s[1], step)
    BY <2>1, <2>2, RecursionExists
  <2> DEFINE fl == [i \in 1 .. Len(s) |-> f[i - 1]]
  <2>4. ASSUME NEW i \in 1 .. Len(s)
        PROVE  f[i - 1] = IF i = 1 THEN s[i] ELSE fl[i - 1] \o s[i]
    <3>1. CASE i = 1
      <4>1. Recurs(f, 0, s[1], step)
        BY <2>3
      <4> QED BY <3>1, <4>1 DEF Recurs
    <3>2. CASE i # 1
      <4>1. /\ i - 2 \in Nat /\ i - 1 \in Nat
            /\ i - 2 \in 0 .. (i - 1) - 1 /\ i - 1 \in 1 .. Len(s)
        BY <1>1, <3>2
      <4>2. f[i - 1] = step[<<i - 2, f[i - 2]>>]
        <5>1. f[(i - 2) + 1] = step[<<i - 2, f[i - 2]>>]
          BY <2>3, <4>1 DEF Recurs
        <5>2. (i - 2) + 1 = i - 1
          BY <1>1
        <5> QED BY <5>1, <5>2
      <4>3. fl[i - 1] = f[i - 2] /\ f[i - 2] \in Seq(S)
        BY <4>1, <2>3
      <4>4. step[<<i - 2, f[i - 2]>>] = f[i - 2] \o s[i]
        <5>1. (i - 2) + 2 = i /\ i <= Len(s)
          BY <1>1
        <5>2. <<i - 2, f[i - 2]>> \in Nat \X Seq(S)
          BY <4>1, <4>3
        <5> QED BY <5>1, <5>2 DEF step
      <4> QED BY <3>2, <4>2, <4>3, <4>4
    <3> QED BY <3>1, <3>2
  <2>5. Is(fl)
    BY <2>4
  <2> QED BY <2>5
<1> DEFINE fl == CHOOSE fl : Is(fl)
<1>4. Is(fl)
  BY <1>3
<1>5. FlattenSeq(s) = fl[Len(s)]
  BY <1>1 DEF FlattenSeq
<1> HIDE DEF fl
<1>6. Flattens(fl, s)
  <2>1. \A i \in 1 .. Len(s) : fl[i] = IF i = 1 THEN s[i] ELSE fl[i - 1] \o s[i]
    BY <1>4, Zenon
  <2>2. 1 \in 1 .. Len(s) /\ \A i \in 2 .. Len(s) : i \in 1 .. Len(s) /\ i # 1
    BY <1>1
  <2> QED BY <2>1, <2>2 DEF Flattens
<1>7. fl \in [1 .. Len(s) -> Seq(S)]
  <2> DEFINE T == {n \in Nat : n + 1 <= Len(s) => fl[n + 1] \in Seq(S)}
  <2>1. 0 \in T
    <3>1. 1 \in 1 .. Len(s)
      BY <1>1
    <3>2. fl[1] = s[1]
      BY <1>4, <3>1
    <3> QED BY <1>2, <3>1, <3>2
  <2>2. ASSUME NEW n \in Nat, n \in T
        PROVE  n + 1 \in T
    <3>1. SUFFICES ASSUME n + 2 <= Len(s)
                   PROVE  fl[n + 2] \in Seq(S)
      OBVIOUS
    <3>2. fl[n + 1] \in Seq(S) /\ s[n + 2] \in Seq(S) /\ n + 2 \in 2 .. Len(s)
      BY <1>1, <1>2, <2>2, <3>1
    <3>3. fl[n + 2] = fl[n + 1] \o s[n + 2]
      <4>1. (n + 2) - 1 = n + 1
        OBVIOUS
      <4> QED BY <1>6, <3>2, <4>1 DEF Flattens
    <3> QED BY <3>2, <3>3, ConcatProperties
  <2>3. Nat \subseteq T
    <3> HIDE DEF T
    <3> QED BY <2>1, <2>2, NaturalsInSet
  <2>4. ASSUME NEW i \in 1 .. Len(s) PROVE fl[i] \in Seq(S)
    <3>1. i - 1 \in Nat /\ (i - 1) + 1 = i /\ i <= Len(s)
      BY <1>1
    <3>2. i - 1 \in T
      <4> HIDE DEF T
      <4> QED BY <2>3, <3>1
    <3> QED BY <3>1, <3>2
  <2> QED BY <1>4, <2>4
<1> QED BY <1>5, <1>6, <1>7

\* Flattening nothing gives nothing,
LEMMA FlattenEmpty == FlattenSeq(<< >>) = << >>
BY DEF FlattenSeq

\* and nodes of pairs give a sequence of pairs.
LEMMA FlattenType ==
  ASSUME NEW S, NEW s \in Seq(Seq(S))
  PROVE  FlattenSeq(s) \in Seq(S)
<1>1. CASE s = << >>
  BY <1>1, FlattenEmpty, EmptySeq
<1>2. CASE s # << >>
  <2>1. Len(s) \in 1 .. Len(s)
    BY <1>2, EmptySeq
  <2>2. PICK fl \in [1 .. Len(s) -> Seq(S)] : FlattenSeq(s) = fl[Len(s)]
    BY <1>2, FlattenUnfolds
  <2> QED BY <2>1, <2>2
<1> QED BY <1>1, <1>2

\* A node at the end has its pairs at the end,
LEMMA FlattenAppend ==
  ASSUME NEW S, NEW s \in Seq(Seq(S)), NEW e \in Seq(S)
  PROVE  FlattenSeq(Append(s, e)) = FlattenSeq(s) \o e
<1> DEFINE t == Append(s, e)
<1>1. /\ Len(s) \in Nat
      /\ t \in Seq(Seq(S)) /\ t # << >> /\ Len(t) = Len(s) + 1
      /\ \A i \in 1 .. Len(s) : t[i] = s[i]
      /\ t[Len(s) + 1] = e
  BY AppendProperties, LenProperties
<1> HIDE DEF t
<1>2. PICK gl \in [1 .. Len(t) -> Seq(S)] : Flattens(gl, t) /\ FlattenSeq(t) = gl[Len(t)]
  BY <1>1, FlattenUnfolds
<1>3. CASE s = << >>
  <2>1. Len(s) = 0 /\ Len(t) = 1 /\ t[1] = e /\ FlattenSeq(s) = << >>
    BY <1>1, <1>3, FlattenEmpty
  <2>2. FlattenSeq(t) = e
    BY <1>2, <2>1 DEF Flattens
  <2>3. << >> \o e = e
    BY ConcatEmptySeq
  <2> QED BY <2>1, <2>2, <2>3 DEF t
<1>4. CASE s # << >>
  <2>1. PICK fl \in [1 .. Len(s) -> Seq(S)] : Flattens(fl, s) /\ FlattenSeq(s) = fl[Len(s)]
    BY <1>4, FlattenUnfolds
  <2>2. Len(s) >= 1
    BY <1>4, EmptySeq
  <2> DEFINE T == {n \in Nat : n + 1 <= Len(s) => gl[n + 1] = fl[n + 1]}
  <2>3. 0 \in T
    <3>1. gl[1] = t[1] /\ fl[1] = s[1] /\ t[1] = s[1]
      BY <1>1, <1>2, <2>1, <2>2 DEF Flattens
    <3> QED BY <3>1
  <2>4. ASSUME NEW n \in Nat, n \in T
        PROVE  n + 1 \in T
    <3>1. SUFFICES ASSUME (n + 1) + 1 <= Len(s)
                   PROVE  gl[(n + 1) + 1] = fl[(n + 1) + 1]
      OBVIOUS
    <3> DEFINE i == (n + 1) + 1
    <3>2. i \in 2 .. Len(s) /\ i \in 2 .. Len(t) /\ i \in 1 .. Len(s) /\ i - 1 = n + 1
      BY <1>1, <3>1
    <3>3. gl[i - 1] = fl[i - 1]
      BY <2>4, <3>1, <3>2
    <3> HIDE DEF i
    <3>4. gl[i] = gl[i - 1] \o t[i] /\ fl[i] = fl[i - 1] \o s[i] /\ t[i] = s[i]
      BY <1>1, <1>2, <2>1, <3>2 DEF Flattens
    <3>5. gl[i] = fl[i]
      BY <3>3, <3>4
    <3> QED BY <3>5 DEF i
  <2>5. Nat \subseteq T
    <3> HIDE DEF T
    <3> QED BY <2>3, <2>4, NaturalsInSet
  <2>6. gl[Len(s)] = fl[Len(s)]
    <3>1. Len(s) - 1 \in Nat /\ (Len(s) - 1) + 1 = Len(s)
      BY <1>1, <2>2
    <3>2. Len(s) - 1 \in T
      <4> HIDE DEF T
      <4> QED BY <2>5, <3>1
    <3> QED BY <1>1, <3>1, <3>2
  <2>7. gl[Len(t)] = gl[Len(t) - 1] \o t[Len(t)]
    <3>1. Len(t) \in 2 .. Len(t)
      BY <1>1, <2>2
    <3> QED BY <1>2, <3>1 DEF Flattens
  <2>8. Len(t) - 1 = Len(s) /\ t[Len(t)] = e
    BY <1>1
  <2> QED BY <1>2, <2>1, <2>6, <2>7, <2>8 DEF t
<1> QED BY <1>3, <1>4

\* Concatenation is associative, under a name that the provers leave alone.
Brackets(S) == \A a, b, c \in Seq(S) : (a \o b) \o c = a \o (b \o c)

\* Lists of pairs can be grouped in any way.
LEMMA BracketsMove ==
  ASSUME NEW S
  PROVE  Brackets(S)
BY ConcatAssociative DEF Brackets

\* Flattening two chains in a row is flattening each.
LEMMA FlattenConcat ==
  ASSUME NEW S, NEW s \in Seq(Seq(S)), NEW t \in Seq(Seq(S))
  PROVE  FlattenSeq(s \o t) = FlattenSeq(s) \o FlattenSeq(t)
<1> DEFINE Holds(u) == FlattenSeq(s \o u) = FlattenSeq(s) \o FlattenSeq(u)
           T == {n \in Nat : \A u \in Seq(Seq(S)) : Len(u) = n => Holds(u)}
<1>1. 0 \in T
  <2>1. ASSUME NEW u \in Seq(Seq(S)), Len(u) = 0
        PROVE  Holds(u)
    <3>1. u = << >>
      BY <2>1, EmptySeq
    <3>2. s \o << >> = s /\ FlattenSeq(s) \o << >> = FlattenSeq(s)
      BY FlattenType, ConcatEmptySeq
    <3> QED BY <3>1, <3>2, FlattenEmpty
  <2> QED BY <2>1
<1>2. ASSUME NEW n \in Nat, n \in T
      PROVE  n + 1 \in T
  <2>1. ASSUME NEW u \in Seq(Seq(S)), Len(u) = n + 1
        PROVE  Holds(u)
    <3>1. u # << >>
      BY <2>1, EmptySeq
    <3>2. PICK v \in Seq(Seq(S)), e \in Seq(S) : u = Append(v, e)
      BY <3>1, SequenceEmptyOrAppend
    <3>3. Len(v) = n
      BY <2>1, <3>2, AppendProperties, LenProperties
    <3>4. Holds(v)
      BY <1>2, <3>3
    <3>5. s \o u = Append(s \o v, e)
      <4>1. u = v \o <<e>> /\ Append(s \o v, e) = (s \o v) \o <<e>>
        BY <3>2, ConcatProperties, AppendIsConcat
      <4>2. <<e>> \in Seq(Seq(S))
        OBVIOUS
      <4> QED BY <4>1, <4>2, ConcatAssociative
    <3>6. FlattenSeq(s \o u) = FlattenSeq(s \o v) \o e
      BY <3>5, ConcatProperties, FlattenAppend
    <3>7. FlattenSeq(u) = FlattenSeq(v) \o e
      BY <3>2, FlattenAppend
    <3>8. (FlattenSeq(s) \o FlattenSeq(v)) \o e = FlattenSeq(s) \o (FlattenSeq(v) \o e)
      <4> DEFINE a == FlattenSeq(s)
                 b == FlattenSeq(v)
      <4>1. a \in Seq(S) /\ b \in Seq(S) /\ e \in Seq(S)
        BY FlattenType
      <4>2. Brackets(S)
        BY BracketsMove
      <4> HIDE DEF a, b
      <4>3. (a \o b) \o e = a \o (b \o e)
        BY ONLY <4>1, <4>2, Zenon DEF Brackets
      <4> QED BY <4>3 DEF a, b
    <3> QED BY <3>4, <3>6, <3>7, <3>8
  <2> QED BY <2>1
<1>3. Nat \subseteq T
  <2> HIDE DEF T
  <2> QED BY <1>1, <1>2, NaturalsInSet
<1>4. Len(t) \in T
  BY <1>3, LenProperties
<1> QED BY <1>4

\* A single node gives its own pairs.
LEMMA FlattenOne ==
  ASSUME NEW S, NEW e \in Seq(S)
  PROVE  FlattenSeq(<<e>>) = e
<1>1. <<e>> = Append(<< >>, e) /\ << >> \in Seq(Seq(S))
  BY EmptySeq
<1>2. FlattenSeq(<<e>>) = << >> \o e
  BY <1>1, FlattenAppend, FlattenEmpty
<1> QED BY <1>2, ConcatEmptySeq

-----------------------------------------------------------------------------
(* Inserting, removing, cutting. *)

\* What RemoveAt leaves: one element less, the later ones one place earlier.
LEMMA RemoveAtProperties ==
  ASSUME NEW S, NEW s \in Seq(S), NEW i \in 1 .. Len(s)
  PROVE  /\ RemoveAt(s, i) \in Seq(S)
         /\ Len(RemoveAt(s, i)) = Len(s) - 1
         /\ \A j \in 1 .. Len(s) - 1 :
              RemoveAt(s, i)[j] = IF j < i THEN s[j] ELSE s[j + 1]
<1> DEFINE low  == SubSeq(s, 1, i - 1)
           high == SubSeq(s, i + 1, Len(s))
<1>1. Len(s) \in Nat
  BY LenProperties
<1>2. \A j \in 1 .. Len(s) : s[j] \in S
  BY ElementOfSeq
<1>3. /\ low \in Seq(S) /\ Len(low) = i - 1
      /\ \A j \in 1 .. i - 1 : low[j] = s[j]
  <2>1. 1 \in Int /\ i - 1 \in Int /\ \A j \in 1 .. i - 1 : s[j] \in S
    BY <1>1, <1>2
  <2>2. /\ low \in Seq(S)
        /\ Len(low) = IF 1 <= i - 1 THEN i - 1 - 1 + 1 ELSE 0
        /\ \A j \in 1 .. i - 1 - 1 + 1 : low[j] = s[1 + j - 1]
    BY <2>1, SubSeqProperties
  <2> QED BY <1>1, <2>2
<1>4. /\ high \in Seq(S) /\ Len(high) = Len(s) - i
      /\ \A j \in 1 .. Len(s) - i : high[j] = s[j + i]
  <2>1. i + 1 \in Int /\ Len(s) \in Int /\ \A j \in i + 1 .. Len(s) : s[j] \in S
    BY <1>1, <1>2
  <2>2. /\ high \in Seq(S)
        /\ Len(high) = IF i + 1 <= Len(s) THEN Len(s) - (i + 1) + 1 ELSE 0
        /\ \A j \in 1 .. Len(s) - (i + 1) + 1 : high[j] = s[i + 1 + j - 1]
    BY <2>1, SubSeqProperties
  <2> QED BY <1>1, <2>2
<1> HIDE DEF low, high
<1>5. /\ low \o high \in Seq(S)
      /\ Len(low \o high) = Len(low) + Len(high)
      /\ \A j \in 1 .. Len(low) + Len(high) :
           (low \o high)[j] = IF j <= Len(low) THEN low[j] ELSE high[j - Len(low)]
  BY <1>3, <1>4, ConcatProperties
<1>6. RemoveAt(s, i) = low \o high
  BY DEF RemoveAt, low, high
<1>7. Len(low \o high) = Len(s) - 1
  BY <1>1, <1>3, <1>4, <1>5
<1>8. ASSUME NEW j \in 1 .. Len(s) - 1
      PROVE  (low \o high)[j] = IF j < i THEN s[j] ELSE s[j + 1]
  BY <1>1, <1>3, <1>4, <1>5
<1> QED BY <1>5, <1>6, <1>7, <1>8

\* t is s with e put in at i.
PutIn(t, s, i, e) ==
  /\ Len(t) = Len(s) + 1
  /\ \A j \in 1 .. Len(s) + 1 : t[j] = IF j < i THEN s[j]
                                       ELSE IF j = i THEN e ELSE s[j - 1]

\* That is what InsertAt does: the later elements are one place later.
LEMMA InsertAtPutsIn ==
  ASSUME NEW S, NEW s \in Seq(S), NEW i \in 1 .. Len(s) + 1, NEW e \in S
  PROVE  InsertAt(s, i, e) \in Seq(S) /\ PutIn(InsertAt(s, i, e), s, i, e)
<1> DEFINE low  == SubSeq(s, 1, i - 1)
           high == SubSeq(s, i, Len(s))
           one  == <<e>>
<1>1. Len(s) \in Nat
  BY LenProperties
<1>2. \A j \in 1 .. Len(s) : s[j] \in S
  BY ElementOfSeq
<1>3. /\ low \in Seq(S) /\ Len(low) = i - 1
      /\ \A j \in 1 .. i - 1 : low[j] = s[j]
  <2>1. 1 \in Int /\ i - 1 \in Int /\ \A j \in 1 .. i - 1 : s[j] \in S
    BY <1>1, <1>2
  <2>2. /\ low \in Seq(S)
        /\ Len(low) = IF 1 <= i - 1 THEN i - 1 - 1 + 1 ELSE 0
        /\ \A j \in 1 .. i - 1 - 1 + 1 : low[j] = s[1 + j - 1]
    BY <2>1, SubSeqProperties
  <2> QED BY <1>1, <2>2
<1>4. /\ high \in Seq(S) /\ Len(high) = Len(s) - i + 1
      /\ \A j \in 1 .. Len(s) - i + 1 : high[j] = s[i + j - 1]
  <2>1. i \in Int /\ Len(s) \in Int /\ \A j \in i .. Len(s) : s[j] \in S
    BY <1>1, <1>2
  <2>2. /\ high \in Seq(S)
        /\ Len(high) = IF i <= Len(s) THEN Len(s) - i + 1 ELSE 0
        /\ \A j \in 1 .. Len(s) - i + 1 : high[j] = s[i + j - 1]
    BY <2>1, SubSeqProperties
  <2> QED BY <1>1, <2>2
<1>5. one \in Seq(S) /\ Len(one) = 1 /\ one[1] = e
  OBVIOUS
<1> HIDE DEF low, high, one
<1>6. /\ low \o one \in Seq(S) /\ Len(low \o one) = i
      /\ \A j \in 1 .. i : (low \o one)[j] = IF j < i THEN s[j] ELSE e
  <2>1. /\ low \o one \in Seq(S)
        /\ Len(low \o one) = Len(low) + Len(one)
        /\ \A j \in 1 .. Len(low) + Len(one) :
             (low \o one)[j] = IF j <= Len(low) THEN low[j] ELSE one[j - Len(low)]
    BY <1>3, <1>5, ConcatProperties
  <2> QED BY <1>1, <1>3, <1>5, <2>1
<1>7. /\ (low \o one) \o high \in Seq(S)
      /\ Len((low \o one) \o high) = Len(s) + 1
      /\ \A j \in 1 .. Len(s) + 1 :
           ((low \o one) \o high)[j] = IF j <= i THEN (low \o one)[j] ELSE high[j - i]
  <2>1. /\ (low \o one) \o high \in Seq(S)
        /\ Len((low \o one) \o high) = Len(low \o one) + Len(high)
        /\ \A j \in 1 .. Len(low \o one) + Len(high) :
             ((low \o one) \o high)[j] =
               IF j <= Len(low \o one) THEN (low \o one)[j]
                                       ELSE high[j - Len(low \o one)]
    <3> DEFINE left == low \o one
    <3>1. left \in Seq(S)
      BY <1>6
    <3> HIDE DEF left
    <3>2. /\ left \o high \in Seq(S)
          /\ Len(left \o high) = Len(left) + Len(high)
          /\ \A j \in 1 .. Len(left) + Len(high) :
               (left \o high)[j] =
                 IF j <= Len(left) THEN left[j] ELSE high[j - Len(left)]
      BY <1>4, <3>1, ConcatProperties
    <3> QED BY <3>2, Zenon DEF left
  <2> QED BY <1>1, <1>4, <1>6, <2>1
<1>8. InsertAt(s, i, e) = (low \o one) \o high
  BY DEF InsertAt, low, one, high
<1>9. ASSUME NEW j \in 1 .. Len(s) + 1
      PROVE  ((low \o one) \o high)[j] =
               IF j < i THEN s[j] ELSE IF j = i THEN e ELSE s[j - 1]
  <2>1. CASE j <= i
    <3>1. j \in 1 .. i
      BY <1>1, <2>1
    <3> QED BY <1>1, <1>6, <1>7, <2>1, <3>1
  <2>2. CASE ~(j <= i)
    <3>1. j - i \in 1 .. Len(s) - i + 1 /\ i + (j - i) - 1 = j - 1 /\ ~(j < i) /\ j # i
      BY <1>1, <2>2
    <3>2. high[j - i] = s[j - 1]
      BY <1>4, <3>1
    <3> QED BY <1>7, <2>2, <3>1, <3>2
  <2> QED BY <2>1, <2>2
<1> QED BY <1>7, <1>8, <1>9 DEF PutIn

\* The same, spelt out.
LEMMA InsertAtProperties ==
  ASSUME NEW S, NEW s \in Seq(S), NEW i \in 1 .. Len(s) + 1, NEW e \in S
  PROVE  /\ InsertAt(s, i, e) \in Seq(S)
         /\ Len(InsertAt(s, i, e)) = Len(s) + 1
         /\ \A j \in 1 .. Len(s) + 1 :
              InsertAt(s, i, e)[j] = IF j < i THEN s[j]
                                     ELSE IF j = i THEN e ELSE s[j - 1]
<1>1. InsertAt(s, i, e) \in Seq(S) /\ PutIn(InsertAt(s, i, e), s, i, e)
  BY InsertAtPutsIn, Zenon
<1> QED BY ONLY <1>1 DEF PutIn

\* The first k elements of a sequence, and the others.
LEMMA CutProperties ==
  ASSUME NEW S, NEW s \in Seq(S), NEW k \in 0 .. Len(s)
  PROVE  /\ SubSeq(s, 1, k) \in Seq(S) /\ Len(SubSeq(s, 1, k)) = k
         /\ SubSeq(s, k + 1, Len(s)) \in Seq(S)
         /\ Len(SubSeq(s, k + 1, Len(s))) = Len(s) - k
<1>1. Len(s) \in Nat
  BY LenProperties
<1>2. \A j \in 1 .. Len(s) : s[j] \in S
  BY ElementOfSeq
<1>3. /\ SubSeq(s, 1, k) \in Seq(S)
      /\ Len(SubSeq(s, 1, k)) = IF 1 <= k THEN k - 1 + 1 ELSE 0
  <2>1. 1 \in Int /\ k \in Int /\ \A j \in 1 .. k : s[j] \in S
    BY <1>1, <1>2
  <2> QED BY <2>1, SubSeqProperties
<1>4. /\ SubSeq(s, k + 1, Len(s)) \in Seq(S)
      /\ Len(SubSeq(s, k + 1, Len(s))) =
           IF k + 1 <= Len(s) THEN Len(s) - (k + 1) + 1 ELSE 0
  <2>1. k + 1 \in Int /\ Len(s) \in Int /\ \A j \in k + 1 .. Len(s) : s[j] \in S
    BY <1>1, <1>2
  <2> QED BY <2>1, SubSeqProperties
<1> QED BY <1>1, <1>3, <1>4

\* The elements of a sequence that is cut out of another one.
LEMMA CutElements ==
  ASSUME NEW S, NEW s \in Seq(S), NEW k \in 0 .. Len(s)
  PROVE  /\ \A j \in 1 .. k : SubSeq(s, 1, k)[j] = s[j]
         /\ \A j \in 1 .. Len(s) - k : SubSeq(s, k + 1, Len(s))[j] = s[k + j]
<1>1. Len(s) \in Nat /\ \A j \in 1 .. Len(s) : s[j] \in S
  BY LenProperties, ElementOfSeq
<1>2. \A j \in 1 .. k - 1 + 1 : SubSeq(s, 1, k)[j] = s[1 + j - 1]
  <2>1. 1 \in Int /\ k \in Int /\ \A j \in 1 .. k : s[j] \in S
    BY <1>1
  <2> QED BY <2>1, SubSeqProperties
<1>3. \A j \in 1 .. Len(s) - (k + 1) + 1 :
        SubSeq(s, k + 1, Len(s))[j] = s[(k + 1) + j - 1]
  <2>1. k + 1 \in Int /\ Len(s) \in Int
        /\ \A j \in k + 1 .. Len(s) : s[j] \in S
    BY <1>1
  <2> QED BY <2>1, SubSeqProperties
<1> QED BY <1>1, <1>2, <1>3

\* The two parts of a sequence that is cut in two make up the sequence.
LEMMA CutConcat ==
  ASSUME NEW S, NEW s \in Seq(S), NEW k \in 0 .. Len(s)
  PROVE  SubSeq(s, 1, k) \o SubSeq(s, k + 1, Len(s)) = s
<1>1. Len(s) \in Nat
  BY LenProperties
<1>2. 1 \in 1 .. Len(s) + 1 /\ k \in 1 - 1 .. Len(s) /\ Len(s) \in k .. Len(s)
  BY <1>1
<1>3. SubSeq(s, 1, k) \o SubSeq(s, k + 1, Len(s)) = SubSeq(s, 1, Len(s))
  BY <1>2, ConcatAdjacentSubSeq
<1> QED BY <1>3, SubSeqFull

\* Two sequences in a row have the elements of both,
LEMMA ContainsRow ==
  ASSUME NEW S, NEW s \in Seq(S), NEW t \in Seq(S), NEW e
  PROVE  Contains(s \o t, e) <=> Contains(s, e) \/ Contains(t, e)
<1>1. /\ Len(s) \in Nat /\ Len(t) \in Nat
      /\ DOMAIN s = 1 .. Len(s) /\ DOMAIN t = 1 .. Len(t)
  OBVIOUS
<1>2. /\ DOMAIN (s \o t) = 1 .. Len(s) + Len(t)
      /\ \A i \in 1 .. Len(s) : (s \o t)[i] = s[i]
      /\ \A i \in 1 .. Len(t) : (s \o t)[Len(s) + i] = t[i]
  OBVIOUS
<1> DEFINE u == s \o t
<1> HIDE DEF u
<1>3. ASSUME Contains(u, e) PROVE Contains(s, e) \/ Contains(t, e)
  <2>1. PICK i \in 1 .. Len(s) + Len(t) : u[i] = e
    BY <1>2, <1>3 DEF Contains, u
  <2>2. CASE i <= Len(s)
    <3>1. i \in DOMAIN s /\ s[i] = e
      BY <1>1, <1>2, <2>1, <2>2 DEF u
    <3> QED BY <3>1 DEF Contains
  <2>3. CASE i > Len(s)
    <3>1. i - Len(s) \in 1 .. Len(t) /\ Len(s) + (i - Len(s)) = i
      BY <1>1, <2>1, <2>3
    <3>2. t[i - Len(s)] = e
      BY <1>2, <2>1, <3>1 DEF u
    <3> QED BY <1>1, <3>1, <3>2 DEF Contains
  <2> QED BY <1>1, <2>1, <2>2, <2>3
<1>4. ASSUME Contains(s, e) PROVE Contains(u, e)
  <2>1. PICK i \in 1 .. Len(s) : s[i] = e
    BY <1>1, <1>4 DEF Contains
  <2>2. i \in 1 .. Len(s) + Len(t)
    BY <1>1
  <2> QED BY <1>2, <2>1, <2>2 DEF Contains, u
<1>5. ASSUME Contains(t, e) PROVE Contains(u, e)
  <2>1. PICK i \in 1 .. Len(t) : t[i] = e
    BY <1>1, <1>5 DEF Contains
  <2>2. Len(s) + i \in 1 .. Len(s) + Len(t) /\ u[Len(s) + i] = e
    BY <1>1, <1>2, <2>1 DEF u
  <2> QED BY <1>2, <2>2 DEF Contains, u
<1> QED BY <1>3, <1>4, <1>5 DEF u

\* so that a sequence has those of its two parts;
LEMMA ContainsParts ==
  ASSUME NEW S, NEW s \in Seq(S), NEW k \in 0 .. Len(s), NEW e
  PROVE  Contains(s, e) <=> Contains(SubSeq(s, 1, k), e) \/ Contains(SubSeq(s, k + 1, Len(s)), e)
<1> DEFINE low == SubSeq(s, 1, k)
           high == SubSeq(s, k + 1, Len(s))
<1>1. low \in Seq(S) /\ high \in Seq(S)
  BY CutProperties
<1>2. low \o high = s
  BY CutConcat
<1> HIDE DEF low, high
<1>3. Contains(low \o high, e) <=> Contains(low, e) \/ Contains(high, e)
  BY <1>1, ContainsRow
<1> QED BY <1>2, <1>3 DEF low, high

\* one that is put in is one more,
LEMMA ContainsPutIn ==
  ASSUME NEW S, NEW s \in Seq(S), NEW i \in 1 .. Len(s) + 1, NEW e, NEW x,
         NEW t \in Seq(S), PutIn(t, s, i, e)
  PROVE  Contains(t, x) <=> Contains(s, x) \/ x = e
<1>1. /\ Len(s) \in Nat /\ DOMAIN s = 1 .. Len(s) /\ DOMAIN t = 1 .. Len(s) + 1
      /\ \A j \in 1 .. Len(s) + 1 : t[j] = IF j < i THEN s[j]
                                           ELSE IF j = i THEN e ELSE s[j - 1]
  BY DEF PutIn
<1>2. ASSUME NEW j \in 1 .. Len(s) + 1, t[j] = x PROVE Contains(s, x) \/ x = e
  <2>1. CASE j < i
    <3>1. j \in 1 .. Len(s) /\ s[j] = x
      BY <1>1, <1>2, <2>1
    <3> QED BY <1>1, <3>1 DEF Contains
  <2>2. CASE j = i
    BY <1>1, <1>2, <2>2
  <2>3. CASE j > i
    <3>1. j - 1 \in 1 .. Len(s) /\ s[j - 1] = x
      BY <1>1, <1>2, <2>3
    <3> QED BY <1>1, <3>1 DEF Contains
  <2> QED BY <2>1, <2>2, <2>3
<1>3. ASSUME NEW j \in 1 .. Len(s), s[j] = x PROVE Contains(t, x)
  <2>1. CASE j < i
    <3>1. j \in 1 .. Len(s) + 1 /\ t[j] = x
      BY <1>1, <1>3, <2>1
    <3> QED BY <1>1, <3>1 DEF Contains
  <2>2. CASE j >= i
    <3>1. j + 1 \in 1 .. Len(s) + 1 /\ ~(j + 1 < i) /\ j + 1 # i /\ (j + 1) - 1 = j
      BY <1>1, <2>2
    <3>2. t[j + 1] = x
      BY <1>1, <1>3, <3>1
    <3> QED BY <1>1, <3>1, <3>2 DEF Contains
  <2> QED BY <2>1, <2>2
<1>4. i \in DOMAIN t /\ t[i] = e
  BY <1>1
<1> QED BY <1>1, <1>2, <1>3, <1>4 DEF Contains

\* and one that is taken out is one less if it is there only once.
LEMMA ContainsRemoved ==
  ASSUME NEW S, NEW s \in Seq(S), NEW i \in 1 .. Len(s), NEW x,
         \A j \in 1 .. Len(s) : s[j] = s[i] => j = i,
         NEW t, t = RemoveAt(s, i)
  PROVE  Contains(t, x) <=> Contains(s, x) /\ x # s[i]
<1>1. /\ Len(s) \in Nat /\ DOMAIN s = 1 .. Len(s) /\ DOMAIN t = 1 .. Len(s) - 1
      /\ \A j \in 1 .. Len(s) - 1 : t[j] = IF j < i THEN s[j] ELSE s[j + 1]
  <2>1. t \in Seq(S) /\ Len(t) = Len(s) - 1
        /\ \A j \in 1 .. Len(s) - 1 : t[j] = IF j < i THEN s[j] ELSE s[j + 1]
    BY RemoveAtProperties
  <2> QED BY <2>1
<1>2. ASSUME NEW j \in 1 .. Len(s) - 1, t[j] = x PROVE Contains(s, x) /\ x # s[i]
  <2>1. CASE j < i
    <3>1. j \in 1 .. Len(s) /\ s[j] = x /\ j # i
      BY <1>1, <1>2, <2>1
    <3> QED BY <1>1, <3>1 DEF Contains
  <2>2. CASE j >= i
    <3>1. j + 1 \in 1 .. Len(s) /\ s[j + 1] = x /\ j + 1 # i
      BY <1>1, <1>2, <2>2
    <3> QED BY <1>1, <3>1 DEF Contains
  <2> QED BY <2>1, <2>2
<1>3. ASSUME NEW j \in 1 .. Len(s), s[j] = x, x # s[i] PROVE Contains(t, x)
  <2>1. CASE j < i
    <3>1. j \in 1 .. Len(s) - 1 /\ t[j] = x
      BY <1>1, <1>3, <2>1
    <3> QED BY <1>1, <3>1 DEF Contains
  <2>2. CASE j > i
    <3>1. j - 1 \in 1 .. Len(s) - 1 /\ ~(j - 1 < i) /\ (j - 1) + 1 = j
      BY <1>1, <2>2
    <3>2. t[j - 1] = x
      BY <1>1, <1>3, <3>1
    <3> QED BY <1>1, <3>1, <3>2 DEF Contains
  <2> QED BY <1>3, <2>1, <2>2
<1> QED BY <1>1, <1>2, <1>3 DEF Contains

\* The elements of the nodes are those of the list.
LEMMA FlattenContains ==
  ASSUME NEW S, NEW s \in Seq(Seq(S)), NEW e
  PROVE  Contains(FlattenSeq(s), e) <=> \E i \in 1 .. Len(s) : Contains(s[i], e)
<1> DEFINE Has(u) == Contains(FlattenSeq(u), e) <=> \E i \in 1 .. Len(u) : Contains(u[i], e)
           T == {n \in Nat : \A u \in Seq(Seq(S)) : Len(u) = n => Has(u)}
<1>1. 0 \in T
  <2>1. ASSUME NEW u \in Seq(Seq(S)), Len(u) = 0
        PROVE  Has(u)
    <3>1. u = << >>
      BY <2>1, EmptySeq
    <3> QED BY <3>1, FlattenEmpty DEF Contains
  <2> QED BY <2>1
<1>2. ASSUME NEW n \in Nat, n \in T
      PROVE  n + 1 \in T
  <2>1. ASSUME NEW u \in Seq(Seq(S)), Len(u) = n + 1
        PROVE  Has(u)
    <3>1. u # << >>
      BY <2>1, EmptySeq
    <3>2. PICK v \in Seq(Seq(S)), t \in Seq(S) : u = Append(v, t)
      BY <3>1, SequenceEmptyOrAppend
    <3>3. /\ Len(v) = n /\ u[n + 1] = t
          /\ \A i \in 1 .. n : u[i] = v[i]
      BY <2>1, <3>2, AppendProperties, LenProperties
    <3>4. Has(v)
      BY <1>2, <3>3
    <3>5. FlattenSeq(u) = FlattenSeq(v) \o t /\ FlattenSeq(v) \in Seq(S)
      BY <3>2, FlattenAppend, FlattenType
    <3>6. Contains(FlattenSeq(u), e) <=> Contains(FlattenSeq(v), e) \/ Contains(t, e)
      BY <3>5, ContainsRow
    <3>7. \A i \in 1 .. n + 1 : i \in 1 .. n \/ i = n + 1
      OBVIOUS
    <3>8. n + 1 \in 1 .. n + 1 /\ \A i \in 1 .. n : i \in 1 .. n + 1
      OBVIOUS
    <3> QED BY <2>1, <3>3, <3>4, <3>6, <3>7, <3>8
  <2> QED BY <2>1
<1>3. Nat \subseteq T
  <2> HIDE DEF T
  <2> QED BY <1>1, <1>2, NaturalsInSet
<1>4. Len(s) \in T
  BY <1>3, LenProperties
<1> QED BY <1>4

\* The lengths of the nodes add up to that of the list.
LEMMA FlattenLength ==
  ASSUME NEW S, NEW s \in Seq(Seq(S)), NEW total, total[0] = 0,
         \A i \in 1 .. Len(s) : total[i] = total[i - 1] + Len(s[i])
  PROVE  total[Len(s)] = Len(FlattenSeq(s))
<1>1. CASE s = << >>
  BY <1>1, FlattenEmpty
<1>2. CASE s # << >>
  <2>1. PICK fl \in [1 .. Len(s) -> Seq(S)] : Flattens(fl, s) /\ FlattenSeq(s) = fl[Len(s)]
    BY <1>2, FlattenUnfolds
  <2>2. Len(s) \in Nat /\ Len(s) >= 1 /\ \A i \in 1 .. Len(s) : s[i] \in Seq(S) /\ Len(s[i]) \in Nat
    BY <1>2, EmptySeq, LenProperties, ElementOfSeq
  <2> DEFINE T == {n \in Nat : n + 1 <= Len(s) => total[n + 1] = Len(fl[n + 1])}
  <2>3. 0 \in T
    <3>1. 1 \in 1 .. Len(s) /\ 1 - 1 = 0
      BY <2>2
    <3>2. total[1] = 0 + Len(s[1]) /\ fl[1] = s[1]
      BY <2>1, <3>1 DEF Flattens
    <3> QED BY <2>2, <3>1, <3>2
  <2>4. ASSUME NEW n \in Nat, n \in T
        PROVE  n + 1 \in T
    <3>1. SUFFICES ASSUME n + 2 <= Len(s)
                   PROVE  total[n + 2] = Len(fl[n + 2])
      OBVIOUS
    <3>2. /\ n + 1 \in 1 .. Len(s) /\ n + 2 \in 1 .. Len(s) /\ n + 2 \in 2 .. Len(s)
          /\ (n + 2) - 1 = n + 1 /\ total[n + 1] = Len(fl[n + 1])
      BY <2>2, <2>4, <3>1
    <3>3. fl[n + 1] \in Seq(S) /\ s[n + 2] \in Seq(S)
      BY <2>1, <2>2, <3>2
    <3>4. fl[n + 2] = fl[n + 1] \o s[n + 2]
      BY <2>1, <3>2 DEF Flattens
    <3>5. Len(fl[n + 2]) = Len(fl[n + 1]) + Len(s[n + 2])
      BY <3>3, <3>4, ConcatProperties
    <3> QED BY <3>2, <3>5
  <2>5. Nat \subseteq T
    <3> HIDE DEF T
    <3> QED BY <2>3, <2>4, NaturalsInSet
  <2>6. Len(s) - 1 \in T /\ (Len(s) - 1) + 1 = Len(s)
    <3>1. Len(s) - 1 \in Nat
      BY <2>2
    <3> HIDE DEF T
    <3> QED BY <2>2, <2>5, <3>1
  <2> QED BY <2>1, <2>2, <2>6
<1> QED BY <1>1, <1>2

-----------------------------------------------------------------------------
(* Sequences in a row.  The provers replace s \o t by the function it is;  *)
(* under a name of its own the laws of concatenation can be cited.         *)

s ++ t == s \o t

\* The sequence of a single element.
One(e) == <<e>>

\* A sequence of one element.
LEMMA OneProperties ==
  ASSUME NEW S, NEW e \in S
  PROVE  One(e) \in Seq(S) /\ Len(One(e)) = 1 /\ One(e)[1] = e
BY DEF One

\* Two sequences in a row: the type and the length,
LEMMA RowProperties ==
  ASSUME NEW S, NEW s \in Seq(S), NEW t \in Seq(S)
  PROVE  /\ s ++ t \in Seq(S)
         /\ Len(s ++ t) = Len(s) + Len(t)
BY ConcatProperties DEF ++

\* and the elements.
LEMMA RowElements ==
  ASSUME NEW S, NEW s \in Seq(S), NEW t \in Seq(S), NEW i \in 1 .. Len(s) + Len(t)
  PROVE  (s ++ t)[i] = IF i <= Len(s) THEN s[i] ELSE t[i - Len(s)]
BY ConcatProperties DEF ++

\* How three are grouped does not matter,
LEMMA RowAssociative ==
  ASSUME NEW S, NEW s \in Seq(S), NEW t \in Seq(S), NEW u \in Seq(S)
  PROVE  (s ++ t) ++ u = s ++ (t ++ u)
BY ConcatAssociative DEF ++

\* an empty one adds nothing,
LEMMA RowEmpty ==
  ASSUME NEW S, NEW s \in Seq(S)
  PROVE  s ++ << >> = s /\ << >> ++ s = s
BY ConcatEmptySeq DEF ++

\* and what follows the same sequence is determined.
LEMMA RowCancel ==
  ASSUME NEW S, NEW s \in Seq(S), NEW t \in Seq(S), NEW u \in Seq(S),
         s ++ t = s ++ u
  PROVE  t = u
BY ConcatSimplifications DEF ++

\* The lists of two chains in a row.
LEMMA FlattenRow ==
  ASSUME NEW S, NEW s \in Seq(Seq(S)), NEW t \in Seq(Seq(S))
  PROVE  FlattenSeq(s ++ t) = FlattenSeq(s) ++ FlattenSeq(t)
BY FlattenConcat DEF ++

\* The list of a chain of one node.
LEMMA FlattenSingle ==
  ASSUME NEW S, NEW e \in Seq(S)
  PROVE  FlattenSeq(One(e)) = e
BY FlattenOne, Zenon DEF One

\* Four sequences in a row.
LEMMA FourInARow ==
  ASSUME NEW S, NEW a \in Seq(S), NEW s \in Seq(S), NEW t \in Seq(S), NEW b \in Seq(S)
  PROVE  /\ (a ++ (s ++ t)) ++ b = (a ++ s) ++ (t ++ b)
         /\ ((a ++ s) ++ t) ++ b = (a ++ s) ++ (t ++ b)
<1>1. a ++ s \in Seq(S)
  BY RowProperties
<1>2. ((a ++ s) ++ t) ++ b = (a ++ s) ++ (t ++ b)
  BY <1>1, RowAssociative
<1>3. (a ++ s) ++ t = a ++ (s ++ t)
  BY RowAssociative
<1> QED BY <1>2, <1>3

-----------------------------------------------------------------------------
(* A sequence in parts: what is before a place, from it on, after it. *)

Before(s, i) == SubSeq(s, 1, i - 1)
From(s, i)   == SubSeq(s, i, Len(s))
Beyond(s, i)  == SubSeq(s, i + 1, Len(s))

\* The parts around an element,
LEMMA ElementParts ==
  ASSUME NEW S, NEW s \in Seq(S), NEW i \in 1 .. Len(s)
  PROVE  /\ Before(s, i) \in Seq(S) /\ Len(Before(s, i)) = i - 1
         /\ Beyond(s, i) \in Seq(S) /\ Len(Beyond(s, i)) = Len(s) - i
         /\ s = (Before(s, i) ++ One(s[i])) ++ Beyond(s, i)
<1>1. Len(s) \in Nat /\ i - 1 \in 0 .. Len(s) /\ i \in 0 .. Len(s)
  BY LenProperties
<1>2. Before(s, i) \in Seq(S) /\ Len(Before(s, i)) = i - 1
  BY <1>1, CutProperties DEF Before
<1>3. Beyond(s, i) \in Seq(S) /\ Len(Beyond(s, i)) = Len(s) - i
  BY <1>1, CutProperties DEF Beyond
<1>4. SubSeq(s, 1, i) \o Beyond(s, i) = s
  BY <1>1, CutConcat DEF Beyond
<1>5. SubSeq(s, 1, i) = Before(s, i) \o One(s[i])
  <2>1. 1 \in 1 .. Len(s) /\ i \in 1 .. Len(s)
    BY <1>1
  <2> QED BY <2>1, SubSeqRecursiveSecond DEF One, Before
<1>6. s = (Before(s, i) ++ One(s[i])) ++ Beyond(s, i)
  BY <1>4, <1>5, Zenon DEF ++
<1> QED BY <1>2, <1>3, <1>6

\* the later of which starts with the next element,
LEMMA AfterUnfolds ==
  ASSUME NEW S, NEW s \in Seq(S), NEW i \in 1 .. Len(s) - 1
  PROVE  Beyond(s, i) = One(s[i + 1]) ++ Beyond(s, i + 1)
<1>1. i + 1 \in 1 .. Len(s) /\ Len(s) \in i + 1 .. Len(s)
  BY LenProperties
<1> QED BY <1>1, SubSeqRecursiveFirst DEF Beyond, One, ++

\* and those around a place for an element.
LEMMA PlaceParts ==
  ASSUME NEW S, NEW s \in Seq(S), NEW i \in 1 .. Len(s) + 1
  PROVE  /\ Before(s, i) \in Seq(S) /\ Len(Before(s, i)) = i - 1
         /\ From(s, i) \in Seq(S) /\ Len(From(s, i)) = Len(s) + 1 - i
         /\ s = Before(s, i) ++ From(s, i)
<1> DEFINE k == i - 1
<1>1. Len(s) \in Nat /\ k \in 0 .. Len(s) /\ k + 1 = i
  BY LenProperties
<1> HIDE DEF k
<1>k. k \in 0 .. Len(s)
  BY <1>1
<1>2. /\ SubSeq(s, 1, k) \in Seq(S) /\ Len(SubSeq(s, 1, k)) = k
      /\ SubSeq(s, k + 1, Len(s)) \in Seq(S)
      /\ Len(SubSeq(s, k + 1, Len(s))) = Len(s) - k
  BY <1>k, CutProperties, Zenon
<1>c. SubSeq(s, 1, k) \o SubSeq(s, k + 1, Len(s)) = s
  BY <1>k, CutConcat, Zenon
<1>3. Before(s, i) = SubSeq(s, 1, k) /\ From(s, i) = SubSeq(s, k + 1, Len(s))
  BY <1>1 DEF Before, From, k
<1>4. i - 1 = k /\ Len(s) + 1 - i = Len(s) - k
  BY <1>1
<1>5. /\ Before(s, i) \in Seq(S) /\ Len(Before(s, i)) = i - 1
      /\ From(s, i) \in Seq(S) /\ Len(From(s, i)) = Len(s) + 1 - i
  BY ONLY <1>2, <1>3, <1>4
<1>6. s = Before(s, i) ++ From(s, i)
  BY <1>2, <1>c, <1>3 DEF ++
<1> QED BY ONLY <1>5, <1>6

\* Two sequences in a row have these parts.
LEMMA RowParts ==
  ASSUME NEW S, NEW a \in Seq(S), NEW b \in Seq(S)
  PROVE  /\ Before(a ++ b, Len(a) + 1) = a
         /\ From(a ++ b, Len(a) + 1) = b
<1> DEFINE u == a ++ b
           k == Len(a)
           low == SubSeq(u, 1, k)
           high == SubSeq(u, k + 1, Len(u))
<1>1. /\ u \in Seq(S) /\ Len(u) = Len(a) + Len(b)
      /\ \A j \in 1 .. Len(a) + Len(b) :
           u[j] = IF j <= Len(a) THEN a[j] ELSE b[j - Len(a)]
      /\ Len(a) \in Nat /\ Len(b) \in Nat
  BY RowProperties, RowElements, LenProperties
<1> HIDE DEF u
<1>2. k \in 0 .. Len(u) /\ k = Len(a) /\ k + 1 - 1 = k
  BY <1>1
<1> HIDE DEF k
<1>3. /\ low \in Seq(S) /\ Len(low) = k /\ high \in Seq(S)
      /\ \A j \in 1 .. k : low[j] = u[j]
  BY <1>1, <1>2, CutProperties, CutElements
<1>4. low ++ high = u
  BY <1>1, <1>2, CutConcat DEF ++
<1>5. Before(u, k + 1) = low /\ From(u, k + 1) = high
  BY <1>2 DEF Before, From
<1> HIDE DEF low, high
<1>6. \A j \in 1 .. Len(low) : low[j] = a[j]
  BY <1>1, <1>2, <1>3
<1>7. low = a
  BY <1>2, <1>3, <1>6, SeqEqual
<1>8. high = b
  BY <1>3, <1>4, <1>7, RowCancel DEF u
<1> QED BY <1>5, <1>7, <1>8 DEF u, k

\* Inserting puts the element between the parts,
LEMMA InsertAtSplits ==
  ASSUME NEW s, NEW i, NEW e
  PROVE  InsertAt(s, i, e) = (Before(s, i) ++ One(e)) ++ From(s, i)
BY DEF InsertAt, Before, From, One, ++

\* in particular between the two sequences that a row is made of;
LEMMA InsertAtParts ==
  ASSUME NEW S, NEW a \in Seq(S), NEW b \in Seq(S), NEW e
  PROVE  InsertAt(a ++ b, Len(a) + 1, e) = (a ++ One(e)) ++ b
BY RowParts, InsertAtSplits

\* removing leaves the parts around it,
LEMMA RemoveAtSplits ==
  ASSUME NEW s, NEW i
  PROVE  RemoveAt(s, i) = Before(s, i) ++ Beyond(s, i)
BY DEF RemoveAt, Before, Beyond, ++

\* in particular the two around a single element;
LEMMA RemoveAtParts ==
  ASSUME NEW S, NEW a \in Seq(S), NEW b \in Seq(S), NEW e \in S
  PROVE  RemoveAt((a ++ One(e)) ++ b, Len(a) + 1) = a ++ b
<1> DEFINE one == One(e)
           s   == (a ++ one) ++ b
           k   == Len(a) + 1
<1>1. one \in Seq(S) /\ Len(one) = 1
  BY OneProperties
<1> HIDE DEF one
<1>2. a ++ one \in Seq(S) /\ one ++ b \in Seq(S) /\ Len(a ++ one) = k
  BY <1>1, RowProperties
<1>3. s = a ++ (one ++ b)
  BY <1>1, RowAssociative
<1>4. Before(s, k) = a
  BY <1>2, <1>3, RowParts
<1>5. Beyond(s, k) = b
  <2>1. From((a ++ one) ++ b, Len(a ++ one) + 1) = b
    BY <1>2, RowParts
  <2> QED BY <1>2, <2>1 DEF From, Beyond
<1>6. RemoveAt(s, k) = Before(s, k) ++ Beyond(s, k)
  BY RemoveAtSplits
<1> HIDE DEF s, k
<1> QED BY <1>4, <1>5, <1>6 DEF s, k, one

\* and replacing puts another one there.
LEMMA ReplaceAtParts ==
  ASSUME NEW S, NEW a \in Seq(S), NEW b \in Seq(S), NEW e \in S, NEW f \in S
  PROVE  ReplaceAt((a ++ One(e)) ++ b, Len(a) + 1, f) = (a ++ One(f)) ++ b
<1> DEFINE Is(x) == (a ++ One(x)) ++ b
           k     == Len(a) + 1
<1>1. Len(a) \in Nat /\ Len(b) \in Nat /\ k \in Nat /\ k >= 1
  BY LenProperties
<1>2. ASSUME NEW x \in S
      PROVE  /\ Is(x) \in Seq(S) /\ Len(Is(x)) = k + Len(b)
             /\ \A j \in 1 .. k + Len(b) :
                  Is(x)[j] = IF j < k THEN a[j] ELSE IF j = k THEN x ELSE b[j - k]
  <2> DEFINE low == a ++ One(x)
  <2>1. One(x) \in Seq(S) /\ Len(One(x)) = 1 /\ One(x)[1] = x
    BY OneProperties
  <2>2. low \in Seq(S) /\ Len(low) = k
    BY <2>1, RowProperties
  <2>3. \A j \in 1 .. k : low[j] = IF j <= Len(a) THEN a[j] ELSE One(x)[j - Len(a)]
    BY <2>1, RowElements
  <2>4. \A j \in 1 .. k : low[j] = IF j < k THEN a[j] ELSE x
    <3>1. k = Len(a) + 1
      OBVIOUS
    <3> HIDE DEF k, low
    <3> QED BY <1>1, <2>1, <2>3, <3>1
  <2> HIDE DEF low, k
  <2>5. low ++ b \in Seq(S) /\ Len(low ++ b) = k + Len(b)
    BY <2>2, RowProperties
  <2>6. \A j \in 1 .. k + Len(b) : (low ++ b)[j] = IF j <= k THEN low[j] ELSE b[j - k]
    BY <2>2, RowElements
  <2>7. \A j \in 1 .. k + Len(b) :
          (low ++ b)[j] = IF j < k THEN a[j] ELSE IF j = k THEN x ELSE b[j - k]
    BY <1>1, <2>4, <2>6
  <2>8. Is(x) = low ++ b
    BY DEF low
  <2> HIDE DEF Is
  <2> QED BY <2>5, <2>7, <2>8
<1> HIDE DEF Is, k
<1> DEFINE new == ReplaceAt(Is(e), k, f)
<1>3. Is(e) \in Seq(S) /\ k \in 1 .. Len(Is(e))
  BY <1>1, <1>2
<1>4. /\ new \in Seq(S) /\ Len(new) = Len(Is(e))
      /\ \A j \in 1 .. Len(Is(e)) : new[j] = IF j = k THEN f ELSE Is(e)[j]
  BY <1>3, ExceptSeq DEF ReplaceAt
<1> HIDE DEF new
<1>5. ASSUME NEW j \in 1 .. Len(new)
      PROVE  new[j] = Is(f)[j]
  <2>1. j \in 1 .. k + Len(b) /\ j \in 1 .. Len(Is(e))
    BY <1>2, <1>4
  <2>2. new[j] = IF j = k THEN f ELSE Is(e)[j]
    BY <1>4, <2>1
  <2>3. /\ Is(e)[j] = IF j < k THEN a[j] ELSE IF j = k THEN e ELSE b[j - k]
        /\ Is(f)[j] = IF j < k THEN a[j] ELSE IF j = k THEN f ELSE b[j - k]
    BY <1>2, <2>1
  <2> QED BY <2>2, <2>3
<1>6. Is(f) \in Seq(S) /\ Len(new) = Len(Is(f))
  BY <1>2, <1>4
<1>7. new = Is(f)
  BY <1>4, <1>5, <1>6, SeqEqual
<1> QED BY <1>7 DEF new, Is, k

-----------------------------------------------------------------------------
(* A change within a sequence that is part of a longer one. *)

\* What lies where.
LEMMA WithinProperties ==
  ASSUME NEW S, NEW a \in Seq(S), NEW s \in Seq(S), NEW b \in Seq(S)
  PROVE  /\ (a ++ s) ++ b \in Seq(S)
         /\ Len((a ++ s) ++ b) = Len(a) + Len(s) + Len(b)
         /\ \A i \in 1 .. Len(s) : ((a ++ s) ++ b)[Len(a) + i] = s[i]
<1>1. Len(a) \in Nat /\ Len(s) \in Nat /\ Len(b) \in Nat
  BY LenProperties
<1>2. a ++ s \in Seq(S) /\ Len(a ++ s) = Len(a) + Len(s)
  BY RowProperties
<1>3. /\ (a ++ s) ++ b \in Seq(S)
      /\ Len((a ++ s) ++ b) = Len(a) + Len(s) + Len(b)
  <2>1. /\ (a ++ s) ++ b \in Seq(S)
        /\ Len((a ++ s) ++ b) = Len(a ++ s) + Len(b)
    BY <1>2, RowProperties
  <2> QED BY <1>1, <1>2, <2>1
<1>4. ASSUME NEW i \in 1 .. Len(s)
      PROVE  ((a ++ s) ++ b)[Len(a) + i] = s[i]
  <2> DEFINE k == Len(a) + i
  <2>1. k \in 1 .. Len(a ++ s) + Len(b) /\ k <= Len(a ++ s)
        /\ k \in 1 .. Len(a) + Len(s) /\ ~ (k <= Len(a)) /\ k - Len(a) = i
    BY <1>1, <1>2
  <2> HIDE DEF k
  <2>2. ((a ++ s) ++ b)[k] = (a ++ s)[k]
    BY <1>2, <2>1, RowElements
  <2>3. (a ++ s)[k] = s[k - Len(a)]
    BY <2>1, RowElements
  <2> QED BY <2>1, <2>2, <2>3 DEF k
<1> QED BY <1>3, <1>4

\* Inserting into a part is inserting into the whole,
LEMMA InsertAtWithin ==
  ASSUME NEW S, NEW a \in Seq(S), NEW s \in Seq(S), NEW b \in Seq(S),
         NEW i \in 1 .. Len(s) + 1, NEW e \in S
  PROVE  (a ++ InsertAt(s, i, e)) ++ b = InsertAt((a ++ s) ++ b, Len(a) + i, e)
<1> DEFINE p == Before(s, i)
           q == From(s, i)
           one == One(e)
<1>1. p \in Seq(S) /\ q \in Seq(S) /\ one \in Seq(S) /\ Len(p) = i - 1
  BY PlaceParts, OneProperties
<1>2. s = p ++ q /\ InsertAt(s, i, e) = (p ++ one) ++ q
  BY PlaceParts, InsertAtSplits
<1>3. a ++ p \in Seq(S) /\ q ++ b \in Seq(S) /\ Len(a ++ p) + 1 = Len(a) + i
  <2>1. /\ a ++ p \in Seq(S) /\ q ++ b \in Seq(S)
        /\ Len(a ++ p) = Len(a) + Len(p)
    BY <1>1, RowProperties
  <2>2. Len(a) \in Nat /\ Len(s) \in Nat
    BY LenProperties
  <2> QED BY <1>1, <2>1, <2>2
<1>4. InsertAt((a ++ p) ++ (q ++ b), Len(a ++ p) + 1, e)
        = ((a ++ p) ++ one) ++ (q ++ b)
  BY <1>3, InsertAtParts
<1> HIDE DEF p, q, one
<1>5. (a ++ (p ++ q)) ++ b = (a ++ p) ++ (q ++ b)
  BY <1>1, FourInARow
<1>6. (a ++ ((p ++ one) ++ q)) ++ b = ((a ++ p) ++ one) ++ (q ++ b)
  <2>1. p ++ one \in Seq(S)
    BY <1>1, RowProperties
  <2>2. (a ++ ((p ++ one) ++ q)) ++ b = (a ++ (p ++ one)) ++ (q ++ b)
    BY <1>1, <2>1, FourInARow
  <2>3. a ++ (p ++ one) = (a ++ p) ++ one
    BY <1>1, RowAssociative
  <2> QED BY <2>2, <2>3
<1> QED BY <1>2, <1>3, <1>4, <1>5, <1>6

\* removing from it removing from the whole,
LEMMA RemoveAtWithin ==
  ASSUME NEW S, NEW a \in Seq(S), NEW s \in Seq(S), NEW b \in Seq(S),
         NEW i \in 1 .. Len(s)
  PROVE  (a ++ RemoveAt(s, i)) ++ b = RemoveAt((a ++ s) ++ b, Len(a) + i)
<1> DEFINE p == Before(s, i)
           q == Beyond(s, i)
           one == One(s[i])
<1>1. p \in Seq(S) /\ q \in Seq(S) /\ one \in Seq(S) /\ Len(p) = i - 1
  BY ElementParts, ElementOfSeq, OneProperties
<1>2. s = (p ++ one) ++ q /\ RemoveAt(s, i) = p ++ q
  BY ElementParts, RemoveAtSplits
<1>3. a ++ p \in Seq(S) /\ q ++ b \in Seq(S) /\ Len(a ++ p) + 1 = Len(a) + i
  <2>1. /\ a ++ p \in Seq(S) /\ q ++ b \in Seq(S)
        /\ Len(a ++ p) = Len(a) + Len(p)
    BY <1>1, RowProperties
  <2>2. Len(a) \in Nat /\ Len(s) \in Nat
    BY LenProperties
  <2> QED BY <1>1, <2>1, <2>2
<1>4. RemoveAt(((a ++ p) ++ one) ++ (q ++ b), Len(a ++ p) + 1)
        = (a ++ p) ++ (q ++ b)
  <2>1. s[i] \in S
    BY ElementOfSeq
  <2> QED BY <1>3, <2>1, RemoveAtParts
<1> HIDE DEF p, q, one
<1>5. (a ++ (p ++ q)) ++ b = (a ++ p) ++ (q ++ b)
  BY <1>1, FourInARow
<1>6. (a ++ ((p ++ one) ++ q)) ++ b = ((a ++ p) ++ one) ++ (q ++ b)
  <2>1. p ++ one \in Seq(S)
    BY <1>1, RowProperties
  <2>2. (a ++ ((p ++ one) ++ q)) ++ b = (a ++ (p ++ one)) ++ (q ++ b)
    BY <1>1, <2>1, FourInARow
  <2>3. a ++ (p ++ one) = (a ++ p) ++ one
    BY <1>1, RowAssociative
  <2> QED BY <2>2, <2>3
<1> QED BY <1>2, <1>3, <1>4, <1>5, <1>6

\* and replacing an element of it replacing that of the whole.
LEMMA ReplaceAtWithin ==
  ASSUME NEW S, NEW a \in Seq(S), NEW s \in Seq(S), NEW b \in Seq(S),
         NEW i \in 1 .. Len(s), NEW f \in S
  PROVE  (a ++ ReplaceAt(s, i, f)) ++ b = ReplaceAt((a ++ s) ++ b, Len(a) + i, f)
<1> DEFINE p == Before(s, i)
           q == Beyond(s, i)
           e == s[i]
<1>1. p \in Seq(S) /\ q \in Seq(S) /\ e \in S /\ Len(p) = i - 1
  BY ElementParts, ElementOfSeq
<1>2. s = (p ++ One(e)) ++ q
  BY ElementParts
<1>3. a ++ p \in Seq(S) /\ q ++ b \in Seq(S) /\ Len(a ++ p) + 1 = Len(a) + i
  <2>1. /\ a ++ p \in Seq(S) /\ q ++ b \in Seq(S)
        /\ Len(a ++ p) = Len(a) + Len(p)
    BY <1>1, RowProperties
  <2>2. Len(a) \in Nat /\ Len(s) \in Nat
    BY LenProperties
  <2> QED BY <1>1, <2>1, <2>2
<1> HIDE DEF p, q, e
<1>4. ReplaceAt((p ++ One(e)) ++ q, i, f) = (p ++ One(f)) ++ q
  <2>1. Len(p) + 1 = i
    BY <1>1
  <2> QED BY <1>1, <2>1, ReplaceAtParts
<1>5. ReplaceAt(((a ++ p) ++ One(e)) ++ (q ++ b), Len(a ++ p) + 1, f)
        = ((a ++ p) ++ One(f)) ++ (q ++ b)
  BY <1>1, <1>3, ReplaceAtParts
<1>6. ASSUME NEW x \in S
      PROVE  (a ++ ((p ++ One(x)) ++ q)) ++ b = ((a ++ p) ++ One(x)) ++ (q ++ b)
  <2>1. One(x) \in Seq(S) /\ p ++ One(x) \in Seq(S)
    BY <1>1, OneProperties, RowProperties
  <2>2. (a ++ ((p ++ One(x)) ++ q)) ++ b = (a ++ (p ++ One(x))) ++ (q ++ b)
    BY <1>1, <2>1, FourInARow
  <2>3. a ++ (p ++ One(x)) = (a ++ p) ++ One(x)
    BY <1>1, <2>1, RowAssociative
  <2> QED BY <2>2, <2>3
<1>7. /\ (a ++ ((p ++ One(e)) ++ q)) ++ b = ((a ++ p) ++ One(e)) ++ (q ++ b)
      /\ (a ++ ((p ++ One(f)) ++ q)) ++ b = ((a ++ p) ++ One(f)) ++ (q ++ b)
  BY <1>1, <1>6
<1> QED BY <1>1, <1>2, <1>3, <1>4, <1>5, <1>7

-----------------------------------------------------------------------------
(* Loops, and recursions from the top down. *)

\* f is what a loop returns that goes on by step until it is in D, from each
\* of the states S it may begin in.
Loops(f, S, D, out, step) ==
  f = [s \in S |-> IF s \in D THEN out[s] ELSE f[step[s]]]

\* Every turn of the loop goes down in rank, which is K at most.
Terminates(S, D, step, rank, K) ==
  /\ K \in Nat /\ rank \in [S -> 0 .. K]
  /\ \A s \in S : s \notin D => step[s] \in S /\ rank[step[s]] < rank[s]

\* Such a loop returns something,
LEMMA LoopExists ==
  ASSUME NEW S, NEW D, NEW O, NEW out \in [S -> O], NEW step, NEW rank, NEW K,
         Terminates(S, D, step, rank, K)
  PROVE  \E f \in [S -> O] : Loops(f, S, D, out, step)
<1> DEFINE Low(k) == {s \in S : rank[s] < k}
           T == {k \in Nat : \E f \in [Low(k) -> O] : Loops(f, Low(k), D, out, step)}
<1>1. /\ K \in Nat /\ \A s \in S : rank[s] \in 0 .. K
      /\ \A s \in S : s \notin D => step[s] \in S /\ rank[step[s]] < rank[s]
  BY DEF Terminates
<1>2. 0 \in T
  <2>1. Low(0) = {}
    BY <1>1
  <2>2. [s \in {} |-> out[s]] \in [{} -> O]
    OBVIOUS
  <2>3. Loops([s \in {} |-> out[s]], {}, D, out, step)
    BY DEF Loops
  <2> QED BY <2>1, <2>2, <2>3
<1>3. ASSUME NEW k \in Nat, k \in T
      PROVE  k + 1 \in T
  <2>1. PICK f \in [Low(k) -> O] : Loops(f, Low(k), D, out, step)
    BY <1>3
  <2> DEFINE Value(s) == IF s \in D THEN out[s] ELSE f[step[s]]
             g == [s \in Low(k + 1) |-> Value(s)]
  <2>2. \A s \in Low(k + 1) : s \in S /\ (s \notin D => step[s] \in Low(k))
    BY <1>1
  <2>3. \A s \in Low(k) : f[s] = Value(s)
    BY <2>1 DEF Loops
  <2>4. g \in [Low(k + 1) -> O]
    BY <2>1, <2>2
  <2>5. \A s \in Low(k) : s \in Low(k + 1) /\ g[s] = f[s]
    BY <1>1, <2>3
  <2> HIDE DEF Low
  <2>6. g = [s \in Low(k + 1) |-> IF s \in D THEN out[s] ELSE g[step[s]]]
    BY <2>2, <2>5
  <2> HIDE DEF g
  <2>7. Loops(g, Low(k + 1), D, out, step)
    BY <2>6 DEF Loops
  <2> QED BY <2>4, <2>7
<1>4. K + 1 \in T
  <2> HIDE DEF T
  <2>1. Nat \subseteq T
    BY <1>2, <1>3, NaturalsInSet
  <2> QED BY <1>1, <2>1
<1>5. Low(K + 1) = S
  BY <1>1
<1> QED BY <1>4, <1>5

\* and what it returns is what a state in D gives that it can get to: one of
\* every set P that a turn does not leave.
LEMMA LoopEnds ==
  ASSUME NEW S, NEW D, NEW out, NEW step, NEW rank, NEW K,
         Terminates(S, D, step, rank, K),
         NEW f, Loops(f, S, D, out, step),
         NEW P \in SUBSET S, \A s \in P : s \notin D => step[s] \in P,
         NEW s0 \in P
  PROVE  \E d \in P : d \in D /\ f[s0] = out[d]
<1> DEFINE Ends(s) == \E d \in P : d \in D /\ f[s] = out[d]
           T == {k \in Nat : \A s \in P : rank[s] < k => Ends(s)}
<1>1. /\ K \in Nat /\ \A s \in S : rank[s] \in 0 .. K
      /\ \A s \in S : s \notin D => step[s] \in S /\ rank[step[s]] < rank[s]
  BY DEF Terminates
<1>2. \A s \in S : f[s] = IF s \in D THEN out[s] ELSE f[step[s]]
  BY DEF Loops
<1>3. 0 \in T
  BY <1>1
<1>4. ASSUME NEW k \in Nat, k \in T
      PROVE  k + 1 \in T
  <2>1. ASSUME NEW s \in P, rank[s] < k + 1
        PROVE  Ends(s)
    <3>1. CASE s \in D
      BY <1>2, <3>1
    <3>2. CASE s \notin D
      <4>1. step[s] \in P /\ rank[step[s]] < k /\ f[s] = f[step[s]]
        BY <1>1, <1>2, <2>1, <3>2
      <4>2. Ends(step[s])
        BY <1>4, <4>1
      <4> QED BY <4>1, <4>2
    <3> QED BY <3>1, <3>2
  <2> HIDE DEF Ends
  <2> QED BY <2>1
<1>5. K + 1 \in T
  <2>1. Nat \subseteq T
    <3> HIDE DEF T
    <3> QED BY <1>3, <1>4, NaturalsInSet
  <2> QED BY <1>1, <2>1
<1>6. rank[s0] < K + 1
  BY <1>1
<1> QED BY <1>5, <1>6

\* A set of numbers up to k has a greatest one, if it is not empty.
LEMMA GreatestIn ==
  ASSUME NEW k \in Int, NEW j \in Int, NEW S \in SUBSET (j .. k), S # {}
  PROVE  Max(S) \in S /\ \A x \in S : x <= Max(S)
<1> DEFINE T == {k - x : x \in S}
<1>1. T \in SUBSET Nat /\ T # {}
  OBVIOUS
<1>2. PICK n \in T : \A m \in T : n <= m
  BY <1>1, LeastNatural
<1>3. PICK y \in S : n = k - y
  BY <1>2
<1>4. \A x \in S : y >= x
  BY <1>2, <1>3
<1>5. \E x \in S : \A z \in S : x >= z
  BY <1>4
<1>6. Max(S) \in S /\ \A z \in S : Max(S) >= z
  BY <1>5, Zenon DEF Max
<1>7. \A x \in S : x \in Int
  OBVIOUS
<1> QED BY <1>6, <1>7

\* f is what a recursion from the top of an interval down gives.
Descends(f, low, top, base, step) ==
  f = [l \in low .. top |-> IF l = top THEN base ELSE step[<<l, f[l + 1]>>]]

\* There is such a function.
LEMMA DownwardExists ==
  ASSUME NEW low \in Int, NEW top \in Int, low <= top, NEW S, NEW base \in S,
         NEW step \in [(low .. top) \X S -> S]
  PROVE  \E f \in [low .. top -> S] : Descends(f, low, top, base, step)
<1> DEFINE up == [p \in Nat \X S |->
                    IF top - (p[1] + 1) \in low .. top
                    THEN step[<<top - (p[1] + 1), p[2]>>] ELSE base]
<1>1. up \in [Nat \X S -> S]
  OBVIOUS
<1>2. \A i \in Nat, s \in S :
        up[<<i, s>>] = IF top - (i + 1) \in low .. top
                       THEN step[<<top - (i + 1), s>>] ELSE base
  OBVIOUS
<1> HIDE DEF up
<1>3. PICK g \in [Nat -> S] : \A m \in Nat : Recurs(g, m, base, up)
  BY <1>1, RecursionExists
<1>4. g[0] = base /\ \A i \in Nat : g[i + 1] = up[<<i, g[i]>>]
  <2>1. ASSUME NEW i \in Nat PROVE g[i + 1] = up[<<i, g[i]>>]
    <3>1. Recurs(g, i + 1, base, up) /\ i \in 0 .. (i + 1) - 1
      BY <1>3
    <3> QED BY <3>1 DEF Recurs
  <2>2. Recurs(g, 0, base, up)
    BY <1>3
  <2> QED BY <2>1, <2>2 DEF Recurs
<1> DEFINE f == [l \in low .. top |-> g[top - l]]
<1>5. ASSUME NEW l \in low .. top
      PROVE  g[top - l] = IF l = top THEN base ELSE step[<<l, f[l + 1]>>]
  <2>1. CASE l = top
    BY <1>4, <2>1
  <2>2. CASE l # top
    <3>1. /\ top - (l + 1) \in Nat /\ l + 1 \in low .. top
          /\ (top - (l + 1)) + 1 = top - l
          /\ top - ((top - (l + 1)) + 1) = l
      BY <2>2
    <3>2. f[l + 1] = g[top - (l + 1)] /\ g[top - (l + 1)] \in S
      BY <1>3, <3>1
    <3> HIDE DEF f
    <3>3. g[top - l] = up[<<top - (l + 1), f[l + 1]>>]
      BY <1>4, <3>1, <3>2
    <3>4. up[<<top - (l + 1), f[l + 1]>>] = step[<<l, f[l + 1]>>]
      BY <1>2, <3>1, <3>2
    <3> QED BY <2>2, <3>3, <3>4
  <2> QED BY <2>1, <2>2
<1>6. \A l \in low .. top : top - l \in Nat
  OBVIOUS
<1>7. f \in [low .. top -> S]
  BY <1>3, <1>6
<1>8. Descends(f, low, top, base, step)
  BY <1>5 DEF Descends
<1> QED BY <1>7, <1>8

=============================================================================
