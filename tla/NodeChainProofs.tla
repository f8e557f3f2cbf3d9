-------------------------- MODULE NodeChainProofs ---------------------------
(***************************************************************************)
(* Proofs about NodeChain, for every node_size from 2 on, every set of     *)
(* pairs and every bound on their number: a node never holds more than     *)
(* node_size pairs, and only the last one less than half of that.          *)
(*                                                                         *)
(* TypeOK /\ HalfFull is inductive.  What needs an argument is that the    *)
(* bounds survive Balance, which is stated of the chain as a removal       *)
(* leaves it (LowAt): every node is in order but one.                      *)
(*                                                                         *)
(* The second half is about the pairs themselves: a call that splits,      *)
(* merges and refills nodes changes the list of all pairs at one place     *)
(* only, the one that it returns.                                          *)
(***************************************************************************)
EXTENDS NodeChain, SequenceLemmas

Chains == Seq(Seq(Pair))

Size(ch, c) == Len(ch[c])

\* TypeOK and HalfFull of a chain, node by node.
NodeInOrder(ch, c) ==
  /\ Size(ch, c) <= NodeSize
  /\ c < Len(ch) => Size(ch, c) >= Required
  /\ Len(ch) > 1 => Size(ch, c) > 0

InOrder(ch) ==
  /\ ch \in Chains /\ Len(ch) >= 1
  /\ \A c \in 1 .. Len(ch) : NodeInOrder(ch, c)

\* A chain that has just lost a pair of node low.
LowAt(ch, low) ==
  /\ ch \in Chains /\ low \in 1 .. Len(ch)
  /\ \A c \in 1 .. Len(ch) \ {low} : NodeInOrder(ch, c)
  /\ Size(ch, low) <= NodeSize
  /\ low < Len(ch) => Size(ch, low) >= Required - 1

\* node_size/2 is at least one pair, and two halves fit one node.
LEMMA RequiredBounds ==
  Required \in Nat /\ Required >= 1 /\ Required + Required <= NodeSize
BY NodeChainAssumption DEF Required

-----------------------------------------------------------------------------
(* Moving pairs between neighbours. *)

\* Merging node c with the next one: its size is the sum of theirs, and the
\* nodes after them move one place down.
LEMMA MergeProperties ==
  ASSUME NEW ch \in Chains, NEW c \in 1 .. Len(ch) - 1
  PROVE  /\ Merge(ch, c) \in Chains
         /\ Len(Merge(ch, c)) = Len(ch) - 1
         /\ \A d \in 1 .. c - 1 : Size(Merge(ch, c), d) = Size(ch, d)
         /\ Size(Merge(ch, c), c) = Size(ch, c) + Size(ch, c + 1)
         /\ \A d \in c + 1 .. Len(ch) - 1 : Size(Merge(ch, c), d) = Size(ch, d + 1)
<1> DEFINE both == ch[c] \o ch[c + 1]
           wide == [ch EXCEPT ![c] = both]
           at   == c + 1
<1>1. Len(ch) \in Nat /\ c \in 1 .. Len(ch) /\ c + 1 \in 1 .. Len(ch)
  BY LenProperties DEF Chains
<1>2. ch[c] \in Seq(Pair) /\ ch[c + 1] \in Seq(Pair)
  BY <1>1, ElementOfSeq DEF Chains
<1>3. both \in Seq(Pair) /\ Len(both) = Len(ch[c]) + Len(ch[c + 1])
  BY <1>2, ConcatProperties
<1> HIDE DEF both
<1>4. /\ wide \in Chains /\ Len(wide) = Len(ch)
      /\ \A d \in 1 .. Len(ch) : wide[d] = IF d = c THEN both ELSE ch[d]
  BY <1>1, <1>3, ExceptSeq DEF Chains
<1> HIDE DEF wide
<1>0. at \in 1 .. Len(wide)
  BY <1>1, <1>4
<1> HIDE DEF at
<1>5. /\ RemoveAt(wide, at) \in Chains
      /\ Len(RemoveAt(wide, at)) = Len(ch) - 1
      /\ \A d \in 1 .. Len(ch) - 1 :
           RemoveAt(wide, at)[d] = IF d < at THEN wide[d] ELSE wide[d + 1]
  <2>1. /\ RemoveAt(wide, at) \in Chains
        /\ Len(RemoveAt(wide, at)) = Len(wide) - 1
        /\ \A d \in 1 .. Len(wide) - 1 :
             RemoveAt(wide, at)[d] = IF d < at THEN wide[d] ELSE wide[d + 1]
    BY <1>0, <1>4, RemoveAtProperties DEF Chains
  <2> QED BY <1>4, <2>1
<1>6. Merge(ch, c) = RemoveAt(wide, at)
  BY DEF Merge, wide, both, at
<1>7. ASSUME NEW d \in 1 .. c - 1
      PROVE  RemoveAt(wide, at)[d] = ch[d]
  BY <1>1, <1>4, <1>5 DEF at
<1>8. RemoveAt(wide, at)[c] = both
  BY <1>1, <1>4, <1>5 DEF at
<1>9. ASSUME NEW d \in c + 1 .. Len(ch) - 1
      PROVE  RemoveAt(wide, at)[d] = ch[d + 1]
  BY <1>1, <1>4, <1>5 DEF at
<1> QED BY <1>3, <1>5, <1>6, <1>7, <1>8, <1>9 DEF Size

\* Refilling node c from the next one, which keeps Required pairs.
LEMMA RefillProperties ==
  ASSUME NEW ch \in Chains, NEW c \in 1 .. Len(ch) - 1,
         Size(ch, c + 1) >= Required
  PROVE  /\ Refill(ch, c) \in Chains
         /\ Len(Refill(ch, c)) = Len(ch)
         /\ \A d \in 1 .. Len(ch) :
              Size(Refill(ch, c), d) =
                IF d = c THEN Size(ch, c) + Size(ch, c + 1) - Required
                ELSE IF d = c + 1 THEN Required
                ELSE Size(ch, d)
<1> DEFINE next == ch[c + 1]
           k    == Len(next) - Required
           more == ch[c] \o SubSeq(next, 1, k)
           rest == SubSeq(next, k + 1, Len(next))
           wide == [ch EXCEPT ![c] = more]
           at   == c + 1
<1>1. Len(ch) \in Nat /\ c \in 1 .. Len(ch) /\ c + 1 \in 1 .. Len(ch) /\ c # c + 1
  BY LenProperties DEF Chains
<1>2. ch[c] \in Seq(Pair) /\ next \in Seq(Pair)
  BY <1>1, ElementOfSeq DEF Chains
<1>3. Len(ch[c]) \in Nat /\ Len(next) \in Nat /\ k \in 0 .. Len(next)
  BY <1>2, LenProperties, RequiredBounds DEF Size
<1>4. /\ SubSeq(next, 1, k) \in Seq(Pair) /\ Len(SubSeq(next, 1, k)) = k
      /\ rest \in Seq(Pair) /\ Len(rest) = Required
  <2>1. /\ SubSeq(next, 1, k) \in Seq(Pair) /\ Len(SubSeq(next, 1, k)) = k
        /\ rest \in Seq(Pair) /\ Len(rest) = Len(next) - k
    BY <1>2, <1>3, CutProperties
  <2> QED BY <1>3, <2>1, RequiredBounds
<1>5. more \in Seq(Pair) /\ Len(more) = Len(ch[c]) + k
  BY <1>2, <1>4, ConcatProperties
<1>6. Refill(ch, c) = [wide EXCEPT ![at] = rest]
  BY <1>1 DEF Refill, Chains
<1> HIDE DEF more, rest
<1>7. /\ wide \in Chains /\ Len(wide) = Len(ch)
      /\ \A d \in 1 .. Len(ch) : wide[d] = IF d = c THEN more ELSE ch[d]
  BY <1>1, <1>5, ExceptSeq DEF Chains
<1> HIDE DEF wide
<1>8. /\ Refill(ch, c) \in Chains /\ Len(Refill(ch, c)) = Len(ch)
      /\ \A d \in 1 .. Len(ch) :
           Refill(ch, c)[d] = IF d = at THEN rest ELSE wide[d]
  <2>1. at \in 1 .. Len(wide)
    BY <1>1, <1>7
  <2> HIDE DEF at
  <2>2. /\ [wide EXCEPT ![at] = rest] \in Seq(Seq(Pair))
        /\ Len([wide EXCEPT ![at] = rest]) = Len(wide)
        /\ \A d \in 1 .. Len(wide) :
             [wide EXCEPT ![at] = rest][d] = IF d = at THEN rest ELSE wide[d]
    BY <1>4, <1>7, <2>1, ExceptSeq DEF Chains
  <2> QED BY <1>6, <1>7, <2>2 DEF Chains
<1>9. ASSUME NEW d \in 1 .. Len(ch)
      PROVE  Len(Refill(ch, c)[d]) =
                IF d = c THEN Len(ch[c]) + Len(ch[c + 1]) - Required
                ELSE IF d = c + 1 THEN Required
                ELSE Len(ch[d])
  <2>1. CASE d = c
    <3>1. Refill(ch, c)[d] = more
      BY <1>1, <1>7, <1>8, <2>1
    <3> QED BY <1>3, <1>5, <2>1, <3>1, RequiredBounds
  <2>2. CASE d = c + 1
    <3>1. Refill(ch, c)[d] = rest
      BY <1>1, <1>8, <2>2
    <3> QED BY <1>1, <1>4, <2>2, <3>1
  <2>3. CASE d # c /\ d # c + 1
    <3>1. Refill(ch, c)[d] = ch[d]
      BY <1>7, <1>8, <2>3
    <3> QED BY <2>3, <3>1
  <2> QED BY <2>1, <2>2, <2>3
<1> QED BY <1>8, <1>9 DEF Size

\* Balance puts the node that lost a pair in order again, or moves its pairs
\* to a neighbour, and leaves no other node out of order.
LEMMA BalanceInOrder ==
  ASSUME NEW ch, NEW c, LowAt(ch, c)
  PROVE  InOrder(Balance(ch, c))
<1>1. /\ ch \in Chains /\ Len(ch) \in Nat /\ c \in 1 .. Len(ch)
      /\ \A d \in 1 .. Len(ch) : Size(ch, d) \in Nat
  BY LenProperties, ElementOfSeq DEF LowAt, Chains, Size
<1>2. /\ NodeSize \in Nat /\ Required \in Nat
      /\ Required >= 1 /\ Required + Required <= NodeSize
  BY NodeChainAssumption, RequiredBounds
<1>3. /\ Len(ch) = 1 => ~ (c < Len(ch)) /\ ~ (Len(ch) > 1)
      /\ Len(ch) # 1 => Len(ch) > 1
  <2> DEFINE n == Len(ch)
  <2>1. n \in Nat /\ c \in 1 .. n
    BY <1>1
  <2> HIDE DEF n
  <2>2. /\ n = 1 => ~ (c < n) /\ ~ (n > 1)
        /\ n # 1 => n > 1
    BY <2>1
  <2> QED BY <2>2, Zenon DEF n
<1>4. CASE Size(ch, c) >= Required \/ Len(ch) = 1
  <2>1. Balance(ch, c) = ch
    BY <1>4 DEF Balance, Size
  <2>2. NodeInOrder(ch, c)
    <3>1. CASE Size(ch, c) >= Required
      BY <1>1, <1>2, <3>1 DEF LowAt, NodeInOrder
    <3>2. CASE Len(ch) = 1
      BY <1>3, <3>2, Zenon DEF LowAt, NodeInOrder
    <3> QED BY <1>4, <3>1, <3>2
  <2> QED BY <1>1, <2>1, <2>2 DEF LowAt, InOrder
<1>5. CASE ~ (Size(ch, c) >= Required \/ Len(ch) = 1) /\ c < Len(ch)
  <2>1. Balance(ch, c) = MergeOrRefill(ch, c)
    BY <1>5 DEF Balance, Size
  <2>2. c \in 1 .. Len(ch) - 1 /\ c + 1 \in 1 .. Len(ch) \ {c}
    BY <1>1, <1>5
  <2>3. Size(ch, c) = Required - 1
    BY <1>1, <1>2, <1>5 DEF LowAt
  <2>4. /\ Size(ch, c + 1) > 0 /\ Size(ch, c + 1) <= NodeSize
        /\ c + 1 < Len(ch) => Size(ch, c + 1) >= Required
    BY <1>5, <2>2 DEF LowAt, NodeInOrder
  <2>5. CASE Size(ch, c) + Size(ch, c + 1) <= NodeSize
    <3>1. MergeOrRefill(ch, c) = Merge(ch, c)
      BY <2>5 DEF MergeOrRefill, Size
    <3>2. ASSUME NEW d \in 1 .. Len(ch) - 1
          PROVE  NodeInOrder(Merge(ch, c), d)
      <4>1. CASE d \in 1 .. c - 1
        <5>1. d \in 1 .. Len(ch) \ {c} /\ d < Len(ch)
          BY <1>1, <4>1
        <5>2. NodeInOrder(ch, d)
          BY <5>1 DEF LowAt
        <5> QED BY <1>1, <1>5, <2>2, <4>1, <5>1, <5>2, MergeProperties DEF NodeInOrder
      <4>2. CASE d = c
        <5>1. /\ Len(Merge(ch, c)) = Len(ch) - 1
              /\ Size(Merge(ch, c), d) = Size(ch, c) + Size(ch, c + 1)
          BY <1>1, <2>2, <4>2, MergeProperties
        <5>2. Size(ch, c + 1) \in Nat
          BY <1>1, <2>2
        <5>3. c < Len(ch) - 1 => c + 1 < Len(ch)
          BY <1>1
        <5> QED BY <1>1, <1>2, <2>3, <2>4, <2>5, <4>2, <5>1, <5>2, <5>3 DEF NodeInOrder
      <4>3. CASE d \in c + 1 .. Len(ch) - 1
        <5>1. d + 1 \in 1 .. Len(ch) \ {c}
          BY <1>1, <4>3
        <5>2. NodeInOrder(ch, d + 1)
          BY <5>1 DEF LowAt
        <5>3. /\ Len(Merge(ch, c)) = Len(ch) - 1
              /\ Size(Merge(ch, c), d) = Size(ch, d + 1)
          BY <1>1, <2>2, <4>3, MergeProperties
        <5> QED BY <1>1, <1>5, <4>3, <5>2, <5>3 DEF NodeInOrder
      <4> QED BY <1>1, <4>1, <4>2, <4>3
    <3>3. Merge(ch, c) \in Chains /\ Len(Merge(ch, c)) = Len(ch) - 1
      BY <1>1, <2>2, MergeProperties
    <3> QED BY <1>1, <1>5, <2>1, <3>1, <3>2, <3>3 DEF InOrder
  <2>6. CASE ~ (Size(ch, c) + Size(ch, c + 1) <= NodeSize)
    <3>1. MergeOrRefill(ch, c) = Refill(ch, c)
      BY <2>6 DEF MergeOrRefill, Size
    <3>2. Size(ch, c + 1) \in Nat /\ Size(ch, c + 1) >= Required
      BY <1>1, <1>2, <2>2, <2>3, <2>6
    <3>3. /\ Refill(ch, c) \in Chains
          /\ Len(Refill(ch, c)) = Len(ch)
          /\ \A d \in 1 .. Len(ch) :
               Size(Refill(ch, c), d) =
                 IF d = c THEN Size(ch, c) + Size(ch, c + 1) - Required
                 ELSE IF d = c + 1 THEN Required
                 ELSE Size(ch, d)
      BY <1>1, <2>2, <3>2, RefillProperties
    <3>4. ASSUME NEW d \in 1 .. Len(ch)
          PROVE  NodeInOrder(Refill(ch, c), d)
      <4>1. CASE d = c
        <5>1. Size(Refill(ch, c), d) = Size(ch, c + 1) - 1
          BY <1>1, <1>2, <2>3, <3>2, <3>3, <4>1
        <5> QED BY <1>2, <2>3, <2>4, <2>6, <3>2, <5>1 DEF NodeInOrder
      <4>2. CASE d = c + 1
        <5>1. Size(Refill(ch, c), d) = Required
          BY <1>1, <3>3, <4>2
        <5> QED BY <1>2, <5>1 DEF NodeInOrder
      <4>3. CASE d # c /\ d # c + 1
        <5>1. Size(Refill(ch, c), d) = Size(ch, d)
          BY <3>3, <4>3
        <5> QED BY <3>3, <4>3, <5>1 DEF LowAt, NodeInOrder
      <4> QED BY <4>1, <4>2, <4>3
    <3> QED BY <1>1, <1>5, <2>1, <3>1, <3>3, <3>4 DEF InOrder
  <2> QED BY <2>5, <2>6
<1>6. CASE ~ (Size(ch, c) >= Required \/ Len(ch) = 1) /\ ~ (c < Len(ch))
  <2>1. Balance(ch, c) = MergeBack(ch, c)
    BY <1>6 DEF Balance, Size
  <2>2. c - 1 \in 1 .. Len(ch) - 1 /\ c - 1 \in 1 .. Len(ch) \ {c} /\ c - 1 + 1 = c
    <3>1. Len(ch) > 1
      BY <1>3, <1>6, Zenon
    <3> QED BY <1>1, <1>6, <3>1
  <2>3. /\ Size(ch, c - 1) \in Nat /\ Size(ch, c - 1) <= NodeSize
        /\ Size(ch, c - 1) >= Required
    BY <1>1, <1>6, <2>2 DEF LowAt, NodeInOrder
  <2>4. CASE Size(ch, c - 1) + Size(ch, c) <= NodeSize
    <3>1. MergeBack(ch, c) = Merge(ch, c - 1)
      BY <2>4 DEF MergeBack, Size
    <3>2. /\ Merge(ch, c - 1) \in Chains
          /\ Len(Merge(ch, c - 1)) = Len(ch) - 1
          /\ \A d \in 1 .. c - 1 - 1 : Size(Merge(ch, c - 1), d) = Size(ch, d)
          /\ Size(Merge(ch, c - 1), c - 1) = Size(ch, c - 1) + Size(ch, c)
      <4>1. /\ Merge(ch, c - 1) \in Chains
            /\ Len(Merge(ch, c - 1)) = Len(ch) - 1
            /\ \A d \in 1 .. c - 1 - 1 : Size(Merge(ch, c - 1), d) = Size(ch, d)
            /\ Size(Merge(ch, c - 1), c - 1) = Size(ch, c - 1) + Size(ch, c - 1 + 1)
        BY <1>1, <2>2, MergeProperties
      <4> QED BY <2>2, <4>1
    <3>3. ASSUME NEW d \in 1 .. Len(ch) - 1
          PROVE  NodeInOrder(Merge(ch, c - 1), d)
      <4>1. CASE d \in 1 .. c - 1 - 1
        <5>1. d \in 1 .. Len(ch) \ {c} /\ d < Len(ch)
          BY <1>1, <1>6, <4>1
        <5>2. NodeInOrder(ch, d)
          BY <5>1 DEF LowAt
        <5> QED BY <1>1, <1>6, <3>2, <4>1, <5>1, <5>2 DEF NodeInOrder
      <4>2. CASE d = c - 1
        <5>1. Size(Merge(ch, c - 1), d) = Size(ch, c - 1) + Size(ch, c)
          BY <3>2, <4>2
        <5>2. Size(ch, c - 1) + Size(ch, c) > 0
          BY <1>1, <1>2, <2>3
        <5>3. ~ (d < Len(Merge(ch, c - 1)))
          BY <1>1, <1>6, <3>2, <4>2
        <5> QED BY <2>4, <5>1, <5>2, <5>3 DEF NodeInOrder
      <4> QED BY <1>1, <1>6, <4>1, <4>2
    <3> QED BY <1>1, <1>6, <2>1, <3>1, <3>2, <3>3 DEF InOrder
  <2>5. CASE ~ (Size(ch, c - 1) + Size(ch, c) <= NodeSize)
    <3>1. MergeBack(ch, c) = ch
      BY <2>5 DEF MergeBack, Size
    <3>2. NodeInOrder(ch, c)
      <4>1. Size(ch, c) > 0
        BY <1>1, <1>2, <2>3, <2>5
      <4> QED BY <1>6, <4>1 DEF LowAt, NodeInOrder
    <3> QED BY <1>1, <2>1, <3>1, <3>2 DEF LowAt, InOrder
  <2> QED BY <2>4, <2>5
<1> QED BY <1>4, <1>5, <1>6

-----------------------------------------------------------------------------
(* The chain after each kind of change. *)

\* Writing another node in the place of node c.
LEMMA ReplaceNode ==
  ASSUME NEW ch \in Chains, NEW c \in 1 .. Len(ch), NEW node \in Seq(Pair)
  PROVE  /\ [ch EXCEPT ![c] = node] \in Chains
         /\ Len([ch EXCEPT ![c] = node]) = Len(ch)
         /\ Size([ch EXCEPT ![c] = node], c) = Len(node)
         /\ \A d \in 1 .. Len(ch) \ {c} :
              Size([ch EXCEPT ![c] = node], d) = Size(ch, d)
<1> DEFINE new == [ch EXCEPT ![c] = node]
<1>1. /\ new \in Chains /\ Len(new) = Len(ch)
      /\ \A d \in 1 .. Len(ch) : new[d] = IF d = c THEN node ELSE ch[d]
  BY ExceptSeq DEF Chains
<1> HIDE DEF new
<1>2. /\ Size(new, c) = Len(node)
      /\ \A d \in 1 .. Len(ch) \ {c} : Size(new, d) = Size(ch, d)
  BY <1>1 DEF Size
<1> QED BY <1>1, <1>2 DEF new

\* A node that stays in its bounds may be replaced.
LEMMA ReplaceInOrder ==
  ASSUME NEW ch, InOrder(ch), NEW c \in 1 .. Len(ch), NEW node \in Seq(Pair),
         Len(node) <= NodeSize,
         c < Len(ch) => Len(node) >= Required,
         Len(ch) > 1 => Len(node) > 0
  PROVE  InOrder([ch EXCEPT ![c] = node])
<1> DEFINE new == [ch EXCEPT ![c] = node]
<1>1. ch \in Chains /\ Len(ch) >= 1
  BY DEF InOrder
<1>2. /\ new \in Chains /\ Len(new) = Len(ch)
      /\ Size(new, c) = Len(node)
      /\ \A d \in 1 .. Len(ch) \ {c} : Size(new, d) = Size(ch, d)
  BY <1>1, ReplaceNode
<1> HIDE DEF new
<1>3. ASSUME NEW d \in 1 .. Len(ch)
      PROVE  NodeInOrder(new, d)
  <2>1. CASE d = c
    BY <1>2, <2>1 DEF NodeInOrder
  <2>2. CASE d # c
    BY <1>2, <2>2 DEF InOrder, NodeInOrder
  <2> QED BY <2>1, <2>2
<1>4. InOrder(new)
  BY <1>1, <1>2, <1>3 DEF InOrder
<1> QED BY <1>4 DEF new

\* Taking a pair out of node c.
LEMMA RemovedLowAt ==
  ASSUME InOrder(chain), NEW c \in 1 .. Len(chain), NEW index \in Nat,
         index < Count(c)
  PROVE  LowAt(Removed(c, index), c)
<1> DEFINE node == RemoveAt(chain[c], index + 1)
           new  == [chain EXCEPT ![c] = node]
<1>1. chain \in Chains /\ \A d \in 1 .. Len(chain) : NodeInOrder(chain, d)
  BY DEF InOrder
<1>2. chain[c] \in Seq(Pair)
  BY <1>1, ElementOfSeq DEF Chains
<1>3. Size(chain, c) \in Nat /\ index + 1 \in 1 .. Len(chain[c])
  BY <1>2, LenProperties DEF Size, Count
<1>4. node \in Seq(Pair) /\ Len(node) = Size(chain, c) - 1
  BY <1>2, <1>3, RemoveAtProperties DEF Size
<1> HIDE DEF node
<1>5. /\ new \in Chains /\ Len(new) = Len(chain)
      /\ Size(new, c) = Len(node)
      /\ \A d \in 1 .. Len(chain) \ {c} : Size(new, d) = Size(chain, d)
  BY <1>1, <1>4, ReplaceNode
<1> HIDE DEF new
<1>6. Removed(c, index) = new
  BY DEF Removed, new, node
<1>7. ASSUME NEW d \in 1 .. Len(chain) \ {c}
      PROVE  NodeInOrder(new, d)
  BY <1>1, <1>5 DEF NodeInOrder
<1>8. /\ Size(new, c) <= NodeSize
      /\ c < Len(new) => Size(new, c) >= Required - 1
  BY <1>1, <1>3, <1>4, <1>5, NodeChainAssumption, RequiredBounds DEF NodeInOrder
<1> QED BY <1>5, <1>6, <1>7, <1>8 DEF LowAt

\* Writing two nodes in the place of node c, each at least half full.
LEMMA SplitInOrder ==
  ASSUME NEW ch, InOrder(ch), NEW c \in 1 .. Len(ch),
         NEW low \in Seq(Pair), NEW high \in Seq(Pair),
         Len(low) >= Required, Len(low) <= NodeSize,
         Len(high) >= Required, Len(high) <= NodeSize
  PROVE  InOrder(InsertAt([ch EXCEPT ![c] = low], c + 1, high))
<1> DEFINE wide == [ch EXCEPT ![c] = low]
           new  == InsertAt(wide, c + 1, high)
<1>1. /\ ch \in Chains /\ Len(ch) \in Nat /\ c + 1 \in 1 .. Len(ch) + 1
      /\ \A d \in 1 .. Len(ch) : NodeInOrder(ch, d)
  BY LenProperties DEF InOrder, Chains
<1>2. Len(low) > 0 /\ Len(high) > 0
  <2>1. Len(low) \in Nat /\ Len(high) \in Nat
    BY LenProperties
  <2> QED BY <2>1, RequiredBounds
<1>3. /\ wide \in Chains /\ Len(wide) = Len(ch)
      /\ \A d \in 1 .. Len(ch) : wide[d] = IF d = c THEN low ELSE ch[d]
  BY <1>1, ExceptSeq DEF Chains
<1> HIDE DEF wide
<1>4. /\ new \in Chains /\ Len(new) = Len(ch) + 1
      /\ \A d \in 1 .. Len(ch) + 1 :
           new[d] = IF d < c + 1 THEN wide[d]
                    ELSE IF d = c + 1 THEN high ELSE wide[d - 1]
  <2> DEFINE at == c + 1
  <2>1. wide \in Seq(Seq(Pair)) /\ at \in 1 .. Len(wide) + 1
    BY <1>1, <1>3 DEF Chains
  <2> HIDE DEF at
  <2>2. /\ InsertAt(wide, at, high) \in Seq(Seq(Pair))
        /\ Len(InsertAt(wide, at, high)) = Len(wide) + 1
        /\ \A d \in 1 .. Len(wide) + 1 :
             InsertAt(wide, at, high)[d] =
               IF d < at THEN wide[d] ELSE IF d = at THEN high ELSE wide[d - 1]
    BY <2>1, InsertAtProperties
  <2> QED BY <1>3, <2>2 DEF Chains, at
<1> HIDE DEF new
<1>5. ASSUME NEW d \in 1 .. Len(ch) + 1
      PROVE  NodeInOrder(new, d)
  <2>1. CASE d < c
    <3>1. new[d] = ch[d]
      BY <1>1, <1>3, <1>4, <2>1
    <3>2. d \in 1 .. Len(ch) /\ d < Len(ch) /\ Len(ch) > 1
      BY <1>1, <2>1
    <3> QED BY <1>1, <3>1, <3>2 DEF NodeInOrder, Size
  <2>2. CASE d = c
    <3>1. new[d] = low
      BY <1>1, <1>3, <1>4, <2>2
    <3> QED BY <1>2, <3>1 DEF NodeInOrder, Size
  <2>3. CASE d = c + 1
    <3>1. new[d] = high
      BY <1>1, <1>4, <2>3
    <3> QED BY <1>2, <3>1 DEF NodeInOrder, Size
  <2>4. CASE d > c + 1
    <3>1. new[d] = ch[d - 1]
      BY <1>1, <1>3, <1>4, <2>4
    <3>2. /\ d - 1 \in 1 .. Len(ch) /\ Len(ch) > 1
          /\ d < Len(ch) + 1 => d - 1 < Len(ch)
      BY <1>1, <2>4
    <3> QED BY <1>1, <1>4, <3>1, <3>2 DEF NodeInOrder, Size
  <2> QED BY <1>1, <2>1, <2>2, <2>3, <2>4
<1>6. InOrder(new)
  BY <1>1, <1>4, <1>5 DEF InOrder
<1> QED BY <1>6 DEF new, wide

-----------------------------------------------------------------------------
(* The calls. *)

\* What the theorems rest on: the two invariants, node by node.
Inv == InOrder(chain) /\ out \subseteq Pair

\* The invariant says just what the two properties say.
LEMMA InvIsTypeOKAndHalfFull ==
  Inv <=> TypeOK /\ HalfFull
BY DEF Inv, InOrder, NodeInOrder, Size, Chains, TypeOK, HalfFull, Count

\* The pairs of a node in order, and how many they are.
LEMMA NodeFacts ==
  ASSUME InOrder(chain), NEW c \in 1 .. Len(chain)
  PROVE  /\ chain \in Chains /\ chain[c] \in Seq(Pair)
         /\ Count(c) \in Nat /\ Count(c) <= NodeSize
         /\ c < Len(chain) => Count(c) >= Required
         /\ Len(chain) > 1 => Count(c) > 0
         /\ \A index \in Nat : index < Count(c) => chain[c][index + 1] \in Pair
<1>1. chain \in Chains /\ chain[c] \in Seq(Pair) /\ NodeInOrder(chain, c)
  BY ElementOfSeq DEF InOrder, Chains
<1>2. Len(chain[c]) \in Nat /\ \A j \in 1 .. Len(chain[c]) : chain[c][j] \in Pair
  BY <1>1, LenProperties, ElementOfSeq
<1>3. \A index \in Nat : index < Len(chain[c]) => index + 1 \in 1 .. Len(chain[c])
  BY <1>2
<1> QED BY <1>1, <1>2, <1>3 DEF NodeInOrder, Size, Count

\* An insertion with room in the node.
LEMMA InsertKeepsOrder ==
  ASSUME InOrder(chain), NEW c \in 1 .. Len(chain), NEW index \in 0 .. Count(c),
         NEW pair \in Pair, Insert(c, index, pair)
  PROVE  InOrder(chain')
<1> DEFINE node == InsertAt(chain[c], index + 1, pair)
<1>1. /\ chain \in Chains /\ chain[c] \in Seq(Pair)
      /\ Count(c) \in Nat /\ Count(c) < NodeSize
      /\ c < Len(chain) => Count(c) >= Required
  BY NodeFacts DEF Insert
<1>2. index + 1 \in 1 .. Len(chain[c]) + 1
  BY <1>1 DEF Count
<1>3. node \in Seq(Pair) /\ Len(node) = Count(c) + 1
  BY <1>1, <1>2, InsertAtProperties DEF Count
<1> HIDE DEF node
<1>4. /\ Len(node) <= NodeSize
      /\ c < Len(chain) => Len(node) >= Required
      /\ Len(node) > 0
  BY <1>1, <1>3, NodeChainAssumption, RequiredBounds
<1>5. chain' = [chain EXCEPT ![c] = node]
  BY DEF Insert, node
<1> QED BY <1>3, <1>4, <1>5, ReplaceInOrder

\* An insertion that splits a full node: both halves are half full at least.
LEMMA SplitKeepsOrder ==
  ASSUME InOrder(chain), NEW c \in 1 .. Len(chain), NEW index \in 0 .. Count(c),
         NEW pair \in Pair, SplitAndInsert(c, index, pair)
  PROVE  InOrder(chain')
<1> DEFINE low  == SubSeq(chain[c], 1, Kept)
           high == SubSeq(chain[c], Kept + 1, NodeSize)
<1>1. chain[c] \in Seq(Pair) /\ Count(c) = NodeSize
  BY NodeFacts DEF SplitAndInsert
<1>2. /\ NodeSize \in Nat /\ Required \in Nat /\ Kept = NodeSize - Required
      /\ Required >= 1 /\ Required + Required <= NodeSize
  BY NodeChainAssumption, RequiredBounds DEF Kept, Required
<1>3. /\ Kept \in 0 .. NodeSize /\ Kept >= Required /\ Kept + 1 <= NodeSize
      /\ Required + 1 <= NodeSize /\ NodeSize - Kept = Required
  BY <1>2
<1>4. /\ low \in Seq(Pair) /\ Len(low) = Kept
      /\ high \in Seq(Pair) /\ Len(high) = Required
  <2>1. Kept \in 0 .. Len(chain[c]) /\ NodeSize = Len(chain[c])
    BY <1>1, <1>3 DEF Count
  <2>2. /\ low \in Seq(Pair) /\ Len(low) = Kept
        /\ SubSeq(chain[c], Kept + 1, Len(chain[c])) \in Seq(Pair)
        /\ Len(SubSeq(chain[c], Kept + 1, Len(chain[c]))) = Len(chain[c]) - Kept
    BY <1>1, <2>1, CutProperties
  <2> QED BY <1>3, <2>1, <2>2
<1>5. CASE /\ index <= Kept
           /\ chain' = InsertAt([chain EXCEPT ![c] = InsertAt(low, index + 1, pair)],
                                c + 1, high)
  <2> HIDE DEF low, high
  <2>1. index + 1 \in 1 .. Len(low) + 1
    BY <1>1, <1>2, <1>4, <1>5
  <2>2. /\ InsertAt(low, index + 1, pair) \in Seq(Pair)
        /\ Len(InsertAt(low, index + 1, pair)) = Kept + 1
    <3> DEFINE place == index + 1
    <3>1. place \in 1 .. Len(low) + 1
      BY <2>1
    <3> HIDE DEF place
    <3>2. low \in Seq(Pair) /\ pair \in Pair
      BY <1>4
    <3>3. /\ InsertAt(low, place, pair) \in Seq(Pair)
          /\ Len(InsertAt(low, place, pair)) = Len(low) + 1
      BY ONLY <3>1, <3>2, InsertAtProperties
    <3> QED BY <1>4, <3>3 DEF place
  <2>3. Kept + 1 >= Required /\ Required >= Required /\ Required <= NodeSize
    BY <1>2, <1>3
  <2> QED BY <1>3, <1>4, <1>5, <2>2, <2>3, SplitInOrder
<1>6. CASE /\ index > Kept
           /\ chain' = InsertAt([chain EXCEPT ![c] = low],
                                c + 1, InsertAt(high, index - Kept + 1, pair))
  <2> HIDE DEF low, high
  <2> DEFINE at == index - Kept + 1
  <2>1. at \in 1 .. Len(high) + 1
    BY <1>1, <1>2, <1>3, <1>4, <1>6
  <2> HIDE DEF at
  <2>2. /\ InsertAt(high, at, pair) \in Seq(Pair)
        /\ Len(InsertAt(high, at, pair)) = Required + 1
    <3>1. high \in Seq(Pair)
      BY <1>4
    <3>2. /\ InsertAt(high, at, pair) \in Seq(Pair)
          /\ Len(InsertAt(high, at, pair)) = Len(high) + 1
      BY <2>1, <3>1, InsertAtProperties
    <3> QED BY <1>4, <3>2
  <2>3. Required + 1 >= Required /\ Kept <= NodeSize
    BY <1>2, <1>3
  <2>4. chain' = InsertAt([chain EXCEPT ![c] = low], c + 1, InsertAt(high, at, pair))
    BY <1>6 DEF at
  <2> QED BY <1>3, <1>4, <2>2, <2>3, <2>4, SplitInOrder
<1> QED BY <1>5, <1>6 DEF SplitAndInsert

\* A removal followed by Balance.
LEMMA RemovalKeepsOrder ==
  ASSUME InOrder(chain), NEW c \in 1 .. Len(chain), NEW index \in Nat,
         index < Count(c), chain' = Balance(Removed(c, index), c)
  PROVE  InOrder(chain')
<1>1. LowAt(Removed(c, index), c)
  BY RemovedLowAt
<1>2. InOrder(Balance(Removed(c, index), c))
  BY <1>1, BalanceInOrder
<1> QED BY <1>2

\* Popping the last pair, which empties no node but the only one.
LEMMA PopLastKeepsOrder ==
  ASSUME InOrder(chain), PopLast
  PROVE  InOrder(chain')
<1> DEFINE last  == Len(chain)
           index == Count(last) - 1
<1>1. /\ chain \in Chains /\ last \in Nat /\ last >= 1 /\ last \in 1 .. Len(chain)
      /\ \A d \in 1 .. last : NodeInOrder(chain, d)
  BY LenProperties DEF InOrder, Chains
<1>2. /\ chain[last] \in Seq(Pair) /\ Count(last) \in Nat /\ Count(last) <= NodeSize
  BY <1>1, NodeFacts
<1>3. index \in Nat /\ index < Count(last)
  BY <1>2 DEF PopLast
<1>4. CASE index = 0 /\ last > 1
  <2>1. chain' = RemoveAt(chain, last)
    BY <1>4 DEF PopLast
  <2>2. /\ RemoveAt(chain, last) \in Chains /\ Len(RemoveAt(chain, last)) = last - 1
        /\ \A d \in 1 .. last - 1 :
             RemoveAt(chain, last)[d] = IF d < last THEN chain[d] ELSE chain[d + 1]
    BY <1>1, RemoveAtProperties DEF Chains
  <2>3. ASSUME NEW d \in 1 .. last - 1
        PROVE  NodeInOrder(RemoveAt(chain, last), d)
    <3>1. d \in 1 .. last /\ d < last
      BY <1>1
    <3>2. Size(RemoveAt(chain, last), d) = Size(chain, d)
      BY <2>2, <3>1 DEF Size
    <3>3. NodeInOrder(chain, d)
      BY <1>1, <3>1
    <3> QED BY <1>4, <3>1, <3>2, <3>3 DEF NodeInOrder
  <2> QED BY <1>1, <1>4, <2>1, <2>2, <2>3 DEF InOrder
<1>5. CASE ~ (index = 0 /\ last > 1)
  <2>1. chain' = Removed(last, index)
    BY <1>5 DEF PopLast
  <2> DEFINE node == RemoveAt(chain[last], index + 1)
  <2>2. index + 1 \in 1 .. Len(chain[last])
    BY <1>2, <1>3 DEF Count
  <2>3. node \in Seq(Pair) /\ Len(node) = index
    <3>1. node \in Seq(Pair) /\ Len(node) = Len(chain[last]) - 1
      BY <1>2, <2>2, RemoveAtProperties
    <3> QED BY <3>1 DEF Count
  <2>4. chain' = [chain EXCEPT ![last] = node]
    BY <2>1 DEF Removed
  <2>5. Len(node) <= NodeSize /\ ~ (last < Len(chain))
    BY <1>1, <1>2, <1>3, <2>3, NodeChainAssumption
  <2>6. last > 1 => Len(node) > 0
    <3> HIDE DEF node, index, last
    <3>1. last > 1 => index > 0
      BY <1>3, <1>5
    <3> QED BY <2>3, <3>1
  <2> QED BY <1>1, <2>3, <2>4, <2>5, <2>6, ReplaceInOrder
<1> QED BY <1>4, <1>5

\* Rebinding a pair.
LEMMA RebindKeepsOrder ==
  ASSUME InOrder(chain), NEW c \in 1 .. Len(chain), NEW index \in Nat,
         NEW pair \in Pair, Rebind(c, index, pair)
  PROVE  InOrder(chain')
<1> DEFINE node == [chain[c] EXCEPT ![index + 1] = pair]
<1>1. /\ chain \in Chains /\ chain[c] \in Seq(Pair) /\ Count(c) \in Nat
      /\ Count(c) <= NodeSize
      /\ c < Len(chain) => Count(c) >= Required
      /\ Len(chain) > 1 => Count(c) > 0
  BY NodeFacts
<1>2. index + 1 \in 1 .. Len(chain[c])
  BY <1>1 DEF Rebind, Count
<1>3. node \in Seq(Pair) /\ Len(node) = Count(c)
  BY <1>1, <1>2, ExceptSeq DEF Count
<1>4. chain' = [chain EXCEPT ![c] = node]
  BY DEF Rebind
<1> HIDE DEF node
<1> QED BY <1>1, <1>3, <1>4, ReplaceInOrder

\* skiparray_new makes one empty node.
LEMMA InitInv ==
  Init => Inv
<1> SUFFICES ASSUME Init PROVE Inv
  OBVIOUS
<1>1. chain = << << >> >> /\ out = {}
  BY DEF Init
<1>2. chain \in Chains /\ Len(chain) = 1 /\ chain[1] = << >>
  BY <1>1 DEF Chains
<1>3. NodeInOrder(chain, 1)
  BY <1>1, NodeChainAssumption DEF NodeInOrder, Size
<1> QED BY <1>1, <1>2, <1>3 DEF Inv, InOrder

\* Every call keeps the nodes in order.
LEMMA NextInv ==
  Inv /\ [Next]_vars => Inv'
<1> SUFFICES ASSUME Inv, [Next]_vars
             PROVE  Inv'
  OBVIOUS
<1>1. InOrder(chain) /\ out \subseteq Pair
  BY DEF Inv
<1>2. /\ Len(chain) \in Nat /\ 1 \in 1 .. Len(chain)
      /\ Len(chain) \in 1 .. Len(chain)
  BY <1>1, LenProperties DEF InOrder, Chains
<1>3. ASSUME NEW c \in 1 .. Len(chain)
      PROVE  /\ Count(c) \in Nat
             /\ \A index \in Nat : index < Count(c) => chain[c][index + 1] \in Pair
  BY <1>1, NodeFacts
<1>4. ASSUME NEW c \in 1 .. Len(chain), NEW index \in 0 .. Count(c),
             NEW pair \in Pair, Set(c, index, pair)
      PROVE  Inv'
  <2>1. CASE Insert(c, index, pair)
    BY <1>1, <1>4, <2>1, InsertKeepsOrder DEF Inv, Set
  <2>2. CASE SplitAndInsert(c, index, pair)
    BY <1>1, <1>4, <2>2, SplitKeepsOrder DEF Inv, Set
  <2> QED BY <1>4, <2>1, <2>2 DEF Set
<1>5. ASSUME NEW c \in 1 .. Len(chain), NEW index \in Nat,
             NEW pair \in Pair, Rebind(c, index, pair)
      PROVE  Inv'
  <2>1. InOrder(chain')
    BY <1>1, <1>5, RebindKeepsOrder
  <2>2. out' \subseteq Pair
    BY <1>3, <1>5 DEF Rebind
  <2> QED BY <2>1, <2>2 DEF Inv
<1>6. ASSUME NEW c \in 1 .. Len(chain), NEW index \in Nat, Forget(c, index)
      PROVE  Inv'
  <2>1. InOrder(chain')
    BY <1>1, <1>6, RemovalKeepsOrder DEF Forget
  <2>2. out' \subseteq Pair
    BY <1>3, <1>6 DEF Forget
  <2> QED BY <2>1, <2>2 DEF Inv
<1>7. ASSUME NEW c \in 1 .. Len(chain), NEW index \in Nat, Read(c, index)
      PROVE  Inv'
  BY <1>1, <1>3, <1>7 DEF Read, Inv
<1>8. ASSUME PopFirst
      PROVE  Inv'
  <2>1. 0 \in Nat /\ 0 < Count(1) /\ chain' = Balance(Removed(1, 0), 1)
    BY <1>2, <1>3, <1>8 DEF PopFirst
  <2>2. InOrder(chain')
    BY <1>1, <1>2, <2>1, RemovalKeepsOrder
  <2>3. out' \subseteq Pair
    <3>1. chain[1][0 + 1] \in Pair
      BY <1>2, <1>3, <2>1
    <3> QED BY <1>8, <3>1 DEF PopFirst
  <2> QED BY <2>2, <2>3 DEF Inv
<1>9. ASSUME PopLast
      PROVE  Inv'
  <2>1. InOrder(chain')
    BY <1>1, <1>9, PopLastKeepsOrder
  <2>2. out' \subseteq Pair
    <3> DEFINE last  == Len(chain)
               index == Count(last) - 1
    <3>1. index \in Nat /\ index < Count(last)
      BY <1>2, <1>3, <1>9 DEF PopLast
    <3>2. chain[last][index + 1] \in Pair
      BY <1>2, <1>3, <3>1
    <3>3. out' = {chain[last][index + 1]}
      BY <1>9 DEF PopLast
    <3> QED BY <3>2, <3>3
  <2> QED BY <2>1, <2>2 DEF Inv
<1>10. CASE Nothing \/ UNCHANGED vars
  BY <1>1, <1>10 DEF Nothing, vars, Inv
<1>11. \A c \in 1 .. Len(chain) : 0 .. Count(c) \subseteq Nat
  OBVIOUS
<1> QED BY <1>4, <1>5, <1>6, <1>7, <1>8, <1>9, <1>10, <1>11 DEF Next

-----------------------------------------------------------------------------
(* The list of all pairs. *)

\* The pairs of the nodes before node c, and of those after it.
PairsBefore(ch, c) == FlattenSeq(Before(ch, c))
PairsAfter(ch, c)  == FlattenSeq(Beyond(ch, c))

\* A chain is the nodes before c, node c and the nodes after it.
LEMMA NodeParts ==
  ASSUME NEW ch \in Chains, NEW c \in 1 .. Len(ch)
  PROVE  /\ ch[c] \in Seq(Pair)
         /\ Before(ch, c) \in Chains /\ Len(Before(ch, c)) + 1 = c
         /\ Beyond(ch, c) \in Chains
         /\ ch = (Before(ch, c) ++ One(ch[c])) ++ Beyond(ch, c)
         /\ PairsBefore(ch, c) \in Seq(Pair) /\ PairsAfter(ch, c) \in Seq(Pair)
<1>1. Len(ch) \in Nat /\ ch[c] \in Seq(Pair)
  BY LenProperties, ElementOfSeq DEF Chains
<1>2. /\ Before(ch, c) \in Chains /\ Len(Before(ch, c)) = c - 1
      /\ Beyond(ch, c) \in Chains
      /\ ch = (Before(ch, c) ++ One(ch[c])) ++ Beyond(ch, c)
  BY ElementParts DEF Chains
<1>3. PairsBefore(ch, c) \in Seq(Pair) /\ PairsAfter(ch, c) \in Seq(Pair)
  BY <1>2, FlattenType DEF PairsBefore, PairsAfter, Chains
<1> QED BY <1>1, <1>2, <1>3

\* The list of two chains in a row, and of one that ends with a node.
LEMMA ListInARow ==
  ASSUME NEW p \in Chains, NEW q \in Chains
  PROVE  FlattenSeq(p ++ q) = FlattenSeq(p) ++ FlattenSeq(q)
BY FlattenRow DEF Chains

\* The list of a chain with one more node at the end.
LEMMA ListEndingWith ==
  ASSUME NEW p \in Chains, NEW e \in Seq(Pair)
  PROVE  /\ p ++ One(e) \in Chains /\ Len(p ++ One(e)) = Len(p) + 1
         /\ FlattenSeq(p ++ One(e)) = FlattenSeq(p) ++ e
<1>1. One(e) \in Chains /\ Len(One(e)) = 1 /\ FlattenSeq(One(e)) = e
  BY OneProperties, FlattenSingle DEF Chains
<1>2. FlattenSeq(p ++ One(e)) = FlattenSeq(p) ++ FlattenSeq(One(e))
  BY <1>1, ListInARow
<1> QED BY <1>1, <1>2, RowProperties DEF Chains

\* The list is the pairs before node c, its own and those after it, and stays
\* that when another node is written there, two nodes, or none.
LEMMA ListAtNode ==
  ASSUME NEW ch \in Chains, NEW c \in 1 .. Len(ch)
  PROVE  /\ FlattenSeq(ch) = (PairsBefore(ch, c) ++ ch[c]) ++ PairsAfter(ch, c)
         /\ \A node \in Seq(Pair) :
              FlattenSeq(ReplaceAt(ch, c, node))
                = (PairsBefore(ch, c) ++ node) ++ PairsAfter(ch, c)
         /\ \A low, high \in Seq(Pair) :
              FlattenSeq(InsertAt(ReplaceAt(ch, c, low), c + 1, high))
                = ((PairsBefore(ch, c) ++ low) ++ high) ++ PairsAfter(ch, c)
         /\ FlattenSeq(RemoveAt(ch, c)) = PairsBefore(ch, c) ++ PairsAfter(ch, c)
<1> DEFINE p == Before(ch, c)
           q == Beyond(ch, c)
           a == PairsBefore(ch, c)
           b == PairsAfter(ch, c)
<1>1. /\ p \in Chains /\ q \in Chains /\ ch[c] \in Seq(Pair) /\ Len(p) + 1 = c
      /\ ch = (p ++ One(ch[c])) ++ q
  BY NodeParts
<1>2. a = FlattenSeq(p) /\ b = FlattenSeq(q)
  BY DEF PairsBefore, PairsAfter
<1>3. RemoveAt(ch, c) = p ++ q
  BY RemoveAtSplits
<1> HIDE DEF p, q, a, b
<1>4. ASSUME NEW node \in Seq(Pair)
      PROVE  /\ ReplaceAt(ch, c, node) = (p ++ One(node)) ++ q
             /\ FlattenSeq((p ++ One(node)) ++ q) = (a ++ node) ++ b
  <2>1. ReplaceAt((p ++ One(ch[c])) ++ q, Len(p) + 1, node) = (p ++ One(node)) ++ q
    BY <1>1, ReplaceAtParts DEF Chains
  <2>2. p ++ One(node) \in Chains /\ FlattenSeq(p ++ One(node)) = a ++ node
    BY <1>1, <1>2, ListEndingWith
  <2> QED BY <1>1, <1>2, <2>1, <2>2, ListInARow
<1>5. ASSUME NEW low \in Seq(Pair), NEW high \in Seq(Pair)
      PROVE  FlattenSeq(InsertAt(ReplaceAt(ch, c, low), c + 1, high))
               = ((a ++ low) ++ high) ++ b
  <2> DEFINE u == p ++ One(low)
  <2>1. u \in Chains /\ FlattenSeq(u) = a ++ low /\ Len(u) = c
    BY <1>1, <1>2, ListEndingWith
  <2>2. ReplaceAt(ch, c, low) = u ++ q
    BY <1>4
  <2> HIDE DEF u
  <2>3. InsertAt(u ++ q, Len(u) + 1, high) = (u ++ One(high)) ++ q
    BY <1>1, <2>1, InsertAtParts DEF Chains
  <2>4. /\ u ++ One(high) \in Chains
        /\ FlattenSeq(u ++ One(high)) = (a ++ low) ++ high
    BY <2>1, ListEndingWith
  <2> QED BY <1>1, <1>2, <2>1, <2>2, <2>3, <2>4, ListInARow
<1>6. FlattenSeq(RemoveAt(ch, c)) = a ++ b
  BY <1>1, <1>2, <1>3, ListInARow
<1>7. FlattenSeq(ch) = (a ++ ch[c]) ++ b
  BY <1>1, <1>4
<1> QED BY <1>4, <1>5, <1>6, <1>7 DEF a, b

\* The same for node c and the next one, when pairs move between them.
LEMMA ListAtNeighbours ==
  ASSUME NEW ch \in Chains, NEW c \in 1 .. Len(ch) - 1
  PROVE  /\ FlattenSeq(ch) = ((PairsBefore(ch, c) ++ ch[c]) ++ ch[c + 1])
                               ++ PairsAfter(ch, c + 1)
         /\ \A both \in Seq(Pair) :
              FlattenSeq(RemoveAt(ReplaceAt(ch, c, both), c + 1))
                = (PairsBefore(ch, c) ++ both) ++ PairsAfter(ch, c + 1)
         /\ \A low, high \in Seq(Pair) :
              FlattenSeq(ReplaceAt(ReplaceAt(ch, c, low), c + 1, high))
                = ((PairsBefore(ch, c) ++ low) ++ high) ++ PairsAfter(ch, c + 1)
<1> DEFINE at == c + 1
           p  == Before(ch, c)
           q  == Beyond(ch, at)
           a  == PairsBefore(ch, c)
           b  == PairsAfter(ch, at)
<1>1. Len(ch) \in Nat /\ c \in 1 .. Len(ch) /\ at \in 1 .. Len(ch) /\ at = c + 1
  BY LenProperties DEF Chains
<1>2. /\ p \in Chains /\ q \in Chains /\ Len(p) + 1 = c
      /\ ch[c] \in Seq(Pair) /\ ch[at] \in Seq(Pair)
  <2> HIDE DEF at
  <2> QED BY <1>1, NodeParts
<1> DEFINE next == One(ch[at])
           u(x) == p ++ One(x)
<1>3. ch = u(ch[c]) ++ (next ++ q)
  <2>1. ch = (p ++ One(ch[c])) ++ Beyond(ch, c)
    BY <1>1, NodeParts
  <2>2. Beyond(ch, c) = next ++ q
    BY AfterUnfolds DEF Chains
  <2> QED BY <2>1, <2>2
<1>4. a = FlattenSeq(p) /\ b = FlattenSeq(q)
  BY DEF PairsBefore, PairsAfter
<1>5. next \in Chains /\ next ++ q \in Chains
  BY <1>2, OneProperties, RowProperties DEF Chains
<1> HIDE DEF at, p, q, a, b
<1>6. ASSUME NEW x \in Seq(Pair)
      PROVE  u(x) \in Chains /\ Len(u(x)) + 1 = at /\ FlattenSeq(u(x)) = a ++ x
  BY <1>1, <1>2, <1>4, ListEndingWith
<1>7. ASSUME NEW x \in Seq(Pair)
      PROVE  /\ u(x) ++ (next ++ q) = (u(x) ++ next) ++ q
             /\ ReplaceAt(ch, c, x) = (u(x) ++ next) ++ q
  <2>1. u(x) ++ (next ++ q) = (u(x) ++ next) ++ q
    BY <1>2, <1>5, <1>6, RowAssociative DEF Chains
  <2>2. ReplaceAt((p ++ One(ch[c])) ++ (next ++ q), Len(p) + 1, x)
          = (p ++ One(x)) ++ (next ++ q)
    BY <1>2, <1>5, ReplaceAtParts DEF Chains
  <2> QED BY <1>2, <1>3, <2>1, <2>2
<1>8. ASSUME NEW x \in Seq(Pair), NEW y \in Seq(Pair)
      PROVE  FlattenSeq((u(x) ++ One(y)) ++ q) = ((a ++ x) ++ y) ++ b
  <2>1. u(x) ++ One(y) \in Chains /\ FlattenSeq(u(x) ++ One(y)) = (a ++ x) ++ y
    BY <1>6, ListEndingWith
  <2> QED BY <1>2, <1>4, <2>1, ListInARow
<1>9. ASSUME NEW both \in Seq(Pair)
      PROVE  FlattenSeq(RemoveAt(ReplaceAt(ch, c, both), at)) = (a ++ both) ++ b
  <2> DEFINE v == u(both)
  <2>1. v \in Chains /\ Len(v) + 1 = at /\ FlattenSeq(v) = a ++ both
    BY <1>6
  <2>2. ReplaceAt(ch, c, both) = (v ++ next) ++ q
    BY <1>7
  <2> HIDE DEF v
  <2>3. RemoveAt((v ++ next) ++ q, Len(v) + 1) = v ++ q
    BY <1>2, <2>1, RemoveAtParts DEF Chains
  <2>4. FlattenSeq(v ++ q) = FlattenSeq(v) ++ b
    BY <1>2, <1>4, <2>1, ListInARow
  <2> QED BY <2>1, <2>2, <2>3, <2>4
<1>10. ASSUME NEW low \in Seq(Pair), NEW high \in Seq(Pair)
       PROVE  FlattenSeq(ReplaceAt(ReplaceAt(ch, c, low), at, high))
                = ((a ++ low) ++ high) ++ b
  <2> DEFINE v == u(low)
  <2>1. v \in Chains /\ Len(v) + 1 = at
    BY <1>6
  <2>2. ReplaceAt(ch, c, low) = (v ++ next) ++ q
    BY <1>7
  <2>3. FlattenSeq((v ++ One(high)) ++ q) = ((a ++ low) ++ high) ++ b
    BY <1>8
  <2> HIDE DEF v
  <2>4. ReplaceAt((v ++ next) ++ q, Len(v) + 1, high) = (v ++ One(high)) ++ q
    BY <1>2, <2>1, ReplaceAtParts DEF Chains
  <2> QED BY <2>1, <2>2, <2>3, <2>4
<1>11. FlattenSeq(ch) = ((a ++ ch[c]) ++ ch[at]) ++ b
  BY <1>2, <1>3, <1>7, <1>8
<1> QED BY <1>9, <1>10, <1>11 DEF at, a, b

\* Moving pairs between neighbours leaves the list as it is.
LEMMA MergeKeepsList ==
  ASSUME NEW ch \in Chains, NEW c \in 1 .. Len(ch) - 1
  PROVE  FlattenSeq(Merge(ch, c)) = FlattenSeq(ch)
<1> DEFINE low  == ch[c]
           high == ch[c + 1]
           a == PairsBefore(ch, c)
           b == PairsAfter(ch, c + 1)
<1>1. Len(ch) \in Nat /\ c \in 1 .. Len(ch) /\ c + 1 \in 1 .. Len(ch)
  BY LenProperties DEF Chains
<1>2. low \in Seq(Pair) /\ high \in Seq(Pair) /\ a \in Seq(Pair)
  BY <1>1, NodeParts
<1>3. low ++ high \in Seq(Pair)
  BY <1>2, RowProperties
<1>4. Merge(ch, c) = RemoveAt(ReplaceAt(ch, c, low ++ high), c + 1)
  BY DEF Merge, ReplaceAt, ++
<1>5. /\ FlattenSeq(Merge(ch, c)) = (a ++ (low ++ high)) ++ b
      /\ FlattenSeq(ch) = ((a ++ low) ++ high) ++ b
  BY <1>3, <1>4, ListAtNeighbours
<1> HIDE DEF low, high, a, b
<1>6. (a ++ low) ++ high = a ++ (low ++ high)
  BY <1>2, RowAssociative
<1> QED BY <1>5, <1>6

\* The same of the refill of shift_or_merge: the pairs that go over are the
\* first of the next node and become the last of this one.
LEMMA RefillKeepsList ==
  ASSUME NEW ch \in Chains, NEW c \in 1 .. Len(ch) - 1,
         Size(ch, c + 1) >= Required
  PROVE  FlattenSeq(Refill(ch, c)) = FlattenSeq(ch)
<1> DEFINE next == ch[c + 1]
           k    == Len(next) - Required
           low  == SubSeq(next, 1, k)
           rest == SubSeq(next, k + 1, Len(next))
           node == ch[c]
           more == node ++ low
           a == PairsBefore(ch, c)
           b == PairsAfter(ch, c + 1)
<1>1. Len(ch) \in Nat /\ c \in 1 .. Len(ch) /\ c + 1 \in 1 .. Len(ch) /\ c # c + 1
  BY LenProperties DEF Chains
<1>2. node \in Seq(Pair) /\ next \in Seq(Pair) /\ a \in Seq(Pair)
  BY <1>1, NodeParts
<1>3. k \in 0 .. Len(next)
  BY <1>2, LenProperties, RequiredBounds DEF Size
<1>4. low \in Seq(Pair) /\ rest \in Seq(Pair) /\ low ++ rest = next
  <2> HIDE DEF k, next
  <2> QED BY <1>2, <1>3, CutProperties, CutConcat DEF ++
<1>5. more \in Seq(Pair)
  BY <1>2, <1>4, RowProperties
<1>6. Refill(ch, c) = ReplaceAt(ReplaceAt(ch, c, more), c + 1, rest)
  <2>1. [ch EXCEPT ![c] = more][c + 1] = next
    BY <1>1 DEF Chains
  <2>2. Refill(ch, c) = [[ch EXCEPT ![c] = more] EXCEPT ![c + 1] = rest]
    BY <1>1 DEF Refill, Chains, ++
  <2> QED BY <2>2 DEF ReplaceAt
<1>7. /\ FlattenSeq(Refill(ch, c)) = ((a ++ more) ++ rest) ++ b
      /\ FlattenSeq(ch) = ((a ++ node) ++ next) ++ b
  <2>1. ASSUME NEW x \in Seq(Pair), NEW y \in Seq(Pair)
        PROVE  FlattenSeq(ReplaceAt(ReplaceAt(ch, c, x), c + 1, y))
                 = ((a ++ x) ++ y) ++ b
    BY ListAtNeighbours
  <2>2. FlattenSeq(ch) = ((a ++ node) ++ next) ++ b
    BY ListAtNeighbours
  <2> HIDE DEF next, low, rest, node, more, a, b
  <2> QED BY <1>4, <1>5, <1>6, <2>1, <2>2
<1> HIDE DEF next, low, rest, node, a, b
<1>8. a ++ node \in Seq(Pair)
  BY <1>2, RowProperties
<1>9. a ++ more = (a ++ node) ++ low
  BY <1>2, <1>4, RowAssociative
<1>10. ((a ++ node) ++ low) ++ rest = (a ++ node) ++ (low ++ rest)
  BY <1>4, <1>8, RowAssociative
<1> QED BY <1>4, <1>7, <1>9, <1>10

\* Whatever shift_or_merge does after a removal, no pair is lost or moved past
\* another.
LEMMA BalanceKeepsList ==
  ASSUME NEW ch, NEW c, LowAt(ch, c)
  PROVE  FlattenSeq(Balance(ch, c)) = FlattenSeq(ch)
<1>1. /\ ch \in Chains /\ Len(ch) \in Nat /\ c \in 1 .. Len(ch)
      /\ \A d \in 1 .. Len(ch) : Size(ch, d) \in Nat
  BY LenProperties, ElementOfSeq DEF LowAt, Chains, Size
<1>2. /\ NodeSize \in Nat /\ Required \in Nat
      /\ Required >= 1 /\ Required + Required <= NodeSize
  BY NodeChainAssumption, RequiredBounds
<1>3. CASE ~ (Size(ch, c) >= Required) /\ c < Len(ch)
  <2> DEFINE n    == Len(ch)
             this == Size(ch, c)
             next == Size(ch, c + 1)
  <2>1. c \in 1 .. Len(ch) - 1 /\ c + 1 \in 1 .. Len(ch)
    <3> HIDE DEF n
    <3> QED BY <1>1, <1>3 DEF n
  <2>2. this \in Nat /\ next \in Nat /\ ~ (this >= Required)
    BY <1>1, <1>3, <2>1
  <2>3. MergeOrRefill(ch, c) = IF this + next <= NodeSize THEN Merge(ch, c)
                                                         ELSE Refill(ch, c)
    BY DEF MergeOrRefill, Size
  <2>4. FlattenSeq(Merge(ch, c)) = FlattenSeq(ch)
    BY <1>1, <2>1, MergeKeepsList
  <2>5. CASE next >= Required
    <3>1. FlattenSeq(Refill(ch, c)) = FlattenSeq(ch)
      BY <1>1, <2>1, <2>5, RefillKeepsList
    <3>2. FlattenSeq(MergeOrRefill(ch, c)) = FlattenSeq(ch)
      BY <2>3, <2>4, <3>1, Zenon
    <3> QED BY <1>3, <3>2 DEF Balance
  <2>6. CASE ~ (next >= Required)
    <3> HIDE DEF this, next
    <3>1. this + next <= NodeSize
      BY <1>2, <2>2, <2>6
    <3>2. FlattenSeq(MergeOrRefill(ch, c)) = FlattenSeq(ch)
      BY <2>3, <2>4, <3>1, Zenon
    <3> QED BY <1>3, <3>2 DEF Balance
  <2> QED BY <2>5, <2>6
<1>4. CASE ~ (c < Len(ch)) /\ Len(ch) # 1
  <2>1. c - 1 \in 1 .. Len(ch) - 1
    <3> DEFINE n == Len(ch)
    <3>1. n \in Nat /\ c \in 1 .. n /\ ~ (c < n) /\ n # 1
      BY <1>1, <1>4
    <3> HIDE DEF n
    <3>2. c - 1 \in 1 .. n - 1
      BY <3>1
    <3> QED BY <3>2 DEF n
  <2>2. FlattenSeq(Merge(ch, c - 1)) = FlattenSeq(ch)
    BY <1>1, <2>1, MergeKeepsList
  <2>3. Balance(ch, c) \in {ch, MergeBack(ch, c)}
    BY <1>4 DEF Balance
  <2>4. MergeBack(ch, c) \in {ch, Merge(ch, c - 1)}
    BY DEF MergeBack
  <2> QED BY <2>2, <2>3, <2>4
<1>5. CASE Size(ch, c) >= Required \/ Len(ch) = 1
  BY <1>5 DEF Balance, Size
<1> QED BY <1>3, <1>4, <1>5

-----------------------------------------------------------------------------
(* What each call does to the list. *)

\* The list of the chain, and where node c lies in it.
LEMMA ListFacts ==
  ASSUME InOrder(chain), NEW c \in 1 .. Len(chain)
  PROVE  LET a == PairsBefore(chain, c)
             b == PairsAfter(chain, c)
         IN  /\ a \in Seq(Pair) /\ b \in Seq(Pair) /\ chain[c] \in Seq(Pair)
             /\ List = (a ++ chain[c]) ++ b
             /\ \A i \in 1 .. Len(chain[c]) :
                  /\ Len(a) + i \in 1 .. Len(List)
                  /\ List[Len(a) + i] = chain[c][i]
             /\ \A i \in 1 .. Len(chain[c]) + 1 : Len(a) + i \in 1 .. Len(List) + 1
<1> DEFINE a == PairsBefore(chain, c)
           b == PairsAfter(chain, c)
           node == chain[c]
<1>1. chain \in Chains
  BY DEF InOrder
<1>2. a \in Seq(Pair) /\ b \in Seq(Pair) /\ node \in Seq(Pair)
  BY <1>1, NodeParts
<1>3. List = (a ++ node) ++ b
  BY <1>1, ListAtNode DEF List
<1> HIDE DEF a, b, node
<1>4. /\ Len(List) = Len(a) + Len(node) + Len(b)
      /\ \A i \in 1 .. Len(node) : List[Len(a) + i] = node[i]
  <2>1. /\ Len((a ++ node) ++ b) = Len(a) + Len(node) + Len(b)
        /\ \A i \in 1 .. Len(node) : ((a ++ node) ++ b)[Len(a) + i] = node[i]
    BY <1>2, WithinProperties
  <2> QED BY <1>3, <2>1
<1>5. Len(a) \in Nat /\ Len(b) \in Nat /\ Len(node) \in Nat
  BY <1>2, LenProperties
<1>6. /\ \A i \in 1 .. Len(node) : Len(a) + i \in 1 .. Len(List)
      /\ \A i \in 1 .. Len(node) + 1 : Len(a) + i \in 1 .. Len(List) + 1
  BY <1>4, <1>5
<1> QED BY <1>2, <1>3, <1>4, <1>6 DEF a, b, node

\* An insertion, with or without a split, puts the pair in one place.
LEMMA InsertInList ==
  ASSUME InOrder(chain), NEW c \in 1 .. Len(chain), NEW index \in 0 .. Count(c),
         NEW pair \in Pair, Insert(c, index, pair)
  PROVE  \E i \in 1 .. Len(List) + 1 : List' = InsertAt(List, i, pair)
<1> DEFINE a == PairsBefore(chain, c)
           b == PairsAfter(chain, c)
           node == chain[c]
           i == index + 1
<1>1. chain \in Chains
  BY DEF InOrder
<1>2. /\ a \in Seq(Pair) /\ b \in Seq(Pair) /\ node \in Seq(Pair)
      /\ List = (a ++ node) ++ b
      /\ \A k \in 1 .. Len(node) + 1 : Len(a) + k \in 1 .. Len(List) + 1
  BY ListFacts
<1>3. i \in 1 .. Len(node) + 1
  BY <1>2, LenProperties DEF Count
<1> HIDE DEF i
<1>4. InsertAt(node, i, pair) \in Seq(Pair)
  BY <1>2, <1>3, InsertAtProperties
<1>5. chain' = ReplaceAt(chain, c, InsertAt(node, i, pair))
  BY DEF Insert, ReplaceAt, i
<1>6. List' = (a ++ InsertAt(node, i, pair)) ++ b
  BY <1>1, <1>4, <1>5, ListAtNode DEF List
<1> HIDE DEF a, b, node
<1>7. List' = InsertAt(List, Len(a) + i, pair)
  BY <1>2, <1>3, <1>6, InsertAtWithin
<1> QED BY <1>2, <1>3, <1>7

\* A split inserts one pair too: the halves follow each other, and the pair
\* goes into the one that holds its place.
LEMMA SplitInList ==
  ASSUME InOrder(chain), NEW c \in 1 .. Len(chain), NEW index \in 0 .. Count(c),
         NEW pair \in Pair, SplitAndInsert(c, index, pair)
  PROVE  \E i \in 1 .. Len(List) + 1 : List' = InsertAt(List, i, pair)
<1> DEFINE a == PairsBefore(chain, c)
           b == PairsAfter(chain, c)
           node == chain[c]
           low  == SubSeq(node, 1, Kept)
           high == SubSeq(node, Kept + 1, NodeSize)
           i == index + 1
           h == index - Kept + 1
<1>1. chain \in Chains /\ Count(c) = NodeSize
  BY DEF InOrder, SplitAndInsert
<1>2. /\ a \in Seq(Pair) /\ b \in Seq(Pair) /\ node \in Seq(Pair)
      /\ List = (a ++ node) ++ b
      /\ \A k \in 1 .. Len(node) + 1 : Len(a) + k \in 1 .. Len(List) + 1
  BY ListFacts
<1>3. Len(node) = NodeSize /\ NodeSize \in Nat /\ Kept \in 0 .. NodeSize
  BY <1>1, NodeChainAssumption, RequiredBounds DEF Count, Kept, Required
<1>4. /\ low \in Seq(Pair) /\ high \in Seq(Pair) /\ low ++ high = node
      /\ Len(low) = Kept /\ Len(high) = NodeSize - Kept
  <2>1. /\ SubSeq(node, 1, Kept) \in Seq(Pair)
        /\ SubSeq(node, Kept + 1, Len(node)) \in Seq(Pair)
        /\ Len(SubSeq(node, 1, Kept)) = Kept
        /\ Len(SubSeq(node, Kept + 1, Len(node))) = Len(node) - Kept
        /\ SubSeq(node, 1, Kept) ++ SubSeq(node, Kept + 1, Len(node)) = node
    <3> HIDE DEF node
    <3>1. Kept \in 0 .. Len(node)
      BY <1>3
    <3>2. SubSeq(node, 1, Kept) \o SubSeq(node, Kept + 1, Len(node)) = node
      BY <1>2, <3>1, CutConcat
    <3> QED BY <1>2, <3>1, <3>2, CutProperties, Zenon DEF ++
  <2> QED BY <1>3, <2>1
<1>5. i \in 1 .. NodeSize + 1 /\ index \in Nat
  BY <1>1, <1>3
<1> DEFINE Within(x, t, y) ==
             \A k \in 1 .. Len(t) + 1 :
               (x ++ InsertAt(t, k, pair)) ++ y
                 = InsertAt((x ++ t) ++ y, Len(x) + k, pair)
<1> HIDE DEF low, high, i, h, a, b, node
<1>8. ASSUME NEW x \in Seq(Pair), NEW t \in Seq(Pair), NEW y \in Seq(Pair)
      PROVE  Within(x, t, y)
  BY InsertAtWithin
<1> USE DEF low, high, i, h, a, b, node
<1>6. CASE /\ index <= Kept
           /\ chain' = InsertAt([chain EXCEPT ![c] = InsertAt(low, i, pair)],
                                c + 1, high)
  <2> HIDE DEF low, high, i
  <2>1. i \in 1 .. Len(low) + 1 /\ i \in 1 .. Len(node) + 1
    BY <1>3, <1>4, <1>5, <1>6 DEF i
  <2> HIDE DEF a, b, node
  <2>2. InsertAt(low, i, pair) \in Seq(Pair)
    BY <1>4, <2>1, InsertAtProperties
  <2>3. chain' = InsertAt(ReplaceAt(chain, c, InsertAt(low, i, pair)), c + 1, high)
    BY <1>6 DEF ReplaceAt
  <2>4. List' = ((a ++ InsertAt(low, i, pair)) ++ high) ++ b
    BY <1>1, <1>4, <2>2, <2>3, ListAtNode DEF List, a, b
  <2>5. high ++ b \in Seq(Pair)
    BY <1>2, <1>4, RowProperties
  <2>6. ((a ++ InsertAt(low, i, pair)) ++ high) ++ b
          = (a ++ InsertAt(low, i, pair)) ++ (high ++ b)
    BY <1>2, <1>4, <2>2, FourInARow
  <2>7. (a ++ node) ++ b = (a ++ low) ++ (high ++ b)
    BY <1>2, <1>4, FourInARow
  <2>8. (a ++ InsertAt(low, i, pair)) ++ (high ++ b)
          = InsertAt((a ++ low) ++ (high ++ b), Len(a) + i, pair)
    <3>1. Within(a, low, high ++ b)
      <4> HIDE DEF Within
      <4> QED BY <1>2, <1>4, <1>8, <2>5
    <3> QED BY <2>1, <3>1
  <2>9. List' = InsertAt(List, Len(a) + i, pair)
    BY <1>2, <2>4, <2>6, <2>7, <2>8
  <2> QED BY <1>2, <2>1, <2>9
<1>7. CASE /\ index > Kept
           /\ chain' = InsertAt([chain EXCEPT ![c] = low],
                                c + 1, InsertAt(high, h, pair))
  <2> DEFINE al == a ++ low
  <2> HIDE DEF low, high
  <2>1. h \in 1 .. Len(high) + 1 /\ i \in 1 .. Len(node) + 1 /\ Kept + h = i
    BY <1>1, <1>3, <1>4, <1>5, <1>7
  <2> HIDE DEF i, h
  <2> HIDE DEF a, b, node
  <2>2. InsertAt(high, h, pair) \in Seq(Pair)
    BY <1>4, <2>1, InsertAtProperties
  <2>3. chain' = InsertAt(ReplaceAt(chain, c, low), c + 1, InsertAt(high, h, pair))
    BY <1>7 DEF ReplaceAt
  <2>4. List' = (al ++ InsertAt(high, h, pair)) ++ b
    BY <1>1, <1>4, <2>2, <2>3, ListAtNode DEF List, a, b
  <2>5. al \in Seq(Pair) /\ Len(al) = Len(a) + Kept
    BY <1>2, <1>4, RowProperties
  <2>6. al ++ high = a ++ node
    BY <1>2, <1>4, RowAssociative
  <2> HIDE DEF al
  <2>7. (al ++ InsertAt(high, h, pair)) ++ b
          = InsertAt((al ++ high) ++ b, Len(al) + h, pair)
    <3>1. Within(al, high, b)
      <4> HIDE DEF Within
      <4> QED BY <1>2, <1>4, <1>8, <2>5
    <3> QED BY <2>1, <3>1
  <2>8. Len(al) + h = Len(a) + i
    <3>1. Len(a) \in Nat
      BY <1>2, LenProperties
    <3> QED BY <1>3, <2>1, <2>5, <3>1
  <2>9. List' = InsertAt(List, Len(a) + i, pair)
    BY <1>2, <2>4, <2>6, <2>7, <2>8
  <2> QED BY <1>2, <2>1, <2>9
<1> QED BY <1>6, <1>7 DEF SplitAndInsert

\* Taking a pair out of a node takes it out of the list.
LEMMA RemovedFromList ==
  ASSUME InOrder(chain), NEW c \in 1 .. Len(chain), NEW index \in Nat,
         index < Count(c)
  PROVE  \E i \in 1 .. Len(List) :
           /\ FlattenSeq(Removed(c, index)) = RemoveAt(List, i)
           /\ List[i] = chain[c][index + 1]
<1> DEFINE a == PairsBefore(chain, c)
           b == PairsAfter(chain, c)
           node == chain[c]
           i == index + 1
<1>1. chain \in Chains
  BY DEF InOrder
<1>2. /\ a \in Seq(Pair) /\ b \in Seq(Pair) /\ node \in Seq(Pair)
      /\ List = (a ++ node) ++ b
      /\ \A k \in 1 .. Len(node) : /\ Len(a) + k \in 1 .. Len(List)
                                   /\ List[Len(a) + k] = node[k]
  BY ListFacts
<1>3. i \in 1 .. Len(node)
  BY <1>2, LenProperties DEF Count
<1> HIDE DEF i
<1>4. RemoveAt(node, i) \in Seq(Pair)
  BY <1>2, <1>3, RemoveAtProperties
<1>5. Removed(c, index) = ReplaceAt(chain, c, RemoveAt(node, i))
  BY DEF Removed, ReplaceAt, i
<1>6. FlattenSeq(Removed(c, index)) = (a ++ RemoveAt(node, i)) ++ b
  BY <1>1, <1>4, <1>5, ListAtNode
<1> HIDE DEF a, b
<1>7. FlattenSeq(Removed(c, index)) = RemoveAt(List, Len(a) + i)
  <2> HIDE DEF node
  <2> QED BY <1>2, <1>3, <1>6, RemoveAtWithin
<1>8. List[Len(a) + i] = chain[c][index + 1]
  BY <1>2, <1>3 DEF i
<1> QED BY <1>2, <1>3, <1>7, <1>8

\* skiparray_forget and skiparray_pop_first: the pair leaves its node, and what
\* the balance does to the nodes after that changes nothing in the list.
LEMMA BalancedInList ==
  ASSUME InOrder(chain), NEW c \in 1 .. Len(chain), NEW index \in Nat,
         index < Count(c), chain' = Balance(Removed(c, index), c)
  PROVE  \E i \in 1 .. Len(List) : /\ List' = RemoveAt(List, i)
                                   /\ List[i] = chain[c][index + 1]
<1>1. LowAt(Removed(c, index), c)
  BY RemovedLowAt
<1>2. List' = FlattenSeq(Removed(c, index))
  BY <1>1, BalanceKeepsList DEF List
<1> QED BY <1>2, RemovedFromList

\* skiparray_pop_last, which does not balance but may drop the last node.
LEMMA PopLastInList ==
  ASSUME InOrder(chain), PopLast
  PROVE  \E i \in 1 .. Len(List) : List' = RemoveAt(List, i) /\ out' = {List[i]}
<1> DEFINE last  == Len(chain)
           index == Count(last) - 1
           node  == chain[last]
<1>1. chain \in Chains /\ last \in 1 .. Len(chain)
  BY LenProperties DEF InOrder, Chains
<1>2. node \in Seq(Pair) /\ Len(node) \in Nat /\ Count(last) = Len(node)
  BY <1>1, ElementOfSeq, LenProperties DEF Chains, Count
<1>3. index \in Nat /\ index < Count(last) /\ out' = {node[index + 1]}
  BY <1>2 DEF PopLast
<1>4. FlattenSeq(chain') = FlattenSeq(Removed(last, index))
  <2>1. CASE index = 0 /\ last > 1
    <3>1. chain' = RemoveAt(chain, last)
      BY <2>1 DEF PopLast
    <3>2. Removed(last, 0) = ReplaceAt(chain, last, RemoveAt(node, 1))
      BY DEF Removed, ReplaceAt
    <3>3. RemoveAt(node, 1) = << >>
      <4>1. 1 \in 1 .. Len(node) /\ Len(node) - 1 = 0
        BY <1>2, <2>1
      <4>2. RemoveAt(node, 1) \in Seq(Pair) /\ Len(RemoveAt(node, 1)) = Len(node) - 1
        BY <1>2, <4>1, RemoveAtProperties
      <4> HIDE DEF node
      <4> QED BY <4>1, <4>2, EmptySeq
    <3> DEFINE a == PairsBefore(chain, last)
               b == PairsAfter(chain, last)
    <3>4. << >> \in Seq(Pair) /\ a \in Seq(Pair)
      BY <1>1, NodeParts, EmptySeq
    <3>5. FlattenSeq(chain') = a ++ b
      BY <1>1, <3>1, ListAtNode
    <3>6. FlattenSeq(Removed(last, 0)) = (a ++ << >>) ++ b
      <4> DEFINE none == << >>
      <4>1. /\ none \in Seq(Pair)
            /\ Removed(last, 0) = ReplaceAt(chain, last, none)
        BY <3>2, <3>3, <3>4
      <4> HIDE DEF none, a, b
      <4>2. FlattenSeq(ReplaceAt(chain, last, none)) = (a ++ none) ++ b
        <5> HIDE DEF last
        <5> QED BY <1>1, <4>1, ListAtNode DEF a, b
      <4>3. FlattenSeq(Removed(last, 0)) = (a ++ none) ++ b
        BY <4>1, <4>2
      <4> QED BY <4>3 DEF none
    <3>7. a ++ << >> = a
      BY <3>4, RowEmpty
    <3> QED BY <2>1, <3>5, <3>6, <3>7
  <2>2. CASE ~ (index = 0 /\ last > 1)
    BY <2>2 DEF PopLast
  <2> QED BY <2>1, <2>2
<1>5. \E i \in 1 .. Len(List) :
        /\ FlattenSeq(Removed(last, index)) = RemoveAt(List, i)
        /\ List[i] = chain[last][index + 1]
  BY <1>1, <1>3, RemovedFromList
<1> QED BY <1>3, <1>4, <1>5 DEF List

\* Rebinding a key replaces one pair of the list.
LEMMA RebindInList ==
  ASSUME InOrder(chain), NEW c \in 1 .. Len(chain), NEW index \in Nat,
         NEW pair \in Pair, Rebind(c, index, pair)
  PROVE  \E i \in 1 .. Len(List) : /\ List' = ReplaceAt(List, i, pair)
                                   /\ out' = {List[i]}
<1> DEFINE a == PairsBefore(chain, c)
           b == PairsAfter(chain, c)
           node == chain[c]
           i == index + 1
<1>1. chain \in Chains
  BY DEF InOrder
<1>2. /\ a \in Seq(Pair) /\ b \in Seq(Pair) /\ node \in Seq(Pair)
      /\ List = (a ++ node) ++ b
      /\ \A k \in 1 .. Len(node) : /\ Len(a) + k \in 1 .. Len(List)
                                   /\ List[Len(a) + k] = node[k]
  BY ListFacts
<1>3. i \in 1 .. Len(node)
  BY <1>2, LenProperties DEF Count, Rebind
<1>4. chain' = ReplaceAt(chain, c, ReplaceAt(node, i, pair)) /\ out' = {node[i]}
  BY DEF Rebind, ReplaceAt
<1> HIDE DEF i
<1>5. ReplaceAt(node, i, pair) \in Seq(Pair)
  BY <1>2, <1>3, ExceptSeq DEF ReplaceAt
<1>6. List' = (a ++ ReplaceAt(node, i, pair)) ++ b
  BY <1>1, <1>4, <1>5, ListAtNode DEF List
<1> HIDE DEF a, b, node
<1>7. List' = ReplaceAt(List, Len(a) + i, pair)
  BY <1>2, <1>3, <1>6, ReplaceAtWithin
<1> QED BY <1>2, <1>3, <1>4, <1>7

-----------------------------------------------------------------------------
(* Every call changes the list in one place. *)

\* The action of OnePlaceAtATime.
OnePlace ==
  \/ List' = List
  \/ \E i \in 1 .. Len(List) + 1, p \in Pair : List' = InsertAt(List, i, p)
  \/ \E i \in 1 .. Len(List) : /\ List' = RemoveAt(List, i)
                               /\ out' = {List[i]}
  \/ \E i \in 1 .. Len(List), p \in Pair : /\ List' = ReplaceAt(List, i, p)
                                           /\ out' = {List[i]}

\* Every call is one of these.
LEMMA NextOnePlace ==
  Inv /\ [Next]_vars => [OnePlace]_vars
<1> SUFFICES ASSUME Inv, Next
             PROVE  OnePlace
  OBVIOUS
<1>1. InOrder(chain)
  BY DEF Inv
<1>2. Len(chain) \in Nat /\ 1 \in 1 .. Len(chain)
  BY <1>1, LenProperties DEF InOrder, Chains
<1>3. ASSUME NEW c \in 1 .. Len(chain), NEW index \in 0 .. Count(c),
             NEW pair \in Pair, Set(c, index, pair)
      PROVE  OnePlace
  BY <1>1, <1>3, InsertInList, SplitInList DEF Set, OnePlace
<1>4. ASSUME NEW c \in 1 .. Len(chain), NEW index \in Nat,
             NEW pair \in Pair, Rebind(c, index, pair)
      PROVE  OnePlace
  BY <1>1, <1>4, RebindInList DEF OnePlace
<1>5. ASSUME NEW c \in 1 .. Len(chain), NEW index \in Nat, Forget(c, index)
      PROVE  OnePlace
  BY <1>1, <1>5, BalancedInList DEF Forget, OnePlace
<1>6. ASSUME PopFirst
      PROVE  OnePlace
  <2>1. 0 \in Nat /\ 0 < Count(1) /\ chain' = Balance(Removed(1, 0), 1)
    BY <1>1, <1>2, <1>6, NodeFacts DEF PopFirst
  <2>2. out' = {chain[1][0 + 1]}
    BY <1>6 DEF PopFirst
  <2> QED BY <1>1, <1>2, <2>1, <2>2, BalancedInList DEF OnePlace
<1>7. ASSUME PopLast
      PROVE  OnePlace
  BY <1>1, <1>7, PopLastInList DEF OnePlace
<1>8. ASSUME NEW c \in 1 .. Len(chain), NEW index \in Nat,
             Nothing \/ Read(c, index)
      PROVE  OnePlace
  BY <1>8 DEF Nothing, Read, OnePlace, List
<1>9. \A c \in 1 .. Len(chain) : 0 .. Count(c) \subseteq Nat
  OBVIOUS
<1> QED BY <1>2, <1>3, <1>4, <1>5, <1>6, <1>7, <1>8, <1>9 DEF Next

-----------------------------------------------------------------------------

\* skiparray_set, _forget, _pop_first and _pop_last never leave a node with
\* more pairs than its arrays have cells, nor the chain without a node.
THEOREM ChainTypeCorrect == Spec => []TypeOK
<1>1. Inv => TypeOK
  BY InvIsTypeOKAndHalfFull
<1> QED BY <1>1, InitInv, NextInv, PTL DEF Spec

\* split_node and shift_or_merge keep every node but the last half full, and
\* no node empty that has a neighbour, in any order of calls.
THEOREM ChainHalfFull == Spec => []HalfFull
<1>1. Inv => HalfFull
  BY InvIsTypeOKAndHalfFull
<1> QED BY <1>1, InitInv, NextInv, PTL DEF Spec

\* skiparray_set, _forget, _pop_first and _pop_last change the list of all
\* pairs in one place, by the pair they are called with or return, whatever
\* split_node and shift_or_merge move between the nodes.
THEOREM ChainOnePlaceAtATime == Spec => OnePlaceAtATime
<1>1. [OnePlace]_vars <=>
      [\/ List' = List
       \/ \E i \in 1 .. Len(List) + 1, p \in Pair : List' = InsertAt(List, i, p)
       \/ \E i \in 1 .. Len(List) : /\ List' = RemoveAt(List, i)
                                    /\ out' = {List[i]}
       \/ \E i \in 1 .. Len(List), p \in Pair : /\ List' = ReplaceAt(List, i, p)
                                                /\ out' = {List[i]}]_vars
  BY Zenon DEF OnePlace
<1> QED BY <1>1, InitInv, NextInv, NextOnePlace, PTL DEF Spec, OnePlaceAtATime

=============================================================================
