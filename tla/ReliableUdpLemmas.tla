------------------------- MODULE ReliableUdpLemmas --------------------------
(***************************************************************************)
(* What Joined, the items of a sequence of blocks, satisfies; what a flow of*)
(* ReliableUdp keeps while the sender seals, sends, resends, hears and     *)
(* restarts; and what the receiver decodes and drains.                     *)
(***************************************************************************)
EXTENDS ReliableUdp, WellFoundedInduction, TLAPS

(* The order of the numbers, as the library's relation.                     *)
Less == {ss \in Nat \X Nat : ss[1] < ss[2]}

(* It is the library's.                                                     *)
LEMMA LessWellFounded == IsWellFoundedOn(Less, Nat)
<1>1. Less = OpToRel(<, Nat)
  BY DEF OpToRel, Less
<1> QED
  BY <1>1, NatLessThanWellFounded, Zenon

(* A set of numbers has a least one.                                        *)
LEMMA LeastNumber ==
    ASSUME NEW S \in SUBSET Nat, S # {}
    PROVE  \E x \in S : \A y \in S : x <= y
<1>1. \E x \in S : \A y \in S : ~ (<<y, x>> \in Less)
  BY WFMin, LessWellFounded, Zenon
<1>2. PICK x \in S : \A y \in S : ~ (<<y, x>> \in Less)
  BY <1>1
<1>3. ASSUME NEW y \in S PROVE x <= y
  <2>1. ~ (y < x)
    BY <1>2, Zenon DEF Less
  <2> QED
    BY <2>1
<1> QED
  BY <1>3

(* Induction over the numbers, for a set of them.                           *)
LEMMA SetInduction ==
    ASSUME NEW S, 0 \in S, \A n \in Nat : n \in S => n + 1 \in S
    PROVE  \A n \in Nat : n \in S
<1> SUFFICES ASSUME Nat \ S # {} PROVE FALSE
  OBVIOUS
<1>1. PICK x \in Nat \ S : \A y \in Nat \ S : x <= y
  BY LeastNumber, Zenon
<1>2. x # 0 /\ x - 1 \in Nat /\ ~ (x <= x - 1)
  BY <1>1
<1>3. x - 1 \in S
  BY <1>1, <1>2
<1>4. (x - 1) + 1 \in S
  BY <1>2, <1>3
<1> QED
  BY <1>1, <1>4

-----------------------------------------------------------------------------
(* Joined *)

(* The joins of the first sequences of s, up to n of them.                  *)
Running(s, n, f) == f = [i \in 0..n |-> IF i = 0 THEN <<>> ELSE f[i - 1] \o s[i]]

(* The first of them and the next.                                          *)
LEMMA RunningAt ==
    ASSUME NEW s, NEW n \in Nat, NEW f, Running(s, n, f)
    PROVE  f[0] = <<>> /\ \A j \in 0..(n - 1) : f[j + 1] = f[j] \o s[j + 1]
<1> DEFINE g == [i \in 0..n |-> IF i = 0 THEN <<>> ELSE f[i - 1] \o s[i]]
<1>1. g[0] = <<>>
  OBVIOUS
<1>2. ASSUME NEW j \in 0..(n - 1) PROVE g[j + 1] = f[j] \o s[j + 1]
  BY j + 1 \in 0..n, (j + 1) - 1 = j, j + 1 # 0
<1>3. f = g
  BY Zenon DEF Running
<1> QED
  BY <1>1, <1>2, <1>3, Zenon

(* There are such.                                                          *)
LEMMA RunningExists == ASSUME NEW s, NEW n \in Nat PROVE \E f : Running(s, n, f)
<1> DEFINE S == {m \in Nat : \E f : Running(s, m, f)}
<1>1. 0 \in S
  <2>1. Running(s, 0, [i \in 0..0 |-> <<>>])
    BY DEF Running
  <2> QED
    BY <2>1
<1>2. ASSUME NEW m \in Nat, m \in S PROVE m + 1 \in S
  <2>1. PICK g : Running(s, m, g)
    BY <1>2
  <2> DEFINE f == [i \in 0..(m + 1) |-> IF i = m + 1 THEN g[m] \o s[i] ELSE g[i]]
  <2>2. ASSUME NEW i \in 0..(m + 1)
        PROVE  f[i] = IF i = 0 THEN <<>> ELSE f[i - 1] \o s[i]
    <3>1. CASE i = m + 1
      <4>1. i # 0 /\ i - 1 = m /\ i - 1 \in 0..(m + 1) /\ i - 1 # m + 1
        BY <3>1
      <4> QED
        BY <3>1, <4>1, Zenon
    <3>2. CASE i # m + 1
      <4>1. i \in 0..m /\ (i = 0 \/ (i - 1 \in 0..(m - 1) /\ i - 1 \in 0..(m + 1) /\ i - 1 # m + 1))
        BY <3>2
      <4>2. g[i] = IF i = 0 THEN <<>> ELSE g[i - 1] \o s[i]
        <5>1. g[0] = <<>> /\ \A j \in 0..(m - 1) : g[j + 1] = g[j] \o s[j + 1]
          BY <2>1, RunningAt, Zenon
        <5>2. i = 0 \/ g[(i - 1) + 1] = g[i - 1] \o s[(i - 1) + 1]
          BY <4>1, <5>1, Zenon
        <5>3. i = 0 \/ (i - 1) + 1 = i
          OBVIOUS
        <5> QED
          BY <5>1, <5>2, <5>3, Zenon
      <4> QED
        BY <3>2, <4>1, <4>2
    <3> QED
      BY <3>1, <3>2
  <2>3. f = [i \in 0..(m + 1) |-> IF i = 0 THEN <<>> ELSE f[i - 1] \o s[i]]
    BY <2>2, Zenon
  <2>4. Running(s, m + 1, f)
    BY <2>3, Zenon DEF Running
  <2> QED
    BY <2>4
<1>3. \A m \in Nat : m \in S
  <2> HIDE DEF S
  <2> QED
    BY <1>1, <1>2, SetInduction
<1> QED
  BY <1>3

SameUpTo(n, s, t) == \A i \in 1..n : s[i] = t[i]

(* Where two sequences agree, so do their joins.                            *)
LEMMA RunningAgree ==
    ASSUME NEW n \in Nat, NEW s, NEW f, Running(s, n + 1, f), NEW t, NEW g, Running(t, n, g),
           SameUpTo(n, s, t)
    PROVE  f[n] = g[n]
<1> DEFINE S == {j \in Nat : j \in 0..n => f[j] = g[j]}
<1>0. n + 1 \in Nat
  OBVIOUS
<1>1. 0 \in S
  <2>1. f[0] = <<>> /\ g[0] = <<>>
    BY <1>0, RunningAt, Zenon
  <2> QED
    BY <2>1
<1>2. ASSUME NEW j \in Nat, j \in S PROVE j + 1 \in S
  <2> SUFFICES ASSUME j + 1 \in 0..n PROVE f[j + 1] = g[j + 1]
    OBVIOUS
  <2>1. j \in 0..((n + 1) - 1) /\ j \in 0..(n - 1) /\ j + 1 \in 1..n /\ j \in 0..n
    OBVIOUS
  <2>2. s[j + 1] = t[j + 1]
    BY <2>1 DEF SameUpTo
  <2>3. f[j + 1] = f[j] \o s[j + 1]
    BY <1>0, <2>1, RunningAt, Zenon
  <2>4. g[j + 1] = g[j] \o t[j + 1]
    BY <2>1, RunningAt, Zenon
  <2> QED
    BY <1>2, <2>1, <2>2, <2>3, <2>4, Zenon
<1>3. \A j \in Nat : j \in S
  <2> HIDE DEF S
  <2> QED
    BY <1>1, <1>2, SetInduction
<1> QED
  BY <1>3

(* What Joined returns is the last of them.                                 *)
LEMMA JoinedIsLast ==
    ASSUME NEW s, Len(s) \in Nat
    PROVE  \E f : Running(s, Len(s), f) /\ Joined(s) = f[Len(s)]
<1> DEFINE F == CHOOSE f : f = [n \in 0..Len(s) |-> IF n = 0 THEN <<>> ELSE f[n - 1] \o s[n]]
<1>1. \E f : Running(s, Len(s), f)
  BY RunningExists
<1>2. F = [n \in 0..Len(s) |-> IF n = 0 THEN <<>> ELSE F[n - 1] \o s[n]]
  BY <1>1, Zenon DEF Running
<1>3. Running(s, Len(s), F)
  BY <1>2, Zenon DEF Running
<1>4. Joined(s) = F[Len(s)]
  BY Zenon DEF Joined
<1> QED
  BY <1>3, <1>4, Zenon

(* Nothing joined.                                                          *)
LEMMA JoinedEmpty ==
    ASSUME NEW s, Len(s) = 0
    PROVE  Joined(s) = <<>>
<1>1. PICK f : Running(s, 0, f) /\ Joined(s) = f[0]
  BY JoinedIsLast
<1>2. f[0] = <<>>
  BY <1>1, 0 \in Nat, RunningAt, Zenon
<1> QED
  BY <1>1, <1>2

(* One sequence more.                                                       *)
LEMMA JoinedOneMore ==
    ASSUME NEW S, NEW s \in Seq(Seq(S)), NEW n \in Nat, Len(s) = n + 1,
           NEW t \in Seq(Seq(S)), Len(t) = n, \A i \in 1..n : t[i] = s[i],
           Joined(t) \in Seq(S)
    PROVE  Joined(s) = Joined(t) \o s[n + 1] /\ Joined(s) \in Seq(S)
<1>1. PICK f : Running(s, n + 1, f) /\ Joined(s) = f[n + 1]
  BY JoinedIsLast, SMTT(30)
<1>2. PICK g : Running(t, n, g) /\ Joined(t) = g[n]
  BY JoinedIsLast, Zenon
<1>3. f[n] = g[n]
  <2>1. SameUpTo(n, s, t)
    BY DEF SameUpTo
  <2> QED
    BY <1>1, <1>2, <2>1, RunningAgree
<1>4. f[n + 1] = f[n] \o s[n + 1]
  <2>1. n + 1 \in Nat /\ n \in 0..((n + 1) - 1)
    OBVIOUS
  <2> QED
    BY <1>1, <2>1, RunningAt, Zenon
<1>5. Joined(s) = Joined(t) \o s[n + 1]
  BY <1>1, <1>2, <1>3, <1>4, Zenon
<1>6. s[n + 1] \in Seq(S)
  OBVIOUS
<1>7. Joined(t) \o s[n + 1] \in Seq(S)
  BY <1>6
<1> QED
  BY <1>5, <1>7, Zenon

(* It is a sequence of what the sequences are sequences of.                 *)
LEMMA JoinedType ==
    ASSUME NEW S, NEW s \in Seq(Seq(S))
    PROVE  Joined(s) \in Seq(S)
<1> DEFINE A == {n \in Nat : \A t \in Seq(Seq(S)) : Len(t) = n => Joined(t) \in Seq(S)}
<1>1. 0 \in A
  <2> SUFFICES ASSUME NEW t \in Seq(Seq(S)), Len(t) = 0 PROVE Joined(t) \in Seq(S)
    OBVIOUS
  <2>1. Joined(t) = <<>>
    BY JoinedEmpty
  <2> QED
    BY <2>1
<1>2. ASSUME NEW n \in Nat, n \in A PROVE n + 1 \in A
  <2> SUFFICES ASSUME NEW t \in Seq(Seq(S)), Len(t) = n + 1 PROVE Joined(t) \in Seq(S)
    OBVIOUS
  <2> DEFINE u == [i \in 1..n |-> t[i]]
  <2>1. u \in Seq(Seq(S)) /\ Len(u) = n /\ \A i \in 1..n : u[i] = t[i]
    OBVIOUS
  <2>2. Joined(u) \in Seq(S)
    BY <1>2, <2>1
  <2> HIDE DEF u
  <2> QED
    BY <2>1, <2>2, JoinedOneMore, Zenon
<1>3. \A n \in Nat : n \in A
  <2> HIDE DEF A
  <2> QED
    BY <1>1, <1>2, SetInduction, Zenon
<1> QED
  BY <1>3

(* Concatenation is associative.                                            *)
LEMMA ConcatAssoc ==
    ASSUME NEW S, NEW x \in Seq(S), NEW y \in Seq(S), NEW z \in Seq(S)
    PROVE  (x \o y) \o z = x \o (y \o z)
<1> DEFINE l == (x \o y) \o z  r == x \o (y \o z)
<1>1. Len(l) = Len(r) /\ l \in Seq(S) /\ r \in Seq(S)
  OBVIOUS
<1>2. ASSUME NEW i \in 1..Len(l) PROVE l[i] = r[i]
  OBVIOUS
<1> QED
  BY <1>1, <1>2

(* Joining a prefix and the rest.                                           *)
LEMMA JoinedConcat ==
    ASSUME NEW S, NEW s \in Seq(Seq(S)), NEW a \in Nat, NEW b \in Nat, Len(s) = a + b
    PROVE  Joined(s) = Joined([i \in 1..a |-> s[i]]) \o Joined([i \in 1..b |-> s[a + i]])
<1> DEFINE P(t, n) == Joined(t) = Joined([i \in 1..a |-> t[i]])
                                      \o Joined([i \in 1..n |-> t[a + i]])
           A == {n \in Nat : \A t \in Seq(Seq(S)) : Len(t) = a + n => P(t, n)}
<1>1. 0 \in A
  <2> SUFFICES ASSUME NEW t \in Seq(Seq(S)), Len(t) = a PROVE P(t, 0)
    OBVIOUS
  <2>1. [i \in 1..a |-> t[i]] = t
    OBVIOUS
  <2>2. Joined([i \in 1..0 |-> t[a + i]]) = <<>>
    <3>1. Len([i \in 1..0 |-> t[a + i]]) = 0
      OBVIOUS
    <3> QED
      BY <3>1, JoinedEmpty
  <2>3. Joined(t) \in Seq(S)
    BY JoinedType
  <2>4. Joined(t) = Joined(t) \o <<>>
    BY <2>3
  <2> QED
    BY <2>1, <2>2, <2>4, Zenon
<1>2. ASSUME NEW n \in Nat, n \in A PROVE n + 1 \in A
  <2>1. ASSUME NEW t \in Seq(Seq(S)), Len(t) = a + (n + 1) PROVE P(t, n + 1)
    <3> DEFINE u == [i \in 1..(a + n) |-> t[i]]
               x == [i \in 1..a |-> t[i]]
               y == [i \in 1..n |-> t[a + i]]
               z == [i \in 1..(n + 1) |-> t[a + i]]
    <3>1. u \in Seq(Seq(S)) /\ Len(u) = a + n /\ \A i \in 1..(a + n) : u[i] = t[i]
      BY <2>1
    <3>2. x \in Seq(Seq(S)) /\ y \in Seq(Seq(S)) /\ Len(y) = n
      BY <2>1
    <3>3. z \in Seq(Seq(S)) /\ Len(z) = n + 1 /\ z[n + 1] = t[a + n + 1] /\ \A i \in 1..n : y[i] = z[i]
      BY <2>1
    <3>4. [i \in 1..a |-> u[i]] = x /\ [i \in 1..n |-> u[a + i]] = y
      BY <2>1
    <3>5. Joined(u) = Joined(x) \o Joined(y)
      BY <1>2, <3>1, <3>4, Zenon
    <3>6. t[a + n + 1] \in Seq(S) /\ a + n \in Nat /\ Len(t) = (a + n) + 1
      BY <2>1
    <3> HIDE DEF u, x, y, z
    <3>7. Joined(u) \in Seq(S) /\ Joined(x) \in Seq(S) /\ Joined(y) \in Seq(S)
      BY <3>1, <3>2, JoinedType
    <3>8. Joined(t) = Joined(u) \o t[a + n + 1]
      BY <2>1, <3>1, <3>6, <3>7, JoinedOneMore, Zenon
    <3>9. Joined(z) = Joined(y) \o t[a + n + 1]
      <4>1. Joined(z) = Joined(y) \o z[n + 1]
        BY <3>2, <3>3, <3>7, JoinedOneMore, Zenon
      <4> QED
        BY <3>3, <4>1, Zenon
    <3>10. (Joined(x) \o Joined(y)) \o t[a + n + 1] = Joined(x) \o (Joined(y) \o t[a + n + 1])
      <4>1. \A p, q, r \in Seq(S) : (p \o q) \o r = p \o (q \o r)
        BY ConcatAssoc, SMTT(30)
      <4> QED
        BY <3>6, <3>7, <4>1, Zenon
    <3>11. Joined(t) = Joined(x) \o Joined(z)
      BY <3>5, <3>8, <3>9, <3>10
    <3> QED
      BY <3>11 DEF x, z
  <2>2. n + 1 \in Nat
    OBVIOUS
  <2> HIDE DEF P
  <2> QED
    BY <2>1, <2>2
<1>3. \A n \in Nat : n \in A
  <2> HIDE DEF A
  <2> QED
    BY <1>1, <1>2, SetInduction
<1> QED
  BY <1>3, Zenon

(* Joining singletons.                                                      *)
LEMMA JoinedSingletons ==
    ASSUME NEW S, NEW s \in Seq(S)
    PROVE  Joined([i \in 1..Len(s) |-> <<s[i]>>]) = s
<1> DEFINE ones(t) == [i \in 1..Len(t) |-> <<t[i]>>]
           A == {n \in Nat : \A t \in Seq(S) : Len(t) = n => Joined(ones(t)) = t}
<1>1. 0 \in A
  <2> SUFFICES ASSUME NEW t \in Seq(S), Len(t) = 0 PROVE Joined(ones(t)) = t
    OBVIOUS
  <2>1. Len(ones(t)) = 0 /\ t = <<>>
    OBVIOUS
  <2> HIDE DEF ones
  <2> QED
    BY <2>1, JoinedEmpty
<1>2. ASSUME NEW n \in Nat, n \in A PROVE n + 1 \in A
  <2> SUFFICES ASSUME NEW t \in Seq(S), Len(t) = n + 1 PROVE Joined(ones(t)) = t
    OBVIOUS
  <2> DEFINE u == [i \in 1..n |-> t[i]]
  <2>1. u \in Seq(S) /\ Len(u) = n
    OBVIOUS
  <2>2. Joined(ones(u)) = u
    BY <1>2, <2>1
  <2>3. ones(t) \in Seq(Seq(S)) /\ Len(ones(t)) = n + 1 /\ ones(t)[n + 1] = <<t[n + 1]>>
    OBVIOUS
  <2>4. ones(u) \in Seq(Seq(S)) /\ Len(ones(u)) = n /\ \A i \in 1..n : ones(u)[i] = ones(t)[i]
    BY <2>1
  <2>5. t = u \o <<t[n + 1]>>
    OBVIOUS
  <2>6. Joined(ones(t)) = Joined(ones(u)) \o ones(t)[n + 1]
    <3> HIDE DEF ones
    <3>1. Joined(ones(u)) \in Seq(S)
      BY <2>1, <2>2
    <3> QED
      BY <2>3, <2>4, <3>1, JoinedOneMore, Zenon
  <2> QED
    BY <2>2, <2>3, <2>5, <2>6, Zenon
<1>3. \A n \in Nat : n \in A
  <2> HIDE DEF A
  <2> QED
    BY <1>1, <1>2, SetInduction
<1> QED
  BY <1>3

-----------------------------------------------------------------------------
(* The sender *)

(* The blocks of every session stay as they are; more may follow.           *)
Grown ==
    /\ blocks' \in [Epochs -> Seq(Block)]
    /\ \A e \in Epochs : /\ Len(blocks[e]) <= Len(blocks'[e])
                         /\ \A n \in 1..Len(blocks[e]) : blocks'[e][n] = blocks[e][n]

(* What a shard was computed from stays what it says.                       *)
LEMMA StaysGenuine ==
    ASSUME UTypeOK, Grown, NEW e \in Epochs, NEW b \in Nat, NEW x,
           b < Len(blocks[e]), x = blocks[e][b + 1].items
    PROVE  b < Len(blocks'[e]) /\ x = blocks'[e][b + 1].items
<1>1. Len(blocks[e]) \in Nat /\ Len(blocks'[e]) \in Nat
  BY DEF UTypeOK, Grown
<1>2. b + 1 \in 1..Len(blocks[e]) /\ Len(blocks[e]) <= Len(blocks'[e])
  BY <1>1 DEF Grown
<1>3. blocks'[e][b + 1] = blocks[e][b + 1]
  BY <1>2 DEF Grown
<1>4. b < Len(blocks'[e])
  BY <1>1, <1>2
<1> QED
  BY <1>3, <1>4

(* seal_block numbers the block after the blocks before it.                 *)
LEMMA SealGrows ==
    ASSUME UTypeOK, NEW items \in Seq(Item), NEW r \in Nat, Seal(items, r)
    PROVE  /\ Grown
           /\ \A e \in Epochs : e # session => blocks'[e] = blocks[e]
           /\ Len(blocks'[session]) = Len(blocks[session]) + 1
           /\ blocks'[session][Len(blocks[session]) + 1].items = items
<1> DEFINE blk == [items |-> items, r |-> r]
           old == blocks[session]
           new == Append(old, blk)
<1>1. blk \in Block /\ blk.items = items
  BY DEF Block
<1>2. session \in Epochs /\ old \in Seq(Block)
  BY DEF UTypeOK
<1>3. /\ new \in Seq(Block) /\ Len(new) = Len(old) + 1 /\ new[Len(old) + 1] = blk
      /\ \A n \in 1..Len(old) : new[n] = old[n]
  <2> HIDE DEF blk, old
  <2> QED
    BY <1>1, <1>2
<1>4. blocks' = [blocks EXCEPT ![session] = new]
  BY DEF Seal
<1> HIDE DEF new, blk
<1>5. blocks'[session] = new /\ \A e \in Epochs : e # session => blocks'[e] = blocks[e]
  BY <1>2, <1>4 DEF UTypeOK
<1>6. Grown
  <2>1. blocks' \in [Epochs -> Seq(Block)]
    BY <1>2, <1>3, <1>4 DEF UTypeOK
  <2>2. ASSUME NEW e \in Epochs
        PROVE  Len(blocks[e]) <= Len(blocks'[e]) /\ \A n \in 1..Len(blocks[e]) : blocks'[e][n] = blocks[e][n]
    <3>1. Len(blocks[e]) \in Nat
      BY DEF UTypeOK
    <3> QED
      BY <1>3, <1>5, <3>1
  <2> QED
    BY <2>1, <2>2 DEF Grown
<1> QED
  BY <1>1, <1>3, <1>5, <1>6

(* A block sealed while the flow window is open keeps the invariant.        *)
LEMMA SealKeepsInv ==
    ASSUME UInv, NEW items \in Seq(Item), NEW r \in Nat, Seal(items, r),
           next_block - acked_through < FlowWindow,
           UNCHANGED <<session, acked_through, control, receiver, plan>>
    PROVE  UInv'
<1>0. /\ session \in Epochs /\ next_block \in Nat /\ acked_through \in Nat
      /\ next_deliver[session] \in Nat /\ acked_through <= next_deliver[session]
      /\ FlowWindow \in Nat /\ WindowCap \in Nat /\ FlowWindow <= WindowCap /\ K \in Nat
      /\ MaxUdpItems \in Nat
  BY UdpAssumption DEF UInv, UTypeOK, Frontier, next_block
<1>1. /\ Grown
      /\ \A e \in Epochs : e # session => blocks'[e] = blocks[e]
      /\ Len(blocks'[session]) = next_block + 1
      /\ blocks'[session][next_block + 1].items = items
  BY SealGrows DEF UInv, next_block
<1>2. next_block < next_deliver[session] + WindowCap
  <2> HIDE DEF next_block
  <2> QED
    BY <1>0
<1>3. ASSUME NEW d \in data', d \notin data
      PROVE  d \in Datagram /\ d.epoch = session /\ d.block = next_block /\ d.items = items
  <2>1. PICK i \in 0..(K + r - 1) :
            d = [epoch |-> session, block |-> next_block, index |-> i, r |-> r, items |-> items]
    BY <1>3 DEF Seal
  <2>2. i \in Nat
    BY <1>0, <2>1
  <2> QED
    BY <1>0, <2>1, <2>2 DEF Datagram
<1>4. UTypeOK'
  <2>1. data' \in SUBSET Datagram
    BY <1>3 DEF UInv, UTypeOK
  <2>2. pending' \in SUBSET Nat /\ staged' \in Seq(Item)
    BY <1>0 DEF Seal, UInv, UTypeOK
  <2> QED
    BY <1>1, <2>1, <2>2 DEF UInv, UTypeOK, receiver, Grown
<1>5. Frontier'
  <2>1. ASSUME NEW e \in Epochs PROVE next_deliver[e] <= Len(blocks'[e])
    <3>1. next_deliver[e] <= Len(blocks[e]) /\ Len(blocks[e]) <= Len(blocks'[e])
      BY <1>1 DEF UInv, Frontier, Grown
    <3>2. next_deliver[e] \in Nat /\ Len(blocks[e]) \in Nat /\ Len(blocks'[e]) \in Nat
      BY <1>0, <1>1, SMTT(30) DEF UInv, UTypeOK, Grown
    <3> QED
      BY <3>1, <3>2
  <2> QED
    BY <2>1 DEF UInv, Frontier, receiver
<1>6. ShardsGenuine'
  <2>1. ASSUME NEW d \in data'
        PROVE  d.block < Len(blocks'[d.epoch]) /\ d.items = blocks'[d.epoch][d.block + 1].items
    <3>1. CASE d \in data
      <4>1. d.epoch \in Epochs /\ d.block \in Nat
        BY <3>1 DEF UInv, UTypeOK, Datagram
      <4>2. d.block < Len(blocks[d.epoch]) /\ d.items = blocks[d.epoch][d.block + 1].items
        BY <3>1 DEF UInv, ShardsGenuine
      <4> QED
        BY <1>1, <4>1, <4>2, StaysGenuine, SMTT(30) DEF UInv
    <3>2. CASE d \notin data
      BY <1>0, <1>1, <1>3, <3>2
    <3> QED
      BY <3>1, <3>2
  <2>2. ASSUME NEW e \in Epochs, NEW b \in BlockIds, NEW s \in window[e][b]
        PROVE  b < Len(blocks'[e]) /\ s.items = blocks'[e][b + 1].items
    <3>1. b \in Nat
      BY <1>0 DEF BlockIds
    <3>2. b < Len(blocks[e]) /\ s.items = blocks[e][b + 1].items
      BY DEF UInv, ShardsGenuine
    <3> QED
      BY <1>1, <3>1, <3>2, StaysGenuine DEF UInv
  <2> QED
    BY <2>1, <2>2 DEF ShardsGenuine, receiver
<1>7. FlowKept'
  <2>1. pending' = pending \cup {next_block} /\ staged' = <<>>
    BY DEF Seal
  <2>2. ASSUME NEW b \in pending' PROVE b < next_block + 1 /\ b < next_deliver[session] + WindowCap
    <3>1. CASE b \in pending
      <4>1. b < next_block /\ b \in Nat /\ b < next_deliver[session] + WindowCap
        BY <3>1 DEF UInv, FlowKept, UTypeOK
      <4> HIDE DEF next_block
      <4> QED
        BY <1>0, <4>1
    <3>2. CASE b = next_block
      <4> HIDE DEF next_block
      <4> QED
        BY <1>0, <1>2, <3>2
    <3> QED
      BY <2>1, <3>1, <3>2
  <2>3. \A e \in Epochs : e > session => blocks'[e] = <<>>
    BY <1>0, <1>1 DEF UInv, FlowKept, Epochs
  <2> QED
    BY <1>1, <2>1, <2>2, <2>3 DEF FlowKept, next_block, receiver
<1>8. HeldUntilPassed'
  <2>1. pending' = pending \cup {next_block}
    BY DEF Seal
  <2>2. ASSUME NEW b \in 0..(Len(blocks'[session]) - 1) PROVE b \in pending' \/ b < next_deliver[session]
    <3>1. b \in 0..(next_block - 1) \/ b = next_block
      <4>1. b \in 0..next_block
        BY <1>0, <1>1
      <4> HIDE DEF next_block
      <4> QED
        BY <1>0, <4>1
    <3> QED
      BY <2>1, <3>1 DEF UInv, HeldUntilPassed
  <2> QED
    BY <2>2 DEF HeldUntilPassed, next_block, receiver
<1>9. WindowNeverRefuses'
  <2>1. ASSUME NEW d \in data' PROVE d.block < next_deliver[d.epoch] + WindowCap
    <3>1. CASE d \in data
      BY <3>1 DEF UInv, WindowNeverRefuses
    <3>2. CASE d \notin data
      BY <1>2, <1>3, <3>2
    <3> QED
      BY <3>1, <3>2
  <2> QED
    BY <2>1 DEF WindowNeverRefuses, receiver
<1> QED
  BY <1>4, <1>5, <1>6, <1>7, <1>8, <1>9 DEF UInv

(* push and flush seal the block under construction.                        *)
LEMMA SendKeepsInv ==
    ASSUME UInv, UNCHANGED plan, FlushBlock \/ \E size \in Sizes : PushItem(size)
    PROVE  UInv' /\ Grown
<1>0. /\ plan \in Plans /\ staged \in Seq(Item) /\ \A r \in plan.parities : r \in Nat
      /\ blocks \in [Epochs -> Seq(Block)] /\ session \in Epochs
  BY UdpAssumption DEF UInv, UTypeOK
<1>1. CASE FlushBlock
  <2>1. next_block - acked_through < FlowWindow
    BY <1>1 DEF FlushBlock, UInv, FlowKept
  <2>2. PICK r \in plan.parities : Seal(staged, r)
    BY <1>1 DEF FlushBlock
  <2> QED
    BY <1>0, <1>1, <2>1, <2>2, SealKeepsInv, SealGrows DEF FlushBlock, UInv
<1>2. ASSUME NEW size \in Sizes, PushItem(size) PROVE UInv' /\ Grown
  <2> DEFINE items == Append(staged, <<Pushed + 1, size>>)
  <2>1. Pushed \in Nat
    <3> DEFINE all == [n \in 1..next_block |-> blocks[session][n].items]
    <3>1. all \in Seq(Seq(Item))
      <4>1. next_block \in Nat /\ \A n \in 1..next_block : blocks[session][n] \in Block
        BY <1>0 DEF next_block
      <4>2. \A n \in 1..next_block : blocks[session][n].items \in Seq(Item)
        BY <4>1 DEF Block
      <4> HIDE DEF next_block
      <4> QED
        BY <4>1, <4>2
    <3>2. Joined(all) \in Seq(Item)
      BY <3>1, JoinedType
    <3>3. Len(Joined(all)) \in Nat /\ Len(staged) \in Nat
      BY <1>0, <3>2
    <3> QED
      BY <3>3 DEF Pushed
  <2>2. <<Pushed + 1, size>> \in Item
    BY <2>1 DEF Item
  <2>3. items \in Seq(Item) /\ items # <<>>
    BY <1>0, <2>2, SMTT(30)
  <2>4. next_block - acked_through < FlowWindow
    <3>1. next_block \in Nat /\ acked_through \in Nat /\ FlowWindow \in Nat
      BY <1>0, UdpAssumption DEF UInv, UTypeOK, next_block
    <3>2. ~ (next_block - acked_through >= FlowWindow)
      BY <1>2 DEF PushItem, FlowBlocked
    <3> HIDE DEF next_block
    <3> QED
      BY <3>1, <3>2
  <2> HIDE DEF items
  <2>5. CASE \E r \in plan.parities : Seal(items, r)
    <3>1. PICK r \in plan.parities : Seal(items, r)
      BY <2>5, SMTT(30)
    <3> QED
      BY <1>0, <1>2, <2>3, <2>4, <3>1, SealKeepsInv, SealGrows DEF PushItem, UInv
  <2>6. CASE staged' = items /\ UNCHANGED <<blocks, pending, data>>
    BY <1>2, <2>3, <2>4, <2>6 DEF PushItem, UInv, UTypeOK, Frontier, ShardsGenuine, FlowKept,
          HeldUntilPassed, WindowNeverRefuses, next_block, receiver, Grown
  <2> QED
    BY <1>2, <2>5, <2>6 DEF PushItem, items
<1> QED
  BY <1>1, <1>2

(* The datagrams of blocks that are held.                                   *)
LEMMA ShardsOfHeld ==
    ASSUME UInv, NEW b \in pending, NEW I \in SUBSET Nat, NEW d \in Shards(b, I)
    PROVE  /\ d \in Datagram /\ d.epoch = session /\ d.block = b
           /\ b < Len(blocks[session]) /\ d.items = blocks[session][b + 1].items
           /\ b < next_deliver[session] + WindowCap
<1> DEFINE blk == blocks[session][b + 1]
<1>1. /\ b \in Nat /\ session \in Epochs /\ blocks[session] \in Seq(Block)
      /\ b < Len(blocks[session]) /\ b < next_deliver[session] + WindowCap
  BY DEF UInv, UTypeOK, FlowKept, next_block
<1>2. b + 1 \in 1..Len(blocks[session])
  BY <1>1
<1>3. blk \in Block
  BY <1>1, <1>2
<1>4. PICK i \in I : d = [epoch |-> session, block |-> b, index |-> i, r |-> blk.r, items |-> blk.items]
  BY DEF Shards
<1> HIDE DEF blk
<1>5. /\ d \in Datagram /\ d.epoch = session /\ d.block = b /\ d.items = blk.items
  BY <1>1, <1>3, <1>4, Zenon DEF Datagram, Block
<1> QED
  BY <1>1, <1>5 DEF blk

(* Datagrams of blocks that are held may be added at any time.              *)
LEMMA ResendKeepsInv ==
    ASSUME UInv, \A d \in data' : d \in data \/ \E b \in pending, I \in SUBSET Nat : d \in Shards(b, I),
           UNCHANGED <<sender, control, receiver, plan>>
    PROVE  UInv'
<1>1. ASSUME NEW d \in data'
      PROVE  /\ d \in Datagram /\ d.block < Len(blocks[d.epoch])
             /\ d.items = blocks[d.epoch][d.block + 1].items
             /\ d.block < next_deliver[d.epoch] + WindowCap
  <2>1. CASE d \in data
    BY <2>1 DEF UInv, UTypeOK, ShardsGenuine, WindowNeverRefuses
  <2>2. CASE \E b \in pending, I \in SUBSET Nat : d \in Shards(b, I)
    BY <2>2, ShardsOfHeld
  <2> QED
    BY <1>1, <2>1, <2>2
<1>2. UTypeOK'
  BY <1>1 DEF UInv, UTypeOK, sender, receiver
<1>3. Frontier' /\ FlowKept' /\ HeldUntilPassed'
  BY DEF UInv, Frontier, FlowKept, HeldUntilPassed, next_block, sender, receiver
<1>4. ShardsGenuine'
  BY <1>1 DEF UInv, ShardsGenuine, sender, receiver
<1>5. WindowNeverRefuses'
  BY <1>1 DEF WindowNeverRefuses, receiver
<1> QED
  BY <1>2, <1>3, <1>4, <1>5 DEF UInv

(* probe_block and retransmit_all_data send blocks that are held.           *)
LEMMA ResendIsHeld ==
    ASSUME UInv, NEW bs \in SUBSET pending, Resend(bs), UNCHANGED plan
    PROVE  UInv'
<1>1. 0..(K - 1) \in SUBSET Nat
  BY UdpAssumption
<1>2. ASSUME NEW d \in data' PROVE d \in data \/ \E b \in pending, I \in SUBSET Nat : d \in Shards(b, I)
  <2> SUFFICES ASSUME d \notin data PROVE \E b \in pending, I \in SUBSET Nat : d \in Shards(b, I)
    OBVIOUS
  <2>1. PICK b \in bs : d \in Shards(b, 0..(K - 1))
    BY DEF Resend
  <2> QED
    BY <1>1, <2>1, Zenon
<1> QED
  BY <1>2, ResendKeepsInv DEF Resend

(* What the network loses breaks nothing.                                   *)
LEMMA LossKeepsInv ==
    ASSUME UInv, data' \in SUBSET data, control' \in SUBSET control,
           UNCHANGED <<sender, next_deliver, window, delivered, skipped, plan>>
    PROVE  UInv'
<1>1. UTypeOK'
  BY DEF UInv, UTypeOK, sender
<1>2. Frontier'
  BY DEF UInv, Frontier, sender
<1>3. ShardsGenuine' /\ WindowNeverRefuses'
  BY DEF UInv, ShardsGenuine, WindowNeverRefuses, sender
<1>4. FlowKept' /\ HeldUntilPassed'
  BY DEF UInv, FlowKept, HeldUntilPassed, next_block, sender
<1> QED
  BY <1>1, <1>2, <1>3, <1>4 DEF UInv

(* A later acknowledgement leaves more room.                                *)
LEMMA LaterAck ==
    ASSUME NEW n \in Nat, NEW a \in Nat, NEW b \in Nat, NEW w \in Nat, a <= b, n - a < w
    PROVE  n - b < w
OBVIOUS

(* A frontier that moves takes the window with it.                          *)
LEMMA FartherBound ==
    ASSUME NEW b \in Nat, NEW n \in Nat, NEW m \in Nat, NEW w \in Nat, b < n + w, n <= m
    PROVE  b < m + w
OBVIOUS

(* Feedback frees the blocks below an acknowledgement, and what is asked    *)
(* for again is held.                                                       *)
LEMMA FeedbackKeepsInv ==
    ASSUME UInv, UNCHANGED plan, NEW f \in control, NEW dup \in BOOLEAN, FeedbackArrives(f, dup)
    PROVE  UInv'
<1> DEFINE held == {b \in pending : b >= f.ack}
           I == f.mask \cap 0..(K + blocks[session][f.nak + 1].r - 1)
<1>0. /\ f \in Feedback /\ f.epoch \in Epochs /\ f.ack \in Nat /\ f.mask \in SUBSET Nat
      /\ acked_through \in Nat /\ session \in Epochs /\ next_deliver[session] \in Nat
      /\ next_block \in Nat /\ pending \in SUBSET Nat /\ FlowWindow \in Nat /\ MaxUdpItems \in Nat
  BY UdpAssumption DEF UInv, UTypeOK, Feedback, next_block
<1>1. control' \in SUBSET control /\ UNCHANGED <<session, staged, blocks, receiver>> /\ OnFeedback(f)
  BY Zenon DEF FeedbackArrives, OnFeedback
<1>2. CASE f.epoch # session
  <2>1. UNCHANGED <<sender, data, receiver>>
    BY <1>1, <1>2 DEF OnFeedback, sender
  <2> QED
    BY <1>1, <2>1, LossKeepsInv DEF receiver
<1>3. CASE f.epoch = session
  <2>1. /\ acked_through' = IF f.ack > acked_through THEN f.ack ELSE acked_through
        /\ pending' = held
        /\ data' = IF f.nak \in held THEN data \cup Shards(f.nak, I) ELSE data
    BY <1>1, <1>3, Zenon DEF OnFeedback
  <2>2. f.ack <= next_deliver[session] /\ acked_through <= next_deliver[session]
    BY <1>3 DEF UInv, Frontier
  <2>3. /\ acked_through' \in Nat /\ acked_through <= acked_through'
        /\ acked_through' <= next_deliver[session]
    BY <1>0, <2>1, <2>2
  <2>4. ASSUME NEW d \in data'
        PROVE  /\ d \in Datagram /\ d.block < Len(blocks[d.epoch])
               /\ d.items = blocks[d.epoch][d.block + 1].items
               /\ d.block < next_deliver[d.epoch] + WindowCap
    <3>1. CASE d \in data
      BY <3>1 DEF UInv, UTypeOK, ShardsGenuine, WindowNeverRefuses
    <3>2. CASE d \notin data
      <4>1. f.nak \in pending /\ d \in Shards(f.nak, I)
        BY <2>1, <3>2
      <4>2. I \in SUBSET Nat
        BY <1>0, SMTT(30)
      <4> HIDE DEF I
      <4> QED
        BY <4>1, <4>2, ShardsOfHeld
    <3> QED
      BY <3>1, <3>2
  <2>5. UTypeOK'
    BY <1>0, <1>1, <2>1, <2>3, <2>4, Zenon DEF UInv, UTypeOK, receiver
  <2>6. Frontier'
    BY <1>1, <2>3, Zenon DEF UInv, Frontier, receiver
  <2>7. ShardsGenuine'
    BY <1>1, <2>4, SMTT(30) DEF UInv, ShardsGenuine, receiver
  <2>8. FlowKept'
    <3>1. staged # <<>> => next_block - acked_through' < FlowWindow
      <4>1. staged # <<>> => next_block - acked_through < FlowWindow
        BY DEF UInv, FlowKept
      <4> HIDE DEF next_block
      <4> QED
        BY <1>0, <2>3, <4>1, LaterAck, Zenon
    <3> QED
      BY <1>1, <2>1, <3>1 DEF UInv, FlowKept, next_block, receiver
  <2>9. HeldUntilPassed'
    <3>1. ASSUME NEW b \in 0..(next_block - 1) PROVE b \in held \/ b < next_deliver[session]
      <4>1. b \in Nat
        BY <1>0
      <4>2. b \in pending \/ b < next_deliver[session]
        BY DEF UInv, HeldUntilPassed
      <4> HIDE DEF next_block
      <4> QED
        BY <1>0, <2>2, <4>1, <4>2
    <3> QED
      BY <1>1, <2>1, <3>1 DEF HeldUntilPassed, next_block, receiver
  <2>10. WindowNeverRefuses'
    BY <1>1, <2>4 DEF WindowNeverRefuses, receiver
  <2> QED
    BY <2>5, <2>6, <2>7, <2>8, <2>9, <2>10 DEF UInv
<1> QED
  BY <1>2, <1>3

(* A new session starts with nothing sent.                                  *)
LEMMA RestartKeepsInv ==
    ASSUME UInv, UNCHANGED plan, Restart
    PROVE  UInv'
<1>1. /\ session' = session + 1 /\ session \in Nat /\ session' \in Epochs
      /\ UNCHANGED <<blocks, data, control, receiver, faults>>
      /\ staged' = <<>> /\ pending' = {} /\ acked_through' = 0
  BY UdpAssumption DEF Restart, UInv, UTypeOK, Epochs
<1>2. blocks[session'] = <<>> /\ next_deliver[session'] \in Nat
  BY <1>1, UdpAssumption DEF UInv, UTypeOK, FlowKept
<1>3. UTypeOK'
  BY <1>1, SMTT(30) DEF UInv, UTypeOK, receiver
<1>4. Frontier'
  BY <1>1, <1>2 DEF UInv, Frontier, receiver
<1>5. ShardsGenuine' /\ WindowNeverRefuses'
  BY <1>1 DEF UInv, ShardsGenuine, WindowNeverRefuses, receiver
<1>6. FlowKept'
  <2>1. ASSUME NEW e \in Epochs, e > session' PROVE blocks[e] = <<>>
    BY <1>1, <2>1 DEF UInv, FlowKept, Epochs
  <2> QED
    BY <1>1, <2>1, Zenon DEF FlowKept, receiver
<1>7. HeldUntilPassed'
  BY <1>1, <1>2 DEF HeldUntilPassed, next_block, receiver
<1> QED
  BY <1>3, <1>4, <1>5, <1>6, <1>7 DEF UInv

-----------------------------------------------------------------------------
(* The receiver *)

(* What the recursive function behind Cardinality satisfies.                *)
Counts(S, f) == f = [T \in SUBSET S |-> IF T = {} THEN 0 ELSE 1 + f[T \ {CHOOSE x : x \in T}]]

(* The empty set has no element.                                            *)
LEMMA CardinalityEmpty == Cardinality({}) = 0
<1> DEFINE f == [T \in SUBSET {} |-> 0]
           c == CHOOSE g : Counts({}, g)
<1>1. Counts({}, f)
  <2>1. \A T \in SUBSET {} : T = {}
    OBVIOUS
  <2> QED
    BY <2>1 DEF Counts
<1>2. Counts({}, c)
  BY <1>1, Zenon
<1>3. c[{}] = 0
  BY <1>2, Zenon DEF Counts
<1>4. Cardinality({}) = c[{}]
  BY Zenon DEF Cardinality, Counts
<1> QED
  BY <1>3, <1>4

(* A singleton has one.                                                     *)
LEMMA CardinalityOne ==
    ASSUME NEW a
    PROVE  Cardinality({a}) = 1
<1> DEFINE f == [T \in SUBSET {a} |-> IF T = {} THEN 0 ELSE 1]
           c == CHOOSE g : Counts({a}, g)
<1>0. \A T \in SUBSET {a} : T # {} => (CHOOSE x : x \in T) = a /\ T \ {a} = {}
  <2>1. ASSUME NEW T \in SUBSET {a}, T # {} PROVE T = {a}
    BY <2>1
  <2>2. (CHOOSE x : x \in {a}) = a
    OBVIOUS
  <2> QED
    BY <2>1, <2>2
<1>1. Counts({a}, f)
  <2>1. \A T \in SUBSET {a} : T # {} => f[T \ {CHOOSE x : x \in T}] = 0
    BY <1>0
  <2> QED
    BY <2>1 DEF Counts
<1>2. Counts({a}, c)
  BY <1>1, Zenon
<1>3. c[{}] = 0
  BY <1>2, Zenon DEF Counts
<1>4. c[{a}] = 1 + c[{a} \ {CHOOSE x : x \in {a}}]
  BY <1>2, Zenon DEF Counts
<1>5. {a} \ {CHOOSE x : x \in {a}} = {}
  BY <1>0
<1>6. Cardinality({a}) = c[{a}]
  BY Zenon DEF Cardinality, Counts
<1> QED
  BY <1>3, <1>4, <1>5, <1>6

(* The receiver has delivered the blocks below to.                          *)
DrainedTo(e, win, from, to) ==
    /\ \A b \in from..(to - 1) : Decoded(win[b])
    /\ next_deliver' = [next_deliver EXCEPT ![e] = to]
    /\ window' = [window EXCEPT ![e] = [b \in BlockIds |-> IF b < to THEN {} ELSE win[b]]]
    /\ delivered' = [delivered EXCEPT ![e] = @ \o
           Joined([n \in 1..(to - from) |-> Unpadded(ItemsOf(win[from + n - 1]))])]

(* drain_in_order stops somewhere: at the first block that is not decoded.  *)
LEMMA DrainStops ==
    ASSUME NEW e \in Epochs, NEW win, NEW from \in 0..MaxUdpItems, Drain(e, win, from)
    PROVE  \E to \in from..MaxUdpItems : DrainedTo(e, win, from, to)
<1> DEFINE Stop(n) == /\ \A b \in from..(n - 1) : Decoded(win[b])
                      /\ n < MaxUdpItems => ~Decoded(win[n])
           A == {n \in from..MaxUdpItems : n < MaxUdpItems => ~Decoded(win[n])}
           stop == CHOOSE n \in from..MaxUdpItems : Stop(n)
<1>0. MaxUdpItems \in Nat
  BY UdpAssumption
<1>1. \E n \in from..MaxUdpItems : Stop(n)
  <2>1. A \in SUBSET Nat /\ MaxUdpItems \in A
    BY <1>0
  <2>2. PICK n \in A : \A m \in A : n <= m
    <3> HIDE DEF A
    <3> QED
      BY <2>1, LeastNumber
  <2>3. n \in from..MaxUdpItems /\ (n < MaxUdpItems => ~Decoded(win[n]))
    OBVIOUS
  <2>4. ASSUME NEW b \in from..(n - 1) PROVE Decoded(win[b])
    <3>1. b \in from..MaxUdpItems /\ ~ (n <= b)
      BY <1>0, <2>3
    <3>2. b \notin A
      BY <2>2, <3>1
    <3> QED
      BY <3>1, <3>2
  <2> QED
    BY <2>3, <2>4
<1>2. stop \in from..MaxUdpItems /\ Stop(stop)
  <2> HIDE DEF Stop
  <2> QED
    BY <1>1, Zenon
<1>3. /\ next_deliver' = [next_deliver EXCEPT ![e] = stop]
      /\ window' = [window EXCEPT ![e] = [b \in BlockIds |-> IF b < stop THEN {} ELSE win[b]]]
      /\ delivered' = [delivered EXCEPT ![e] = @ \o
             Joined([n \in 1..(stop - from) |-> Unpadded(ItemsOf(win[from + n - 1]))])]
  BY Zenon DEF Drain
<1>4. DrainedTo(e, win, from, stop)
  BY <1>2, <1>3, Zenon DEF DrainedTo
<1> QED
  BY <1>2, <1>4, Zenon

(* The shards of a window all say the block and session they are in.        *)
Genuine(e, win) ==
    \A b \in BlockIds : \A s \in win[b] : b < Len(blocks[e]) /\ s.items = blocks[e][b + 1].items

(* A decoded block is a sealed one, and decodes to its items.               *)
LEMMA DecodesToItems ==
    ASSUME NEW e, NEW win, Genuine(e, win), NEW b \in BlockIds, Decoded(win[b])
    PROVE  b < Len(blocks[e]) /\ ItemsOf(win[b]) = blocks[e][b + 1].items
<1> DEFINE shards == win[b]
<1>1. shards # {}
  <2> SUFFICES ASSUME shards = {} PROVE FALSE
    OBVIOUS
  <2>1. {s.index : s \in shards} = {}
    OBVIOUS
  <2>2. Cardinality({s.index : s \in shards}) = 0
    BY <2>1, CardinalityEmpty
  <2> QED
    BY <2>2, UdpAssumption DEF Decoded
<1>2. \A s \in shards : b < Len(blocks[e]) /\ s.items = blocks[e][b + 1].items
  BY DEF Genuine
<1>3. {s.items : s \in shards} = {blocks[e][b + 1].items}
  BY <1>1, <1>2
<1>4. Cardinality({s.items : s \in shards}) = 1
  BY <1>3, CardinalityOne, Zenon
<1>5. (CHOOSE s \in shards : TRUE) \in shards
  BY <1>1
<1>6. ItemsOf(shards) = (CHOOSE s \in shards : TRUE).items
  BY <1>4 DEF ItemsOf
<1> QED
  BY <1>1, <1>2, <1>5, <1>6

(* Unpadding takes nothing from a block of items that are not empty.        *)
LEMMA UnpaddedType ==
    ASSUME NEW items \in Seq(Item)
    PROVE  Unpadded(items) \in Seq(Item)
<1> DEFINE u == [n \in DOMAIN items |-> IF IsItem(items[n]) THEN <<items[n]>> ELSE <<>>]
<1>1. u \in Seq(Seq(Item))
  <2>1. DOMAIN items = 1..Len(items) /\ Len(items) \in Nat
    OBVIOUS
  <2>2. \A n \in 1..Len(items) : items[n] \in Item
    OBVIOUS
  <2>3. \A n \in 1..Len(items) : (IF IsItem(items[n]) THEN <<items[n]>> ELSE <<>>) \in Seq(Item)
    BY <2>2
  <2> QED
    BY <2>1, <2>3
<1> HIDE DEF u
<1>2. Joined(u) \in Seq(Item)
  BY <1>1, JoinedType
<1> QED
  BY <1>2 DEF Unpadded, u

(* Only items of length 0 are taken for padding.                            *)
LEMMA UnpaddedItems ==
    ASSUME 0 \notin Sizes, NEW items \in Seq(Item)
    PROVE  Unpadded(items) = items
<1>1. DOMAIN items = 1..Len(items) /\ \A n \in 1..Len(items) : IsItem(items[n])
  <2>1. ASSUME NEW x \in Item PROVE IsItem(x)
    <3>1. x[2] \in Sizes
      BY DEF Item
    <3>2. x[2] \in Nat /\ x[2] # 0
      BY <3>1, UdpAssumption, Zenon
    <3> QED
      BY <3>2 DEF IsItem
  <2> QED
    BY <2>1
<1>2. [n \in DOMAIN items |-> IF IsItem(items[n]) THEN <<items[n]>> ELSE <<>>]
      = [n \in 1..Len(items) |-> <<items[n]>>]
  BY <1>1
<1>3. Joined([n \in 1..Len(items) |-> <<items[n]>>]) = items
  BY JoinedSingletons
<1> QED
  BY <1>2, <1>3, Zenon DEF Unpadded
=============================================================================
