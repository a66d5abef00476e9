---------------------- MODULE SemaphoreOnceCellProofs -----------------------
(***************************************************************************)
(* SharedOnceCell for every set of processes and any number of deaths.     *)
(* SharedSemaphore for any finite set of threads, any number of permits    *)
(* and any width of the count: no permit appears or disappears             *)
(* unaccounted, the waiter count is balanced, and no more than max_permits *)
(* threads hold a permit while callers have added no more permits than     *)
(* there is room for.                                                      *)
(***************************************************************************)
EXTENDS SharedSemaphore, SharedOnceCell, FiniteSetTheorems, TLAPS

-----------------------------------------------------------------------------
(* SharedOnceCell *)

(* The zeroed region is an empty cell.                                      *)
LEMMA OInitInv == OInit => OInv
<1> SUFFICES ASSUME OInit PROVE OInv
  OBVIOUS
<1>1. OTypeOK
  BY DEF OInit, OTypeOK
<1>2. Producing = {} /\ \A p \in Procs : opc[p] = "idle"
  BY DEF OInit, Producing
<1> QED
  BY <1>1, <1>2, ReclaimersAssumption DEF OInit, OInv

(* With one reclaimer, every step keeps the invariant.                      *)
LEMMA ONextInv ==
    ASSUME \A p, q \in Reclaimers : p = q
    PROVE  OInv /\ [ONext]_ovars => OInv'
<1> SUFFICES ASSUME OInv, [ONext]_ovars PROVE OInv'
  OBVIOUS
<1> USE DEF cell, ovars, OGo, At
<1>1. CASE UNCHANGED ovars
  BY <1>1 DEF OInv, OTypeOK, Producing, Wiping
<1>2. ASSUME NEW p \in Procs, Claim(p) PROVE OInv'
  BY <1>2, FreshAssumption, ReclaimersAssumption DEF OInv, OTypeOK, Producing, Wiping, Claim
<1>3. ASSUME NEW p \in Procs, Stamp(p) PROVE OInv'
  BY <1>3, FreshAssumption, ReclaimersAssumption DEF OInv, OTypeOK, Producing, Wiping, Stamp
<1>4. ASSUME NEW p \in Procs, CallPublish(p) PROVE OInv'
  BY <1>4, FreshAssumption, ReclaimersAssumption DEF OInv, OTypeOK, Producing, Wiping, CallPublish
<1>5. ASSUME NEW p \in Procs, PublishCheckState(p) PROVE OInv'
  BY <1>5, FreshAssumption, ReclaimersAssumption DEF OInv, OTypeOK, Producing, Wiping, PublishCheckState
<1>6. ASSUME NEW p \in Procs, PublishCheckPid(p) PROVE OInv'
  BY <1>6, FreshAssumption, ReclaimersAssumption DEF OInv, OTypeOK, Producing, Wiping, PublishCheckPid
<1>7. ASSUME NEW p \in Procs, PublishCopy(p) PROVE OInv'
  BY <1>7, FreshAssumption, ReclaimersAssumption DEF OInv, OTypeOK, Producing, Wiping, PublishCopy
<1>8. ASSUME NEW p \in Procs, PublishUnstamp(p) PROVE OInv'
  BY <1>8, FreshAssumption, ReclaimersAssumption DEF OInv, OTypeOK, Producing, Wiping, PublishUnstamp
<1>9. ASSUME NEW p \in Procs, PublishStore(p) PROVE OInv'
  BY <1>9, FreshAssumption, ReclaimersAssumption DEF OInv, OTypeOK, Producing, Wiping, PublishStore
<1>10. ASSUME NEW p \in Procs, TryGet(p) PROVE OInv'
  BY <1>10, FreshAssumption, ReclaimersAssumption DEF OInv, OTypeOK, Producing, Wiping, TryGet
<1>11. ASSUME NEW p \in Procs, TryGetCopy(p) PROVE OInv'
  BY <1>11, FreshAssumption, ReclaimersAssumption DEF OInv, OTypeOK, Producing, Wiping, TryGetCopy
<1>12. ASSUME NEW p \in Procs, ClaimAgain(p) PROVE OInv'
  BY <1>12, FreshAssumption, ReclaimersAssumption DEF OInv, OTypeOK, Producing, Wiping, ClaimAgain
<1>13. ASSUME NEW p \in Procs, ReclaimState(p) PROVE OInv'
  BY <1>13, FreshAssumption, ReclaimersAssumption DEF OInv, OTypeOK, Producing, Wiping, ReclaimState
<1>14. ASSUME NEW p \in Procs, ReclaimPid(p) PROVE OInv'
  BY <1>14, FreshAssumption, ReclaimersAssumption DEF OInv, OTypeOK, Producing, Wiping, ReclaimPid
<1>15. ASSUME NEW p \in Procs, ReclaimBreak(p) PROVE OInv'
  BY <1>15, FreshAssumption, ReclaimersAssumption DEF OInv, OTypeOK, Producing, Wiping, ReclaimBreak
<1>16. ASSUME NEW p \in Procs, ReclaimWipe(p) PROVE OInv'
  BY <1>16, FreshAssumption, ReclaimersAssumption DEF OInv, OTypeOK, Producing, Wiping, ReclaimWipe
<1>17. ASSUME NEW p \in Procs, Die(p) PROVE OInv'
  BY <1>17, FreshAssumption, ReclaimersAssumption DEF OInv, OTypeOK, Producing, Wiping, Die
<1> QED
  BY <1>1, <1>2, <1>3, <1>4, <1>5, <1>6, <1>7, <1>8, <1>9, <1>10, <1>11, <1>12, <1>13, <1>14, <1>15, <1>16, <1>17
     DEF ONext, Publish, Wait, Reclaim

(* The value is produced once however many processes ask at once, and       *)
(* wherever claimants die, as long as one process does the reclaiming.      *)
THEOREM OnceCellOneProducer ==
    ASSUME \A p, q \in Reclaimers : p = q
    PROVE  OSpec => []OneProducer
<1>1. OInv /\ [ONext]_ovars => OInv'
  BY ONextInv
<1>2. OInv => OneProducer
  <2> SUFFICES ASSUME OInv PROVE Cardinality(Producing) <= 1
    BY DEF OneProducer
  <2>1. \A p, q \in Producing : p = q
    BY DEF OInv
  <2>2. CASE Producing = {}
    BY <2>2, FS_EmptySet
  <2>3. CASE Producing # {}
    <3>1. PICK p \in Producing : TRUE
      BY <2>3
    <3>2. Producing = {p}
      BY <2>1, <3>1
    <3>3. Cardinality(Producing) = 1
      BY <3>2, FS_Singleton
    <3> QED
      BY <3>3
  <2> QED
    BY <2>2, <2>3
<1> QED
  BY <1>1, <1>2, OInitInv, PTL DEF OSpec

-----------------------------------------------------------------------------
(* SharedSemaphore *)

Those(A) == {u \in Threads : pc[u] \in A}
Ind(b) == IF b THEN 1 ELSE 0

(* How a move of thread t changes the number of threads whose pc is in A.   *)
LEMMA Moved ==
    ASSUME pc \in [Threads -> States], NEW t \in Threads, NEW s \in States, Go(t, s), NEW A
    PROVE  /\ Cardinality(Those(A)) \in Nat /\ Cardinality(Those(A)') \in Nat
           /\ Cardinality(Those(A)') = Cardinality(Those(A)) + Ind(s \in A) - Ind(pc[t] \in A)
<1> DEFINE C == Those(A)
           D == Those(A)'
<1> USE DEF Those, Ind
<1>1. IsFiniteSet(C) /\ Cardinality(C) \in Nat /\ IsFiniteSet(D) /\ Cardinality(D) \in Nat
  BY ThreadsAssumption, FS_Subset, FS_CardinalityType
<1>2. CASE pc[t] \in A <=> s \in A
  <2>1. C = D
    BY <1>2 DEF Go
  <2> HIDE DEF C, D
  <2>2. Cardinality(D) = Cardinality(C) + Ind(s \in A) - Ind(pc[t] \in A)
    BY <1>1, <1>2, <2>1
  <2> QED
    BY <1>1, <2>2 DEF C, D
<1>3. CASE pc[t] \in A /\ s \notin A
  <2>1. D = C \ {t} /\ t \in C
    BY <1>3 DEF Go
  <2> HIDE DEF C, D
  <2>2. Cardinality(D) = Cardinality(C) - 1
    BY <1>1, <2>1, FS_RemoveElement
  <2> QED
    BY <1>1, <1>3, <2>2 DEF C, D
<1>4. CASE pc[t] \notin A /\ s \in A
  <2>1. D = C \cup {t} /\ t \notin C
    BY <1>4 DEF Go
  <2> HIDE DEF C, D
  <2>2. Cardinality(D) = Cardinality(C) + 1
    BY <1>1, <2>1, FS_AddElement
  <2> QED
    BY <1>1, <1>4, <2>2 DEF C, D
<1> QED
  BY <1>2, <1>3, <1>4

(* Two numbers that agree modulo m go on agreeing when their difference     *)
(* stays or moves by m.                                                     *)
LEMMA ModStep ==
    ASSUME NEW m \in Nat, m > 0, NEW x \in Int, NEW y \in Int, NEW p \in Int, NEW q \in Int,
           x % m = y % m,
           p - q = x - y \/ p - q = x - y + m \/ p - q = x - y - m
    PROVE  p % m = q % m
<1> DEFINE qx == x \div m  qy == y \div m  qp == p \div m  qq == q \div m
           rx == x % m  ry == y % m  rp == p % m  rq == q % m
<1>1. /\ qx \in Int /\ qy \in Int /\ qp \in Int /\ qq \in Int
      /\ rx \in 0..(m - 1) /\ ry \in 0..(m - 1) /\ rp \in 0..(m - 1) /\ rq \in 0..(m - 1)
      /\ x = m * qx + rx /\ y = m * qy + ry /\ p = m * qp + rp /\ q = m * qq + rq
  OBVIOUS
<1>2. rx = ry
  OBVIOUS
<1> HIDE DEF qx, qy, qp, qq, rx, ry, rp, rq
<1> DEFINE d == qx - qy - qp + qq
<1>3. d \in Int /\ x - y = m * (qx - qy) /\ p - q = m * (qp - qq) + (rp - rq)
  BY <1>1, <1>2
<1>4. \E k \in Int : rp - rq = m * k
  <2>1. CASE p - q = x - y
    <3>1. rp - rq = m * d
      BY <1>1, <1>3, <2>1
    <3> HIDE DEF d
    <3> QED BY <1>3, <3>1, Zenon
  <2>2. CASE p - q = x - y + m
    <3>1. rp - rq = m * (d + 1) /\ d + 1 \in Int
      BY <1>1, <1>3, <2>2
    <3> HIDE DEF d
    <3> QED BY <3>1, Zenon
  <2>3. CASE p - q = x - y - m
    <3>1. rp - rq = m * (d - 1) /\ d - 1 \in Int
      BY <1>1, <1>3, <2>3
    <3> HIDE DEF d
    <3> QED BY <3>1, Zenon
  <2> QED
    BY <2>1, <2>2, <2>3
<1>5. PICK k \in Int : rp - rq = m * k
  BY <1>4
<1>6. rp - rq < m /\ rp - rq > 0 - m
  BY <1>1
<1>7. CASE k = 0
  <2>1. rp = rq
    BY <1>1, <1>5, <1>7
  <2> QED
    BY <2>1 DEF rp, rq
<1>8. CASE k >= 1
  BY <1>1, <1>5, <1>6, <1>8
<1>9. CASE k <= 0 - 1
  BY <1>1, <1>5, <1>6, <1>9
<1> QED
  BY <1>7, <1>8, <1>9

(* fetch_add(1) and fetch_sub(1) on a word of m values.                     *)
LEMMA WrapUp == ASSUME NEW m \in Nat, NEW c \in Nat, c < m
                PROVE  (c + 1) % m = IF c + 1 = m THEN 0 ELSE c + 1
OBVIOUS

LEMMA WrapDown == ASSUME NEW m \in Nat, NEW c \in Nat, c < m
                  PROVE  (c + m - 1) % m = IF c = 0 THEN m - 1 ELSE c - 1
<1>1. CASE c = 0
  BY <1>1
<1>2. CASE c > 0
  <2>1. c + m - 1 = m * 1 + (c - 1) /\ c - 1 \in 0..(m - 1)
    BY <1>2
  <2> QED
    BY <1>2, <2>1
<1> QED
  BY <1>1, <1>2

(* Room for the bare releases made so far is room for those made before.    *)
LEMMA RoomBefore ==
    ASSUME NEW i \in Nat, NEW j \in Nat, NEW k \in Nat, NEW m \in Nat, j >= k, i + j <= m
    PROVE  i + k <= m
OBVIOUS

(* The count and the holders together move as the accepted releases do.     *)
LEMMA BalanceStep ==
    ASSUME NEW c \in Nat, NEW c1 \in Nat, NEW k \in Nat, NEW k1 \in Nat, NEW a \in Nat, NEW a1 \in Nat,
           NEW i \in Nat, NEW x \in Nat, NEW y \in Nat,
           k1 = k + x - y, (c1 - c) + x - y = a1 - a, c + k = i + a
    PROVE  c1 + k1 = i + a1
OBVIOUS

HoldPc == {"hold", "drop"}
RollPc == {"drop_back", "bare_back"}
WaitPc == {"snap", "recheck", "spin", "leave"}
BarePc == {"bare"}

(* Moved, for the four sets that the invariant counts.                      *)
LEMMA Counts ==
    ASSUME TypeOK, NEW t \in Threads, NEW s \in States, Go(t, s)
    PROVE  /\ Cardinality(Holders) \in Nat /\ Cardinality(Holders') \in Nat
           /\ Cardinality(RollingBack) \in Nat /\ Cardinality(RollingBack') \in Nat
           /\ Cardinality(Waiting) \in Nat /\ Cardinality(Waiting') \in Nat
           /\ Cardinality(BareCalls) \in Nat /\ Cardinality(BareCalls') \in Nat
           /\ Cardinality(Holders') = Cardinality(Holders) + Ind(s \in HoldPc) - Ind(pc[t] \in HoldPc)
           /\ Cardinality(RollingBack')
                = Cardinality(RollingBack) + Ind(s \in RollPc) - Ind(pc[t] \in RollPc)
           /\ Cardinality(Waiting') = Cardinality(Waiting) + Ind(s \in WaitPc) - Ind(pc[t] \in WaitPc)
           /\ Cardinality(BareCalls')
                = Cardinality(BareCalls) + Ind(s \in BarePc) - Ind(pc[t] \in BarePc)
<1>0. pc \in [Threads -> States]
  BY DEF TypeOK
<1>1. /\ Holders = Those(HoldPc) /\ Holders' = Those(HoldPc)'
      /\ RollingBack = Those(RollPc) /\ RollingBack' = Those(RollPc)'
      /\ Waiting = Those(WaitPc) /\ Waiting' = Those(WaitPc)'
      /\ BareCalls = Those(BarePc) /\ BareCalls' = Those(BarePc)'
  BY DEF Holders, RollingBack, Waiting, BareCalls, Those, HoldPc, RollPc, WaitPc, BarePc
<1>2. \A A \in {HoldPc, RollPc, WaitPc, BarePc} :
        /\ Cardinality(Those(A)) \in Nat /\ Cardinality(Those(A)') \in Nat
        /\ Cardinality(Those(A)') = Cardinality(Those(A)) + Ind(s \in A) - Ind(pc[t] \in A)
  BY <1>0, Moved
<1> QED
  BY <1>1, <1>2

(* A step keeps the invariant when what it does to the count, the ghosts    *)
(* and the waiter count is what its move from pc[t] to s does to the sets.  *)
Imbalance(t, s) == (count' - count) + Ind(s \in HoldPc) - Ind(pc[t] \in HoldPc)
                    - (added' - added) - Ind(s \in RollPc) + Ind(pc[t] \in RollPc) + (lost' - lost)
Books(t, s) == /\ Imbalance(t, s) = 0 \/ Imbalance(t, s) = CountMod \/ Imbalance(t, s) = 0 - CountMod
               /\ waiters' = waiters + Ind(s \in WaitPc) - Ind(pc[t] \in WaitPc)
               /\ bare' >= bare
               /\ added' + Ind(s \in BarePc) - Ind(pc[t] \in BarePc) - added <= bare' - bare
               /\ InitPermits + bare <= MaxPermits =>
                    s \notin RollPc /\ (count' - count) + Ind(s \in HoldPc) - Ind(pc[t] \in HoldPc) = added' - added

LEMMA BooksKeepInductive ==
    ASSUME Inductive, TypeOK', NEW t \in Threads, NEW s \in States, Go(t, s), Books(t, s),
           \A u \in Threads : pc'[u] = "cas" => seen'[u] > 0
    PROVE  Inductive'
<1>0. /\ TypeOK /\ WaitersBalanced /\ PermitsAccountedFor
      /\ added + Cardinality(BareCalls) <= bare
      /\ InitPermits + bare <= MaxPermits =>
           RollingBack = {} /\ count + Cardinality(Holders) = InitPermits + added
  BY DEF Inductive
<1>1. /\ count \in Nat /\ waiters \in Nat /\ bare \in Nat /\ added \in Nat /\ lost \in Nat
      /\ count' \in Nat /\ waiters' \in Nat /\ bare' \in Nat /\ added' \in Nat /\ lost' \in Nat
      /\ InitPermits \in Nat /\ MaxPermits \in Nat /\ CountMod \in Nat /\ CountMod > 0
  BY <1>0, PermitsAssumption, BoundsAssumption DEF TypeOK
<1>2. /\ Ind(s \in HoldPc) \in Nat /\ Ind(pc[t] \in HoldPc) \in Nat
      /\ Ind(s \in RollPc) \in Nat /\ Ind(pc[t] \in RollPc) \in Nat
      /\ Ind(s \in WaitPc) \in Nat /\ Ind(pc[t] \in WaitPc) \in Nat
      /\ Ind(s \in BarePc) \in Nat /\ Ind(pc[t] \in BarePc) \in Nat
  BY DEF Ind
<1> DEFINE h == Cardinality(Holders)  h1 == Cardinality(Holders')
           r == Cardinality(RollingBack)  r1 == Cardinality(RollingBack')
           w == Cardinality(Waiting)  w1 == Cardinality(Waiting')
           b == Cardinality(BareCalls)  b1 == Cardinality(BareCalls')
<1>3. /\ h \in Nat /\ h1 \in Nat /\ r \in Nat /\ r1 \in Nat /\ w \in Nat /\ w1 \in Nat /\ b \in Nat /\ b1 \in Nat
      /\ h1 = h + Ind(s \in HoldPc) - Ind(pc[t] \in HoldPc)
      /\ r1 = r + Ind(s \in RollPc) - Ind(pc[t] \in RollPc)
      /\ w1 = w + Ind(s \in WaitPc) - Ind(pc[t] \in WaitPc)
      /\ b1 = b + Ind(s \in BarePc) - Ind(pc[t] \in BarePc)
  BY <1>0, Counts
<1>4. WaitersBalanced'
  BY <1>0, <1>1, <1>2, <1>3 DEF WaitersBalanced, Books
<1>5. PermitsAccountedFor'
  <2> DEFINE x == count + h  y == InitPermits + added + r - lost
             p == count' + h1  q == InitPermits + added' + r1 - lost'
  <2>1. x \in Int /\ y \in Int /\ p \in Int /\ q \in Int
    BY <1>1, <1>3
  <2>2. x % CountMod = y % CountMod
    BY <1>0 DEF PermitsAccountedFor
  <2>3. p - q = x - y \/ p - q = x - y + CountMod \/ p - q = x - y - CountMod
    BY <1>1, <1>2, <1>3, SMTT(30) DEF Books, Imbalance
  <2> HIDE DEF x, y, p, q
  <2>4. p % CountMod = q % CountMod
    BY <1>1, <2>1, <2>2, <2>3, ModStep
  <2> QED
    BY <2>4 DEF p, q, PermitsAccountedFor
<1>6. added' + b1 <= bare'
  BY <1>0, <1>1, <1>2, <1>3 DEF Books
<1>7. ASSUME InitPermits + bare' <= MaxPermits
      PROVE  RollingBack' = {} /\ count' + h1 = InitPermits + added'
  <2>0. bare' >= bare
    BY DEF Books
  <2>1. InitPermits + bare <= MaxPermits
    BY <1>1, <1>7, <2>0, RoomBefore, Zenon
  <2>2. s \notin RollPc /\ (count' - count) + Ind(s \in HoldPc) - Ind(pc[t] \in HoldPc) = added' - added
    BY <2>1 DEF Books
  <2>3. RollingBack' = {}
    BY <1>0, <2>1, <2>2 DEF RollingBack, RollPc, Go, TypeOK
  <2>4. count + h = InitPermits + added
    BY <1>0, <2>1
  <2>5. count' + h1 = InitPermits + added'
    <3> DEFINE x == Ind(s \in HoldPc)
               y == Ind(pc[t] \in HoldPc)
    <3>1. /\ x \in Nat /\ y \in Nat /\ h1 = h + x - y
          /\ (count' - count) + x - y = added' - added
      BY <1>2, <1>3, <2>2
    <3> HIDE DEF h, h1, x, y
    <3> QED
      BY <1>1, <1>3, <2>4, <3>1, BalanceStep
  <2> QED
    BY <2>3, <2>5
<1> QED
  BY <1>4, <1>5, <1>6, <1>7 DEF Inductive

THEOREM InitInductive == Init => Inductive
<1> SUFFICES ASSUME Init PROVE Inductive
  OBVIOUS
<1>1. /\ InitPermits \in Nat /\ CountMod \in Nat /\ InitPermits < CountMod /\ MaxBare \in Nat
      /\ MaxPermits \in Nat
  BY PermitsAssumption, BoundsAssumption
<1>2. TypeOK
  BY <1>1 DEF Init, TypeOK, States
<1>3. Holders = {} /\ RollingBack = {} /\ Waiting = {} /\ BareCalls = {}
  BY DEF Init, Holders, RollingBack, Waiting, BareCalls
<1>4. Cardinality({}) = 0
  BY FS_EmptySet
<1>5. count = InitPermits /\ added = 0 /\ lost = 0 /\ bare = 0 /\ waiters = 0
  BY DEF Init
<1>6. /\ Cardinality(Holders) = 0 /\ Cardinality(RollingBack) = 0
      /\ Cardinality(Waiting) = 0 /\ Cardinality(BareCalls) = 0
  BY <1>3, <1>4
<1>7. PermitsAccountedFor /\ WaitersBalanced /\ added + Cardinality(BareCalls) <= bare
  BY <1>1, <1>5, <1>6 DEF PermitsAccountedFor, WaitersBalanced
<1>8. count + Cardinality(Holders) = InitPermits + added
  BY <1>1, <1>5, <1>6
<1> QED
  BY <1>2, <1>3, <1>7, <1>8 DEF Inductive, Init

(* While there is room, a release finds the count below max_permits.        *)
LEMMA RoomToRelease ==
    ASSUME Inductive, NEW t \in Threads, pc[t] \in {"drop", "bare"}, InitPermits + bare <= MaxPermits
    PROVE  count < MaxPermits
<1> DEFINE h == Cardinality(Holders)
           b == Cardinality(BareCalls)
<1>1. /\ TypeOK /\ added + b <= bare /\ count + h = InitPermits + added
  BY DEF Inductive
<1>2. /\ count \in Nat /\ bare \in Nat /\ added \in Nat /\ InitPermits \in Nat /\ MaxPermits \in Nat
  BY <1>1, PermitsAssumption, BoundsAssumption DEF TypeOK
<1>3. /\ IsFiniteSet(Holders) /\ h \in Nat /\ (h = 0 <=> Holders = {})
      /\ IsFiniteSet(BareCalls) /\ b \in Nat /\ (b = 0 <=> BareCalls = {})
  BY ThreadsAssumption, FS_Subset, FS_CardinalityType, FS_EmptySet, Zenon DEF Holders, BareCalls
<1>4. t \in Holders \/ t \in BareCalls
  BY DEF Holders, BareCalls
<1>5. h > 0 \/ b > 0
  BY <1>3, <1>4
<1> HIDE DEF h, b
<1> QED
  BY <1>1, <1>2, <1>3, <1>5

THEOREM NextInductive == Inductive /\ [Next]_vars => Inductive'
<1> SUFFICES ASSUME Inductive, [Next]_vars PROVE Inductive'
  OBVIOUS
<1>0. TypeOK /\ WaitersBalanced /\ \A u \in Threads : pc[u] = "cas" => seen[u] > 0
  BY DEF Inductive
<1>1. CASE UNCHANGED vars
  BY <1>1 DEF Inductive, TypeOK, WaitersBalanced, PermitsAccountedFor, vars, sem, ghosts,
              Holders, RollingBack, Waiting, BareCalls
<1>2. CASE Next
  <2>0. /\ count \in Nat /\ count < CountMod /\ waiters \in Nat /\ bare \in Nat /\ added \in Nat
        /\ lost \in Nat /\ CountMod \in Nat /\ CountMod > 1 /\ MaxPermits \in Nat
        /\ MaxPermits + 1 < CountMod /\ MaxBare \in Nat /\ InitPermits \in Nat
    BY <1>0, PermitsAssumption, BoundsAssumption DEF TypeOK
  <2> USE DEF HoldPc, RollPc, WaitPc, BarePc, Ind
  <2>1. PICK t \in Threads :
           \/ Call(t) \/ Load(t) \/ Cas(t) \/ Enter(t) \/ Snap(t) \/ Recheck(t) \/ Spin(t) \/ Leave(t)
           \/ Drop(t) \/ CallRelease(t) \/ ReleaseAdd(t) \/ Rollback(t) \/ ReadWaiters(t) \/ Bump(t)
    BY <1>2 DEF Next
  <2>2. SUFFICES \E s \in States : /\ TypeOK' /\ Go(t, s) /\ Books(t, s)
                                    /\ \A u \in Threads : pc'[u] = "cas" => seen'[u] > 0
    BY BooksKeepInductive
  <2>3. CASE Call(t)
    <3>1. TypeOK' /\ Go(t, "load") /\ \A u \in Threads : pc'[u] = "cas" => seen'[u] > 0
      BY <1>0, <2>0, <2>3 DEF Call, TypeOK, States, Go, sem, ghosts
    <3>2. Books(t, "load")
      BY <2>0, <2>3 DEF Call, Books, Imbalance, sem, ghosts
    <3> QED
      BY <3>1, <3>2 DEF States
  <2>4. CASE Load(t)
    <3>1. CASE Go(t, "cas") /\ count > 0
      <4>1. TypeOK' /\ Go(t, "cas") /\ \A u \in Threads : pc'[u] = "cas" => seen'[u] > 0
        BY <1>0, <2>0, <2>4, <3>1 DEF Load, TypeOK, States, Go, sem, ghosts
      <4>2. Books(t, "cas")
        BY <2>0, <2>4, <3>1 DEF Load, Books, Imbalance, sem, ghosts
      <4> QED
        BY <4>1, <4>2 DEF States
    <3>2. CASE Go(t, "idle") /\ count = 0
      <4>1. TypeOK' /\ Go(t, "idle") /\ \A u \in Threads : pc'[u] = "cas" => seen'[u] > 0
        BY <1>0, <2>0, <2>4, <3>2 DEF Load, TypeOK, States, Go, sem, ghosts
      <4>2. Books(t, "idle")
        BY <2>0, <2>4, <3>2 DEF Load, Books, Imbalance, sem, ghosts
      <4> QED
        BY <4>1, <4>2 DEF States
    <3>3. CASE Go(t, "enter") /\ count = 0
      <4>1. TypeOK' /\ Go(t, "enter") /\ \A u \in Threads : pc'[u] = "cas" => seen'[u] > 0
        BY <1>0, <2>0, <2>4, <3>3 DEF Load, TypeOK, States, Go, sem, ghosts
      <4>2. Books(t, "enter")
        BY <2>0, <2>4, <3>3 DEF Load, Books, Imbalance, sem, ghosts
      <4> QED
        BY <4>1, <4>2 DEF States
    <3> QED
      BY <2>0, <2>4, <3>1, <3>2, <3>3 DEF Load
  <2>5. CASE Cas(t)
    <3>1. CASE count = seen[t] /\ count' = seen[t] - 1 /\ Go(t, "hold")
      <4>1. TypeOK' /\ Go(t, "hold") /\ \A u \in Threads : pc'[u] = "cas" => seen'[u] > 0
        BY <1>0, <2>0, <2>5, <3>1 DEF Cas, TypeOK, States, Go, sem, ghosts
      <4>2. Books(t, "hold")
        BY <2>0, <2>5, <3>1 DEF Cas, Books, Imbalance, sem, ghosts
      <4> QED
        BY <4>1, <4>2 DEF States
    <3>2. CASE Go(t, "load") /\ UNCHANGED count
      <4>1. TypeOK' /\ Go(t, "load") /\ \A u \in Threads : pc'[u] = "cas" => seen'[u] > 0
        BY <1>0, <2>0, <2>5, <3>2 DEF Cas, TypeOK, States, Go, sem, ghosts
      <4>2. Books(t, "load")
        BY <2>0, <2>5, <3>2, SMTT(30) DEF Cas, Books, Imbalance, sem, ghosts
      <4> QED
        BY <4>1, <4>2 DEF States
    <3> QED
      BY <2>0, <2>5, <3>1, <3>2 DEF Cas
  <2>6. CASE Enter(t)
    <3>1. TypeOK' /\ Go(t, "snap") /\ \A u \in Threads : pc'[u] = "cas" => seen'[u] > 0
      BY <1>0, <2>0, <2>6 DEF Enter, TypeOK, States, Go, sem, ghosts
    <3>2. Books(t, "snap")
      BY <2>0, <2>6 DEF Enter, Books, Imbalance, sem, ghosts
    <3> QED
      BY <3>1, <3>2 DEF States
  <2>7. CASE Snap(t)
    <3>1. TypeOK' /\ Go(t, "recheck") /\ \A u \in Threads : pc'[u] = "cas" => seen'[u] > 0
      BY <1>0, <2>0, <2>7 DEF Snap, TypeOK, States, Go, sem, ghosts
    <3>2. Books(t, "recheck")
      BY <2>0, <2>7 DEF Snap, Books, Imbalance, sem, ghosts
    <3> QED
      BY <3>1, <3>2 DEF States
  <2>8. CASE Recheck(t)
    <3>1. CASE count > 0
      <4>1. TypeOK' /\ Go(t, "leave") /\ \A u \in Threads : pc'[u] = "cas" => seen'[u] > 0
        BY <1>0, <2>0, <2>8, <3>1 DEF Recheck, TypeOK, States, Go, sem, ghosts
      <4>2. Books(t, "leave")
        BY <2>0, <2>8, <3>1 DEF Recheck, Books, Imbalance, sem, ghosts
      <4> QED
        BY <4>1, <4>2 DEF States
    <3>2. CASE count = 0
      <4>1. TypeOK' /\ Go(t, "spin") /\ \A u \in Threads : pc'[u] = "cas" => seen'[u] > 0
        BY <1>0, <2>0, <2>8, <3>2 DEF Recheck, TypeOK, States, Go, sem, ghosts
      <4>2. Books(t, "spin")
        BY <2>0, <2>8, <3>2 DEF Recheck, Books, Imbalance, sem, ghosts
      <4> QED
        BY <4>1, <4>2 DEF States
    <3> QED
      BY <2>0, <2>8, <3>1, <3>2 DEF Recheck
  <2>9. CASE Spin(t)
    <3>1. TypeOK' /\ Go(t, "leave") /\ \A u \in Threads : pc'[u] = "cas" => seen'[u] > 0
      BY <1>0, <2>0, <2>9 DEF Spin, TypeOK, States, Go, sem, ghosts
    <3>2. Books(t, "leave")
      BY <2>0, <2>9, SMTT(30) DEF Spin, Books, Imbalance, sem, ghosts
    <3> QED
      BY <3>1, <3>2 DEF States
  <2>10. CASE Leave(t)
    <3>0. waiters > 0
      <4>1. IsFiniteSet(Waiting) /\ (Cardinality(Waiting) = 0 <=> Waiting = {}) /\ Cardinality(Waiting) \in Nat
        BY ThreadsAssumption, FS_Subset, FS_CardinalityType, FS_EmptySet DEF Waiting
      <4>2. t \in Waiting
        BY <2>10 DEF Leave, Waiting
      <4> QED
        BY <1>0, <4>1, <4>2 DEF WaitersBalanced
    <3>1. CASE pc[t] = "spin"
      <4>1. TypeOK' /\ Go(t, "idle") /\ \A u \in Threads : pc'[u] = "cas" => seen'[u] > 0
        BY <1>0, <2>0, <2>10, <3>0, <3>1 DEF Leave, TypeOK, States, Go, sem, ghosts
      <4>2. Books(t, "idle")
        BY <2>0, <2>10, <3>1 DEF Leave, Books, Imbalance, sem, ghosts
      <4> QED
        BY <4>1, <4>2 DEF States
    <3>2. CASE pc[t] = "leave"
      <4>1. TypeOK' /\ Go(t, "load") /\ \A u \in Threads : pc'[u] = "cas" => seen'[u] > 0
        BY <1>0, <2>0, <2>10, <3>0, <3>2 DEF Leave, TypeOK, States, Go, sem, ghosts
      <4>2. Books(t, "load")
        BY <2>0, <2>10, <3>2 DEF Leave, Books, Imbalance, sem, ghosts
      <4> QED
        BY <4>1, <4>2 DEF States
    <3> QED
      BY <2>0, <2>10, <3>1, <3>2 DEF Leave
  <2>11. CASE Drop(t)
    <3>1. TypeOK' /\ Go(t, "drop") /\ \A u \in Threads : pc'[u] = "cas" => seen'[u] > 0
      BY <1>0, <2>0, <2>11 DEF Drop, TypeOK, States, Go, sem, ghosts
    <3>2. Books(t, "drop")
      BY <2>0, <2>11 DEF Drop, Books, Imbalance, sem, ghosts
    <3> QED
      BY <3>1, <3>2 DEF States
  <2>12. CASE CallRelease(t)
    <3>1. TypeOK' /\ Go(t, "bare") /\ \A u \in Threads : pc'[u] = "cas" => seen'[u] > 0
      BY <1>0, <2>0, <2>12 DEF CallRelease, TypeOK, States, Go, sem, ghosts
    <3>2. Books(t, "bare")
      BY <2>0, <2>12 DEF CallRelease, Books, Imbalance, sem, ghosts
    <3> QED
      BY <3>1, <3>2 DEF States
  <2>13. CASE ReleaseAdd(t)
    <3>0. /\ count' = IF count + 1 = CountMod THEN 0 ELSE count + 1
          /\ InitPermits + bare <= MaxPermits => count < MaxPermits
      BY <2>0, <2>13, WrapUp, RoomToRelease, Zenon DEF ReleaseAdd
    <3>1. CASE count >= MaxPermits /\ pc[t] = "drop"
      <4>1. TypeOK' /\ Go(t, "drop_back") /\ \A u \in Threads : pc'[u] = "cas" => seen'[u] > 0
        BY <1>0, <2>0, <2>13, <3>0, <3>1 DEF ReleaseAdd, TypeOK, States, Go, sem, ghosts
      <4>2. Books(t, "drop_back")
        BY <2>0, <2>13, <3>0, <3>1 DEF ReleaseAdd, Books, Imbalance, sem, ghosts
      <4> QED
        BY <4>1, <4>2 DEF States
    <3>2. CASE count >= MaxPermits /\ pc[t] = "bare"
      <4>1. TypeOK' /\ Go(t, "bare_back") /\ \A u \in Threads : pc'[u] = "cas" => seen'[u] > 0
        BY <1>0, <2>0, <2>13, <3>0, <3>2 DEF ReleaseAdd, TypeOK, States, Go, sem, ghosts
      <4>2. Books(t, "bare_back")
        BY <2>0, <2>13, <3>0, <3>2 DEF ReleaseAdd, Books, Imbalance, sem, ghosts
      <4> QED
        BY <4>1, <4>2 DEF States
    <3>3. CASE count < MaxPermits /\ pc[t] = "drop"
      <4>1. TypeOK' /\ Go(t, "waiters") /\ \A u \in Threads : pc'[u] = "cas" => seen'[u] > 0
        BY <1>0, <2>0, <2>13, <3>0, <3>3 DEF ReleaseAdd, TypeOK, States, Go, sem, ghosts
      <4>2. Books(t, "waiters")
        BY <2>0, <2>13, <3>0, <3>3 DEF ReleaseAdd, Books, Imbalance, sem, ghosts
      <4> QED
        BY <4>1, <4>2 DEF States
    <3>4. CASE count < MaxPermits /\ pc[t] = "bare"
      <4>1. TypeOK' /\ Go(t, "waiters") /\ \A u \in Threads : pc'[u] = "cas" => seen'[u] > 0
        BY <1>0, <2>0, <2>13, <3>0, <3>4 DEF ReleaseAdd, TypeOK, States, Go, sem, ghosts
      <4>2. Books(t, "waiters")
        BY <2>0, <2>13, <3>0, <3>4 DEF ReleaseAdd, Books, Imbalance, sem, ghosts
      <4> QED
        BY <4>1, <4>2 DEF States
    <3> QED
      BY <2>0, <2>13, <3>1, <3>2, <3>3, <3>4 DEF ReleaseAdd
  <2>14. CASE Rollback(t)
    <3>0. /\ count' = IF count = 0 THEN CountMod - 1 ELSE count - 1
          /\ ~ (InitPermits + bare <= MaxPermits)
      BY <2>0, <2>14, WrapDown, Zenon DEF Rollback, Inductive, RollingBack
    <3>1. TypeOK' /\ Go(t, "idle") /\ \A u \in Threads : pc'[u] = "cas" => seen'[u] > 0
      BY <1>0, <2>0, <2>14, <3>0 DEF Rollback, TypeOK, States, Go, sem, ghosts
    <3>2. Books(t, "idle")
      BY <2>0, <2>14, <3>0 DEF Rollback, Books, Imbalance, sem, ghosts
    <3> QED
      BY <3>1, <3>2 DEF States
  <2>15. CASE ReadWaiters(t)
    <3>1. CASE waiters > 0
      <4>1. TypeOK' /\ Go(t, "bump") /\ \A u \in Threads : pc'[u] = "cas" => seen'[u] > 0
        BY <1>0, <2>0, <2>15, <3>1 DEF ReadWaiters, TypeOK, States, Go, sem, ghosts
      <4>2. Books(t, "bump")
        BY <2>0, <2>15, <3>1 DEF ReadWaiters, Books, Imbalance, sem, ghosts
      <4> QED
        BY <4>1, <4>2 DEF States
    <3>2. CASE waiters = 0
      <4>1. TypeOK' /\ Go(t, "idle") /\ \A u \in Threads : pc'[u] = "cas" => seen'[u] > 0
        BY <1>0, <2>0, <2>15, <3>2 DEF ReadWaiters, TypeOK, States, Go, sem, ghosts
      <4>2. Books(t, "idle")
        BY <2>0, <2>15, <3>2, SMTT(30) DEF ReadWaiters, Books, Imbalance, sem, ghosts
      <4> QED
        BY <4>1, <4>2 DEF States
    <3> QED
      BY <2>0, <2>15, <3>1, <3>2, SMTT(30) DEF ReadWaiters
  <2>16. CASE Bump(t)
    <3>1. TypeOK' /\ Go(t, "idle") /\ \A u \in Threads : pc'[u] = "cas" => seen'[u] > 0
      BY <1>0, <2>0, <2>16 DEF Bump, TypeOK, States, Go, sem, ghosts
    <3>2. Books(t, "idle")
      BY <2>0, <2>16 DEF Bump, Books, Imbalance, sem, ghosts
    <3> QED
      BY <3>1, <3>2 DEF States
  <2> QED
    BY <2>1, <2>3, <2>4, <2>5, <2>6, <2>7, <2>8, <2>9, <2>10, <2>11, <2>12, <2>13, <2>14, <2>15, <2>16, Zenon
<1> QED
  BY <1>1, <1>2

(* The invariant holds in every behaviour, however often callers release    *)
(* and however often the count wraps.                                       *)
THEOREM SemaphoreInductive == Spec => []Inductive
BY InitInductive, NextInductive, PTL DEF Spec

(* No permit appears or disappears unaccounted: the count and the holders   *)
(* together are the initial permits and the accepted bare releases, less    *)
(* the refused permits, with a refused release's own until its rollback.    *)
THEOREM SemaphorePermitsAccountedFor == Spec => []PermitsAccountedFor
<1>1. Inductive => PermitsAccountedFor
  BY DEF Inductive
<1> QED
  BY <1>1, SemaphoreInductive, PTL

(* No more than max_permits threads hold a permit at any time, up to the    *)
(* first bare release that there is no room for.                            *)
THEOREM SemaphoreAtMostMaxPermits == Spec => []AtMostMaxPermits
<1>1. Inductive => AtMostMaxPermits
  <2> SUFFICES ASSUME Inductive, InitPermits + bare <= MaxPermits
               PROVE  Cardinality(Holders) <= MaxPermits
    BY DEF AtMostMaxPermits
  <2> DEFINE h == Cardinality(Holders)
             b == Cardinality(BareCalls)
  <2>1. TypeOK /\ added + b <= bare /\ count + h = InitPermits + added
    BY DEF Inductive
  <2>2. h \in Nat /\ b \in Nat
    BY ThreadsAssumption, FS_Subset, FS_CardinalityType DEF Holders, BareCalls
  <2>3. /\ count \in Nat /\ bare \in Nat /\ added \in Nat
        /\ InitPermits \in Nat /\ MaxPermits \in Nat
    BY <2>1, PermitsAssumption, BoundsAssumption DEF TypeOK
  <2> HIDE DEF h, b
  <2>4. h <= MaxPermits
    BY <2>1, <2>2, <2>3
  <2> QED
    BY <2>4 DEF h
<1> QED
  BY <1>1, SemaphoreInductive, PTL

(* The waiter count is the number of waiters.                               *)
THEOREM SemaphoreWaitersBalanced == Spec => []WaitersBalanced
<1>1. Inductive => WaitersBalanced
  BY DEF Inductive
<1> QED
  BY <1>1, SemaphoreInductive, PTL
=============================================================================
