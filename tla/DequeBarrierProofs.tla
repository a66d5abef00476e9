------------------------- MODULE DequeBarrierProofs -------------------------
(***************************************************************************)
(* SharedDeque for every capacity, every number of thieves, any batches    *)
(* and any number of items.  EpochBarrier for every finite set of peers,   *)
(* every quorum and any number of epochs, timeouts and deaths.             *)
(***************************************************************************)
EXTENDS SharedDeque, EpochBarrier, TLAPS

-----------------------------------------------------------------------------
(* SharedDeque *)

(* Two positions less than a lap apart lie in different slots.              *)
LEMMA PositionsDiffer ==
    ASSUME NEW i \in Int, NEW j \in Int, i < j, j - i < DequeCapacity
    PROVE  DequeCell(i) # DequeCell(j)
<1> DEFINE qi == i \div DequeCapacity
           qj == j \div DequeCapacity
<1>0. DequeCapacity \in Nat /\ DequeCapacity > 0
  BY DequeAssumption
<1>1. /\ qi \in Int /\ qj \in Int
      /\ i = DequeCapacity * qi + (i % DequeCapacity)
      /\ j = DequeCapacity * qj + (j % DequeCapacity)
  BY <1>0
<1>2. SUFFICES ASSUME i % DequeCapacity = j % DequeCapacity PROVE FALSE
  BY DEF DequeCell
<1> HIDE DEF qi, qj
<1>3. j - i = DequeCapacity * (qj - qi)
  BY <1>0, <1>1, <1>2
<1>4. CASE qj - qi <= 0
  BY <1>0, <1>1, <1>3, <1>4
<1>5. CASE qj - qi >= 1
  BY <1>0, <1>1, <1>3, <1>5
<1> QED BY <1>1, <1>4, <1>5

(* A position lies in a slot.                                               *)
LEMMA CellInDeque ==
    ASSUME NEW p \in Int PROVE DequeCell(p) \in 0..(DequeCapacity - 1)
BY DequeAssumption DEF DequeCell

(* Taking bytes of no item counts nothing.                                  *)
LEMMA TookNothing ==
    ASSUME DequeTypeOK, Took(Torn) PROVE takes' = takes
BY DequeAssumption DEF DequeTypeOK, Took, Torn, Items

(* What a step that keeps the positions in the deque, their slots and the   *)
(* count keeps.                                                             *)
LEMMA NothingTaken ==
    ASSUME DequeTypeOK, WindowHolds, published' = published, takes' = takes,
           dtop'..NewestAt' = dtop..NewestAt,
           \A p \in dtop..NewestAt : cells'[DequeCell(p)] = cells[DequeCell(p)]
    PROVE  WindowHolds'
<1>3. \A p \in dtop'..NewestAt' : /\ cells'[DequeCell(p)] \in 1..published'
                                  /\ takes'[cells'[DequeCell(p)]] = 0
  BY Zenon DEF WindowHolds
<1>4. \A p, q \in dtop'..NewestAt' : cells'[DequeCell(p)] = cells'[DequeCell(q)] => p = q
  BY Zenon DEF WindowHolds
<1>5. \A i \in Items : \/ i > published' /\ takes'[i] = 0
                       \/ i <= published' /\ takes'[i] = 1
                       \/ \E p \in dtop'..NewestAt' : cells'[DequeCell(p)] = i
  BY Zenon DEF WindowHolds
<1> QED BY <1>3, <1>4, <1>5 DEF WindowHolds

(* Taking the item of one position counts it, and it alone leaves.          *)
LEMMA OneTaken ==
    ASSUME DequeTypeOK, WindowHolds, published' = published, cells' = cells,
           published <= DequeItems, NEW p0 \in dtop..NewestAt, Took(cells[DequeCell(p0)]),
           dtop'..NewestAt' = (dtop..NewestAt) \ {p0}
    PROVE  WindowHolds'
<1> DEFINE v == cells[DequeCell(p0)]
<1>0. \A i \in 1..published : i \in Items /\ i <= published
  <2>1. published \in Nat /\ DequeItems \in Nat
    BY DequeAssumption DEF DequeTypeOK
  <2> QED BY <2>1 DEF Items
<1>1. v \in Items /\ v <= published /\ takes[v] = 0
  BY <1>0 DEF WindowHolds
<1>2. /\ \A p \in dtop'..NewestAt' : p \in dtop..NewestAt /\ p # p0
      /\ \A p \in dtop..NewestAt : p # p0 => p \in dtop'..NewestAt'
  OBVIOUS
<1>3. takes'[v] = 1 /\ \A i \in Items : i # v => takes'[i] = takes[i]
  BY <1>1 DEF Took
<1>4. \A p \in dtop'..NewestAt' : cells[DequeCell(p)] # v
  BY <1>2 DEF WindowHolds
<1>5. \A p \in dtop'..NewestAt' : /\ cells'[DequeCell(p)] \in 1..published'
                                  /\ takes'[cells'[DequeCell(p)]] = 0
  <2>1. \A p \in dtop..NewestAt : cells[DequeCell(p)] \in Items
    BY <1>0 DEF WindowHolds
  <2> QED BY <1>2, <1>3, <1>4, <2>1 DEF WindowHolds
<1>6. \A p, q \in dtop'..NewestAt' : cells'[DequeCell(p)] = cells'[DequeCell(q)] => p = q
  BY <1>2 DEF WindowHolds
<1>7. \A i \in Items : \/ i > published' /\ takes'[i] = 0
                       \/ i <= published' /\ takes'[i] = 1
                       \/ \E p \in dtop'..NewestAt' : cells'[DequeCell(p)] = i
  BY <1>1, <1>2, <1>3 DEF WindowHolds
<1> QED BY <1>5, <1>6, <1>7 DEF WindowHolds

(* The empty deque satisfies the invariant.                                 *)
LEMMA DequeInitInv == DInit => DequeInv
<1> SUFFICES ASSUME DInit PROVE DequeInv
  OBVIOUS
<1>0. NewestAt = -1
  BY DEF DInit, NewestAt
<1>1. DequeTypeOK
  BY DequeAssumption DEF DInit, DequeTypeOK, Torn
<1>2. OwnerPlace /\ OwnerBatch
  BY <1>0, DequeAssumption DEF DInit, OwnerPlace, OwnerBatch
<1>3. WindowHolds
  BY <1>0 DEF DInit, WindowHolds, Items
<1>4. ThievesSee
  BY DEF DInit, ThievesSee
<1> QED BY <1>1, <1>2, <1>3, <1>4 DEF DequeInv

(* The owner's pushes keep the invariant: the slots of the batch are free,  *)
(* and hold the batch's items when bottom moves past them.                  *)
LEMMA PushKeepsDeque ==
    ASSUME DequeInv,
           (\E n \in 1..MaxBatch : PushReserve(n)) \/ Marshal \/ Marshalled \/ Publish
    PROVE  DequeInv'
<1> USE DEF DequeInv, thieves
<1>0. /\ bottom \in Int /\ dtop \in Nat /\ published \in Nat /\ DequeCapacity \in Nat
      /\ batch[1] \in Nat /\ batch[2] \in Nat /\ DequeItems \in Nat /\ NewestAt = bottom - 1
  BY DequeAssumption DEF DequeTypeOK, NewestAt, PushReserve, Marshal, Marshalled, Publish
<1>1. ASSUME NEW n \in 1..MaxBatch, PushReserve(n) PROVE DequeInv'
  <2>0. n \in Nat /\ n > 0 /\ NewestAt' = NewestAt
    BY <1>0, <1>1, DequeAssumption DEF PushReserve, NewestAt
  <2>1. DequeTypeOK'
    BY <1>1, <2>0 DEF PushReserve, DequeTypeOK
  <2>2. OwnerPlace'
    BY <1>0, <1>1, <2>0 DEF PushReserve, OwnerPlace
  <2>3. OwnerBatch'
    BY <1>0, <1>1, <2>0 DEF PushReserve, OwnerBatch
  <2>4. WindowHolds'
    BY <1>0, <1>1, <2>0 DEF PushReserve, WindowHolds
  <2>5. ThievesSee'
    BY <1>1, <2>0 DEF PushReserve, ThievesSee
  <2> QED BY <2>1, <2>2, <2>3, <2>4, <2>5
<1>2. CASE Marshal \/ Marshalled
  <2> DEFINE spot == bottom + batch[2]
             v == IF opc = "marshal" THEN Torn ELSE published + batch[2] + 1
  <2>0. /\ NewestAt' = NewestAt /\ bottom' = bottom /\ dtop' = dtop /\ published' = published
        /\ cells' = [cells EXCEPT ![DequeCell(spot)] = v] /\ v \in Nat /\ spot \in Int
        /\ batch[2] < batch[1] /\ bottom - dtop + batch[1] <= DequeCapacity
    BY <1>0, <1>2 DEF Marshal, Marshalled, NewestAt, Torn, OwnerBatch
  <2>1. /\ DequeCell(spot) \in 0..(DequeCapacity - 1) /\ cells'[DequeCell(spot)] = v
        /\ \A c \in 0..(DequeCapacity - 1) : c # DequeCell(spot) => cells'[c] = cells[c]
        /\ cells' \in [0..(DequeCapacity - 1) -> Nat]
    BY <2>0, CellInDeque DEF DequeTypeOK
  <2> HIDE DEF spot, v
  <2>2. \A p \in Int : dtop <= p /\ p < spot => cells'[DequeCell(p)] = cells[DequeCell(p)]
    <3>1. \A p \in Int : dtop <= p /\ p < spot => DequeCell(p) # DequeCell(spot)
      BY <1>0, <2>0, PositionsDiffer DEF spot
    <3> QED BY <2>1, <3>1, CellInDeque, Zenon
  <2>3. DequeTypeOK'
    <3>1. batch' \in Nat \X Nat
      BY <1>0, <1>2 DEF Marshal, Marshalled, DequeTypeOK
    <3> QED BY <1>2, <2>1, <3>1, Zenon DEF Marshal, Marshalled, DequeTypeOK
  <2>4. OwnerPlace'
    BY <1>2, <2>0 DEF Marshal, Marshalled, OwnerPlace
  <2>5. OwnerBatch'
    <3>1. \A k \in 0..(batch[2] - 1) : cells'[DequeCell(bottom + k)] = published + k + 1
      <4>1. \A k \in 0..(batch[2] - 1) : /\ bottom + k \in Int /\ bottom + k < spot /\ dtop <= bottom + k
                                        /\ cells[DequeCell(bottom + k)] = published + k + 1
        BY <1>0, <1>2 DEF spot, OwnerBatch, OwnerPlace, Marshal, Marshalled
      <4> QED BY <2>2, <4>1
    <3>2. CASE Marshal
      BY <2>0, <3>1, <3>2 DEF Marshal, OwnerBatch
    <3>3. CASE Marshalled
      <4>1. cells'[DequeCell(bottom + batch[2])] = published + batch[2] + 1
        BY <2>1, <3>3 DEF spot, v, Marshalled
      <4>2. \A k \in 0..batch[2] : cells'[DequeCell(bottom + k)] = published + k + 1
        BY <1>0, <3>1, <4>1
      <4>3. batch' = <<batch[1], batch[2] + 1>> /\ batch'[2] - 1 = batch[2] /\ batch'[1] = batch[1]
        BY <1>0, <3>3 DEF Marshalled
      <4> QED BY <1>0, <2>0, <3>3, <4>2, <4>3 DEF Marshalled, OwnerBatch
    <3> QED BY <1>2, <3>2, <3>3
  <2>6. WindowHolds'
    <3>1. \A p \in dtop..NewestAt : cells'[DequeCell(p)] = cells[DequeCell(p)]
      BY <1>0, <2>2 DEF spot
    <3> QED BY <1>0, <1>2, <2>0, <3>1, NothingTaken DEF Marshal, Marshalled
  <2>7. ThievesSee'
    <3>1. dtop <= NewestAt => cells'[DequeCell(dtop)] = cells[DequeCell(dtop)]
      BY <1>0, <2>2 DEF spot
    <3>2. spc' = spc /\ seenTop' = seenTop /\ loot' = loot
      BY <1>2 DEF Marshal, Marshalled
    <3> QED BY <2>0, <3>1, <3>2 DEF ThievesSee, DequeTypeOK
  <2> QED BY <2>3, <2>4, <2>5, <2>6, <2>7
<1>3. CASE Publish
  <2>0. /\ bottom' = bottom + batch[1] /\ NewestAt' = NewestAt + batch[1] /\ published' = published + batch[1]
        /\ dtop' = dtop /\ cells' = cells /\ takes' = takes /\ batch[2] = batch[1]
        /\ bottom - dtop + batch[1] <= DequeCapacity /\ published + batch[1] <= DequeItems
        /\ dtop <= NewestAt + 1 /\ opc' = "idle"
    BY <1>0, <1>3 DEF Publish, NewestAt, OwnerBatch, OwnerPlace
  <2>1. DequeTypeOK'
    <3>1. bottom' \in Int /\ published' \in Nat
      BY <1>0, <2>0
    <3>2. batch' \in Nat \X Nat
      BY <1>3 DEF Publish
    <3>3. UNCHANGED <<dtop, otop, cells, spc, seenTop, loot, takes, Items>>
      BY <1>3 DEF Publish, Items
    <3> QED BY <2>0, <3>1, <3>2, <3>3 DEF DequeTypeOK
  <2>2. OwnerPlace' /\ OwnerBatch'
    BY <1>0, <2>0 DEF OwnerPlace, OwnerBatch
  <2>3. WindowHolds'
    <3>1. \A p \in bottom..NewestAt' : /\ p - bottom \in 0..(batch[2] - 1)
                                       /\ cells[DequeCell(p)] = published + (p - bottom) + 1
      <4>1. \A p \in bottom..NewestAt' : p - bottom \in 0..(batch[2] - 1) /\ bottom + (p - bottom) = p
        BY <1>0, <2>0
      <4> QED BY <1>3, <4>1 DEF OwnerBatch, Publish
    <3>2. \A p \in dtop..NewestAt' : p \in dtop..NewestAt \/ p \in bottom..NewestAt'
      BY <1>0, <2>0
    <3>3. \A p \in bottom..NewestAt' : /\ cells[DequeCell(p)] \in Items /\ cells[DequeCell(p)] > published
                                       /\ cells[DequeCell(p)] \in 1..published'
      BY <1>0, <2>0, <3>1 DEF Items
    <3>4. \A p \in bottom..NewestAt' : takes[cells[DequeCell(p)]] = 0
      <4>1. \A i \in Items : i > published => takes[i] = 0
        BY <1>0 DEF WindowHolds, Items
      <4> QED BY <3>3, <4>1
    <3>5. \A p \in dtop..NewestAt' : /\ cells'[DequeCell(p)] \in 1..published'
                                     /\ takes'[cells'[DequeCell(p)]] = 0
      BY <1>0, <2>0, <3>2, <3>3, <3>4 DEF WindowHolds
    <3>6. \A p, q \in dtop..NewestAt' : cells[DequeCell(p)] = cells[DequeCell(q)] => p = q
      <4>1. SUFFICES ASSUME NEW p \in dtop..NewestAt', NEW q \in dtop..NewestAt',
                            cells[DequeCell(p)] = cells[DequeCell(q)]
                     PROVE  p = q
        OBVIOUS
      <4>2. CASE p \in dtop..NewestAt /\ q \in dtop..NewestAt
        BY <4>1, <4>2 DEF WindowHolds
      <4>3. CASE p \in bottom..NewestAt' /\ q \in bottom..NewestAt'
        BY <1>0, <3>1, <4>1, <4>3
      <4>4. \A a \in dtop..NewestAt : cells[DequeCell(a)] \in 1..published
        BY DEF WindowHolds
      <4> QED BY <1>0, <3>2, <3>3, <4>1, <4>2, <4>3, <4>4
    <3>7. \A i \in Items : \/ i > published' /\ takes'[i] = 0
                           \/ i <= published' /\ takes'[i] = 1
                           \/ \E p \in dtop'..NewestAt' : cells'[DequeCell(p)] = i
      <4>1. SUFFICES ASSUME NEW i \in Items
                     PROVE  \/ i > published' /\ takes[i] = 0
                            \/ i <= published' /\ takes[i] = 1
                            \/ \E p \in dtop..NewestAt' : cells[DequeCell(p)] = i
        BY <2>0
      <4>2. CASE i > published /\ i <= published'
        <5> DEFINE p0 == bottom + (i - published - 1)
        <5>1. p0 \in bottom..NewestAt' /\ p0 \in dtop..NewestAt' /\ published + (p0 - bottom) + 1 = i
          BY <1>0, <2>0, <4>2 DEF Items
        <5> QED BY <3>1, <5>1
      <4>3. CASE i > published'
        BY <1>0, <2>0, <4>3 DEF WindowHolds, Items
      <4>4. CASE i <= published
        BY <1>0, <2>0, <4>4 DEF WindowHolds, Items
      <4> QED BY <1>0, <2>0, <4>2, <4>3, <4>4 DEF Items
    <3> QED BY <2>0, <3>5, <3>6, <3>7 DEF WindowHolds
  <2>4. ThievesSee'
    <3>1. spc' = spc /\ seenTop' = seenTop /\ loot' = loot
      BY <1>3 DEF Publish
    <3> QED BY <1>0, <2>0, <3>1 DEF ThievesSee
  <2> QED BY <2>1, <2>2, <2>3, <2>4
<1> QED BY <1>1, <1>2, <1>3

(* The owner's pops keep the invariant: above the thieves' reach the item   *)
(* is the owner's, and the last one goes to whoever moves top.              *)
LEMMA PopKeepsDeque ==
    ASSUME DequeInv, PopClaim \/ PopTop \/ PopRace \/ PopRestore PROVE DequeInv'
<1> USE DEF DequeInv, thieves
<1>0. /\ bottom \in Int /\ dtop \in Nat /\ published \in Nat /\ DequeCapacity \in Nat
      /\ DequeCapacity > 0 /\ DequeItems \in Nat /\ published <= DequeItems /\ NewestAt \in Int
  BY DequeAssumption DEF DequeTypeOK, NewestAt, OwnerPlace
<1>1. CASE PopClaim
  <2>0. NewestAt' = NewestAt /\ opc' = "popping" /\ opc = "idle" /\ NewestAt = bottom - 1
    BY <1>0, <1>1 DEF PopClaim, NewestAt
  <2>1. DequeTypeOK'
    BY <1>0, <1>1 DEF PopClaim, DequeTypeOK
  <2>2. OwnerPlace' /\ OwnerBatch'
    BY <1>1, <2>0 DEF PopClaim, OwnerPlace, OwnerBatch
  <2>3. WindowHolds'
    BY <1>1, <2>0, NothingTaken DEF PopClaim
  <2>4. ThievesSee'
    BY <1>1, <2>0 DEF PopClaim, ThievesSee
  <2> QED BY <2>1, <2>2, <2>3, <2>4
<1>2. CASE PopTop
  <2>0. /\ opc = "popping" /\ NewestAt = bottom /\ dtop <= bottom + 1 /\ bottom - dtop < DequeCapacity
        /\ UNCHANGED <<dtop, cells, batch, published, spc, seenTop, loot>>
    BY <1>2 DEF PopTop, NewestAt, OwnerPlace
  <2>1. CASE bottom > dtop
    <3>1. opc' = "idle" /\ bottom' = bottom /\ otop' = otop /\ NewestAt' = bottom - 1
          /\ Took(cells[DequeCell(bottom)])
      BY <1>0, <1>2, <2>1 DEF PopTop, NewestAt
    <3>2. takes' \in [Items -> Nat]
      BY <3>1 DEF Took, DequeTypeOK
    <3>3. DequeTypeOK'
      BY <2>0, <3>1, <3>2 DEF DequeTypeOK
    <3>4. OwnerPlace' /\ OwnerBatch'
      BY <1>0, <2>0, <2>1, <3>1 DEF OwnerPlace, OwnerBatch
    <3>5. dtop'..NewestAt' = (dtop..NewestAt) \ {bottom} /\ bottom \in dtop..NewestAt
      BY <1>0, <2>0, <2>1, <3>1
    <3>6. WindowHolds'
      BY <1>0, <2>0, <3>1, <3>5, OneTaken
    <3>7. ThievesSee'
      BY <1>0, <2>0, <2>1, <3>1 DEF ThievesSee
    <3> QED BY <3>3, <3>4, <3>6, <3>7
  <2>2. CASE bottom = dtop
    <3>1. opc' = "race" /\ bottom' = bottom /\ otop' = dtop /\ NewestAt' = bottom /\ takes' = takes
      BY <1>0, <1>2, <2>2, TookNothing DEF PopTop, NewestAt
    <3>2. DequeTypeOK'
      BY <1>0, <2>0, <3>1 DEF DequeTypeOK
    <3>3. OwnerPlace' /\ OwnerBatch'
      BY <1>0, <2>0, <2>2, <3>1 DEF OwnerPlace, OwnerBatch
    <3>4. WindowHolds'
      BY <2>0, <3>1, NothingTaken
    <3>5. ThievesSee'
      BY <2>0, <3>1 DEF ThievesSee
    <3> QED BY <3>2, <3>3, <3>4, <3>5
  <2>3. CASE bottom < dtop
    <3>1. opc' = "idle" /\ bottom' = bottom + 1 /\ otop' = otop /\ NewestAt' = bottom /\ takes' = takes
      BY <1>0, <1>2, <2>3, TookNothing DEF PopTop, NewestAt
    <3>2. DequeTypeOK'
      BY <1>0, <2>0, <3>1 DEF DequeTypeOK
    <3>3. OwnerPlace' /\ OwnerBatch'
      BY <1>0, <2>0, <2>3, <3>1 DEF OwnerPlace, OwnerBatch
    <3>4. WindowHolds'
      BY <2>0, <3>1, NothingTaken
    <3>5. ThievesSee'
      BY <2>0, <3>1 DEF ThievesSee
    <3> QED BY <3>2, <3>3, <3>4, <3>5
  <2> QED BY <1>0, <2>1, <2>2, <2>3
<1>3. CASE PopRace
  <2>0. /\ opc = "race" /\ opc' = "restore" /\ NewestAt = bottom /\ NewestAt' = bottom - 1 /\ otop = bottom
        /\ dtop <= bottom + 1 /\ bottom - dtop < DequeCapacity
        /\ UNCHANGED <<bottom, cells, batch, published, otop, spc, seenTop, loot>>
    BY <1>3 DEF PopRace, NewestAt, OwnerPlace
  <2>1. CASE dtop = otop
    <3>1. dtop' = dtop + 1 /\ Took(cells[DequeCell(bottom)])
      BY <1>3, <2>1 DEF PopRace
    <3>2. takes' \in [Items -> Nat]
      BY <3>1 DEF Took, DequeTypeOK
    <3>3. DequeTypeOK'
      BY <1>0, <2>0, <3>1, <3>2 DEF DequeTypeOK
    <3>4. OwnerPlace' /\ OwnerBatch'
      BY <1>0, <2>0, <2>1, <3>1 DEF OwnerPlace, OwnerBatch
    <3>5. dtop'..NewestAt' = (dtop..NewestAt) \ {bottom} /\ bottom \in dtop..NewestAt
      BY <1>0, <2>0, <2>1, <3>1
    <3>6. WindowHolds'
      BY <1>0, <2>0, <3>1, <3>5, OneTaken
    <3>7. ThievesSee'
      BY <1>0, <2>0, <3>1 DEF ThievesSee, DequeTypeOK
    <3> QED BY <3>3, <3>4, <3>6, <3>7
  <2>2. CASE dtop # otop
    <3>1. dtop' = dtop /\ takes' = takes
      BY <1>3, <2>2, TookNothing DEF PopRace
    <3>2. CASE dtop = bottom + 1
      <4>1. DequeTypeOK'
        BY <2>0, <3>1 DEF DequeTypeOK
      <4>2. OwnerPlace' /\ OwnerBatch'
        BY <1>0, <2>0, <3>1, <3>2 DEF OwnerPlace, OwnerBatch
      <4>3. dtop'..NewestAt' = dtop..NewestAt
        BY <1>0, <2>0, <3>1, <3>2
      <4>4. WindowHolds'
        BY <2>0, <3>1, <4>3, NothingTaken
      <4>5. ThievesSee'
        BY <1>0, <2>0, <3>1, <3>2 DEF ThievesSee
      <4> QED BY <4>1, <4>2, <4>4, <4>5
    <3> QED BY <1>0, <2>0, <2>2, <3>2 DEF OwnerPlace
  <2> QED BY <2>1, <2>2
<1>4. CASE PopRestore
  <2>0. /\ opc = "restore" /\ opc' = "idle" /\ bottom' = bottom + 1 /\ otop' = 0
        /\ NewestAt = bottom - 1 /\ NewestAt' = bottom /\ dtop = bottom + 1
        /\ UNCHANGED <<dtop, cells, batch, published, spc, seenTop, loot, takes>>
    BY <1>0, <1>4 DEF PopRestore, NewestAt, OwnerPlace
  <2>1. DequeTypeOK'
    BY <1>0, <2>0 DEF DequeTypeOK
  <2>2. OwnerPlace' /\ OwnerBatch'
    BY <1>0, <2>0 DEF OwnerPlace, OwnerBatch
  <2>3. dtop'..NewestAt' = dtop..NewestAt
    BY <1>0, <2>0
  <2>4. WindowHolds'
    BY <2>0, <2>3, NothingTaken
  <2>5. ThievesSee'
    BY <1>0, <2>0 DEF ThievesSee
  <2> QED BY <2>1, <2>2, <2>4, <2>5
<1> QED BY <1>1, <1>2, <1>3, <1>4

(* A thief's steps keep the invariant: when its CAS succeeds it has read    *)
(* the item at top.                                                         *)
LEMMA StealKeepsDeque ==
    ASSUME DequeInv, NEW s \in Thieves, Steal(s) PROVE DequeInv'
<1> USE DEF DequeInv
<1>0. /\ bottom \in Int /\ dtop \in Nat /\ published \in Nat /\ DequeCapacity \in Nat
      /\ DequeItems \in Nat /\ published <= DequeItems /\ NewestAt \in Int
  BY DequeAssumption DEF DequeTypeOK, NewestAt, OwnerPlace
<1>1. CASE StealTop(s)
  <2>0. NewestAt' = NewestAt
    BY <1>1 DEF StealTop, NewestAt
  <2>1. DequeTypeOK'
    BY <1>1 DEF StealTop, DequeTypeOK
  <2>2. OwnerPlace' /\ OwnerBatch'
    BY <1>1, <2>0 DEF StealTop, OwnerPlace, OwnerBatch
  <2>3. WindowHolds'
    BY <1>1, <2>0, NothingTaken DEF StealTop
  <2>4. ThievesSee'
    BY <1>0, <1>1, <2>0 DEF StealTop, ThievesSee, DequeTypeOK
  <2> QED BY <2>1, <2>2, <2>3, <2>4
<1>2. CASE StealBottom(s)
  <2>0. NewestAt' = NewestAt
    BY <1>2 DEF StealBottom, NewestAt
  <2>1. DequeTypeOK'
    BY <1>2 DEF StealBottom, DequeTypeOK
  <2>2. OwnerPlace' /\ OwnerBatch'
    BY <1>2, <2>0 DEF StealBottom, OwnerPlace, OwnerBatch
  <2>3. WindowHolds'
    BY <1>2, <2>0, NothingTaken DEF StealBottom
  <2>4. ThievesSee'
    <3>1. bottom - 1 <= NewestAt
      BY <1>0 DEF NewestAt
    <3>2. CASE seenTop[s] >= bottom
      BY <1>0, <1>2, <2>0, <3>2 DEF StealBottom, ThievesSee, DequeTypeOK
    <3>3. CASE ~(seenTop[s] >= bottom)
      <4>1. seenTop' = seenTop /\ spc' = [spc EXCEPT ![s] = "read"] /\ loot' = loot /\ cells' = cells
            /\ dtop' = dtop /\ seenTop[s] < bottom
        BY <1>0, <1>2, <3>3 DEF StealBottom, DequeTypeOK
      <4> QED BY <1>0, <2>0, <3>1, <4>1 DEF ThievesSee, DequeTypeOK
    <3> QED BY <3>2, <3>3
  <2> QED BY <2>1, <2>2, <2>3, <2>4
<1>3. CASE StealRead(s)
  <2>0. NewestAt' = NewestAt
    BY <1>3 DEF StealRead, NewestAt
  <2>1. DequeTypeOK'
    <3>1. cells[DequeCell(seenTop[s])] \in Nat
      BY CellInDeque DEF DequeTypeOK
    <3> QED BY <1>3, <3>1 DEF StealRead, DequeTypeOK
  <2>2. OwnerPlace' /\ OwnerBatch'
    BY <1>3, <2>0 DEF StealRead, OwnerPlace, OwnerBatch
  <2>3. WindowHolds'
    BY <1>3, <2>0, NothingTaken DEF StealRead
  <2>4. ThievesSee'
    BY <1>3, <2>0 DEF StealRead, ThievesSee, DequeTypeOK
  <2> QED BY <2>1, <2>2, <2>3, <2>4
<1>4. CASE StealRefused(s)
  <2>0. NewestAt' = NewestAt
    BY <1>4 DEF StealRefused, NewestAt
  <2>1. DequeTypeOK'
    BY <1>4 DEF StealRefused, DequeTypeOK
  <2>2. OwnerPlace' /\ OwnerBatch'
    BY <1>4, <2>0 DEF StealRefused, OwnerPlace, OwnerBatch
  <2>3. WindowHolds'
    BY <1>4, <2>0, NothingTaken DEF StealRefused
  <2>4. ThievesSee'
    BY <1>0, <1>4, <2>0 DEF StealRefused, ThievesSee, DequeTypeOK
  <2> QED BY <2>1, <2>2, <2>3, <2>4
<1>5. CASE StealCas(s)
  <2>0. /\ NewestAt' = NewestAt /\ spc[s] = "cas" /\ spc' = [spc EXCEPT ![s] = "idle"]
        /\ loot' = [loot EXCEPT ![s] = 0] /\ seenTop' = [seenTop EXCEPT ![s] = 0]
        /\ UNCHANGED <<bottom, cells, opc, batch, published, otop>>
    BY <1>5 DEF StealCas, NewestAt, Torn
  <2>1. CASE dtop = seenTop[s]
    <3>1. /\ dtop' = dtop + 1 /\ Took(cells[DequeCell(dtop)]) /\ dtop <= NewestAt
      BY <1>5, <2>0, <2>1 DEF StealCas, ThievesSee
    <3>2. takes' \in [Items -> Nat]
      BY <3>1 DEF Took, DequeTypeOK
    <3>3. DequeTypeOK'
      BY <1>0, <2>0, <3>1, <3>2 DEF DequeTypeOK
    <3>4. OwnerPlace' /\ OwnerBatch'
      <4>1. opc # "restore"
        BY <1>0, <3>1 DEF OwnerPlace, NewestAt
      <4>2. OwnerPlace'
        BY <1>0, <2>0, <3>1, <4>1 DEF OwnerPlace
      <4>3. OwnerBatch'
        BY <1>0, <2>0, <3>1 DEF OwnerBatch, DequeTypeOK
      <4> QED BY <4>2, <4>3
    <3>5. dtop'..NewestAt' = (dtop..NewestAt) \ {dtop} /\ dtop \in dtop..NewestAt
      BY <1>0, <2>0, <3>1
    <3>6. WindowHolds'
      BY <1>0, <2>0, <3>1, <3>5, OneTaken
    <3>7. ThievesSee'
      <4>1. \A w \in Thieves : seenTop'[w] \in Nat /\ seenTop'[w] <= dtop
        BY <1>0, <2>0 DEF ThievesSee, DequeTypeOK
      <4> QED BY <1>0, <3>1, <4>1 DEF ThievesSee
    <3> QED BY <3>3, <3>4, <3>6, <3>7
  <2>2. CASE dtop # seenTop[s]
    <3>1. dtop' = dtop /\ takes' = takes
      BY <1>5, <2>2, TookNothing DEF StealCas
    <3>2. DequeTypeOK'
      BY <2>0, <3>1 DEF DequeTypeOK
    <3>3. OwnerPlace' /\ OwnerBatch'
      BY <2>0, <3>1 DEF OwnerPlace, OwnerBatch
    <3>4. WindowHolds'
      BY <2>0, <3>1, NothingTaken
    <3>5. ThievesSee'
      BY <1>0, <2>0, <3>1 DEF ThievesSee, DequeTypeOK
    <3> QED BY <3>2, <3>3, <3>4, <3>5
  <2> QED BY <2>1, <2>2
<1> QED BY <1>1, <1>2, <1>3, <1>4, <1>5 DEF Steal

(* The invariant holds always.                                              *)
THEOREM DequeInductive == DSpec => []DequeInv
<1>1. ASSUME DequeInv, [DNext]_dvars PROVE DequeInv'
  <2>1. CASE OwnerStep
    BY <1>1, <2>1, PushKeepsDeque, PopKeepsDeque DEF OwnerStep
  <2>2. CASE \E s \in Thieves : Steal(s)
    BY <1>1, <2>2, StealKeepsDeque
  <2>3. CASE UNCHANGED dvars
    <3>1. NewestAt' = NewestAt /\ Items' = Items
      BY <2>3 DEF dvars, NewestAt, Items
    <3>2. DequeTypeOK' /\ OwnerPlace'
      BY <1>1, <2>3, <3>1 DEF dvars, thieves, DequeInv, DequeTypeOK, OwnerPlace
    <3>3. OwnerBatch' /\ WindowHolds'
      BY <1>1, <2>3, <3>1 DEF dvars, thieves, DequeInv, OwnerBatch, WindowHolds
    <3>4. ThievesSee'
      BY <1>1, <2>3, <3>1, Zenon DEF dvars, thieves, DequeInv, ThievesSee
    <3> QED BY <3>2, <3>3, <3>4 DEF DequeInv
  <2> QED BY <1>1, <2>1, <2>2, <2>3 DEF DNext
<1> QED BY <1>1, DequeInitInv, PTL DEF DSpec

INSTANCE FiniteSetTheorems

(* Every item pushed is returned once, intact, or still in the deque, for   *)
(* any number of thieves, however slow, and any capacity.                   *)
THEOREM DequeEachItemOnce == DSpec => []EachItemOnce
<1>1. ASSUME DequeInv PROVE EachItemOnce
  <2>0. published \in Nat /\ published <= DequeItems /\ DequeItems \in Nat
    BY <1>1, DequeAssumption DEF DequeInv, DequeTypeOK, OwnerPlace
  <2>1. SUFFICES ASSUME NEW i \in 1..published
                 PROVE  takes[i] + Cardinality({p \in dtop..NewestAt : cells[DequeCell(p)] = i}) = 1
    BY DEF EachItemOnce
  <2> DEFINE At_i == {p \in dtop..NewestAt : cells[DequeCell(p)] = i}
  <2>2. i \in Items /\ ~(i > published)
    BY <2>0 DEF Items
  <2>3. CASE \E p \in dtop..NewestAt : cells[DequeCell(p)] = i
    <3>1. PICK p0 \in dtop..NewestAt : cells[DequeCell(p0)] = i
      BY <2>3
    <3>2. At_i = {p0}
      BY <1>1, <3>1 DEF DequeInv, WindowHolds
    <3>3. takes[i] = 0
      BY <1>1, <3>1 DEF DequeInv, WindowHolds
    <3>4. Cardinality(At_i) = 1
      BY <3>2, FS_Singleton
    <3> QED BY <3>3, <3>4
  <2>4. CASE ~\E p \in dtop..NewestAt : cells[DequeCell(p)] = i
    <3>1. At_i = {}
      BY <2>4
    <3>2. Cardinality(At_i) = 0
      BY <3>1, FS_EmptySet
    <3>3. takes[i] = 1
      BY <1>1, <2>2, <2>4 DEF DequeInv, WindowHolds
    <3> QED BY <3>2, <3>3
  <2> QED BY <2>3, <2>4
<1> QED BY <1>1, DequeInductive, PTL

-----------------------------------------------------------------------------
(* EpochBarrier *)

(* The peers the table shows alive are finitely many, and the count of      *)
(* fewer is no more.                                                        *)
LEMMA FewerLive ==
    ASSUME NEW S, NEW T, S \subseteq T, T \subseteq Peers
    PROVE  /\ Cardinality(S) \in Nat /\ Cardinality(T) \in Nat
           /\ Cardinality(S) <= Cardinality(T)
           /\ Cardinality(S) >= Cardinality(T) => S = T
<1>1. IsFiniteSet(T) /\ IsFiniteSet(S)
  BY BarrierAssumption, FS_Subset
<1> QED BY <1>1, FS_Subset, FS_CardinalityType

(* The threshold is a number, and does not rise when peers only leave.      *)
LEMMA ThresholdFalls ==
    ASSUME BarrierTypeOK, quorum' = quorum, Live' \subseteq Live
    PROVE  Threshold \in Nat /\ Threshold' \in Nat /\ Threshold' <= Threshold
<1>1. Live \subseteq Peers /\ Live' \subseteq Peers
  BY DEF Live
<1>2. /\ Cardinality(Live) \in Nat /\ Cardinality(Live') \in Nat
      /\ Cardinality(Live') <= Cardinality(Live)
  BY <1>1, FewerLive
<1> QED BY <1>2 DEF Threshold, BarrierTypeOK

(* The closed, empty barrier satisfies the invariant.                       *)
LEMMA BarrierInitInv == EInit => BarrierInv
<1> SUFFICES ASSUME EInit PROVE BarrierInv
  OBVIOUS
<1>1. BarrierTypeOK
  BY BarrierAssumption, Zenon DEF EInit, BarrierTypeOK, NoWord
<1>2. ArrivedWait
  BY FS_EmptySet DEF EInit, ArrivedWait
<1>3. OpenersCounted
  BY DEF EInit, OpenersCounted
<1> QED BY <1>1, <1>2, <1>3 DEF BarrierInv

(* Every step of a peer, and a peer's death and lapse, keep the invariant.  *)
LEMMA BarrierNextInv ==
    ASSUME BarrierInv, NEW p \in Peers,
           Waiting(p) \/ Timeout(p) \/ PeerDies(p) \/ Lapse(p)
    PROVE  BarrierInv'
<1> USE DEF BarrierInv
<1>1. CASE Passed(p)
  <2>1. BarrierTypeOK'
    BY <1>1 DEF Passed, Move, BarrierTypeOK
  <2>2. ArrivedWait'
    BY <1>1 DEF Passed, Move, BarrierTypeOK, ArrivedWait
  <2>3. OpenersCounted'
    BY <1>1, Zenon DEF Passed, Move, BarrierTypeOK, OpenersCounted, Threshold, Live
  <2> QED BY <2>1, <2>2, <2>3
<1>2. CASE ArriveLoad(p)
  <2>1. BarrierTypeOK'
    BY <1>2 DEF ArriveLoad, Move, Load, BarrierTypeOK
  <2>2. ArrivedWait'
    BY <1>2 DEF ArriveLoad, Move, BarrierTypeOK, ArrivedWait
  <2>3. OpenersCounted'
    BY <1>2, Zenon DEF ArriveLoad, Move, Load, BarrierTypeOK, OpenersCounted, Threshold, Live
  <2> QED BY <2>1, <2>2, <2>3
<1>3. CASE ArriveCas(p)
  <2>1. BarrierTypeOK'
    BY <1>3 DEF ArriveCas, Move, NoWord, BarrierTypeOK
  <2>2. ArrivedWait'
    <3>1. CASE loaded_word[p] = <<epoch, arrived>>
      <4>1. SUFFICES ASSUME ~tainted PROVE ArrivedWait'
        BY <1>3 DEF ArriveCas, ArrivedWait
      <4>2. p \notin here /\ my_epoch[p] = epoch /\ beat[p] = "alive"
        BY <1>3, <3>1, <4>1, SMTT(30) DEF ArriveCas, Move, ArrivedWait, OpenersCounted
      <4>3. Cardinality(here \cup {p}) = arrived + 1
        BY <4>1, <4>2, BarrierAssumption, FS_Subset, FS_AddElement DEF BarrierTypeOK, ArrivedWait
      <4> QED BY <1>3, <3>1, <4>1, <4>2, <4>3 DEF ArriveCas, Move, BarrierTypeOK, ArrivedWait
    <3>2. CASE loaded_word[p] # <<epoch, arrived>>
      BY <1>3, <3>2 DEF ArriveCas, Move, BarrierTypeOK, ArrivedWait
    <3> QED BY <3>1, <3>2
  <2>3. OpenersCounted'
    BY <1>3 DEF ArriveCas, Move, BarrierTypeOK, OpenersCounted, Threshold, Live
  <2> QED BY <2>1, <2>2, <2>3
<1>4. CASE WaitLoad(p)
  <2>1. BarrierTypeOK'
    <3>1. epc' \in [Peers -> {"idle", "arrive", "waiting", "count", "release"}]
      BY <1>4 DEF WaitLoad, Move, BarrierTypeOK
    <3>2. my_epoch' \in [Peers -> Nat]
      BY <1>4 DEF WaitLoad, BarrierTypeOK
    <3>3. loaded_word' \in [Peers -> Nat \X Nat]
      BY <1>4 DEF WaitLoad, Load, BarrierTypeOK
    <3> QED BY <1>4, <3>1, <3>2, <3>3 DEF WaitLoad, BarrierTypeOK
  <2>2. ArrivedWait'
    BY <1>4 DEF WaitLoad, Move, BarrierTypeOK, ArrivedWait
  <2>3. OpenersCounted'
    BY <1>4 DEF WaitLoad, Move, Load, BarrierTypeOK, OpenersCounted, Threshold, Live
  <2> QED BY <2>1, <2>2, <2>3
<1>5. CASE Count(p)
  <2>1. BarrierTypeOK'
    BY <1>5 DEF Count, Move, NoWord, BarrierTypeOK
  <2>2. ArrivedWait'
    BY <1>5 DEF Count, Move, BarrierTypeOK, ArrivedWait
  <2>3. OpenersCounted'
    BY <1>5 DEF Count, Move, BarrierTypeOK, OpenersCounted, Threshold, Live
  <2> QED BY <2>1, <2>2, <2>3
<1>6. CASE OpenEpoch(p)
  <2>1. BarrierTypeOK'
    BY <1>6 DEF OpenEpoch, Move, NoWord, BarrierTypeOK
  <2>2. ArrivedWait'
    BY <1>6, FS_EmptySet DEF OpenEpoch, Move, BarrierTypeOK, ArrivedWait
  <2>3. OpenersCounted'
    BY <1>6 DEF OpenEpoch, Move, BarrierTypeOK, OpenersCounted, Threshold, Live
  <2> QED BY <2>1, <2>2, <2>3
<1>7. CASE Timeout(p)
  <2>1. BarrierTypeOK'
    BY <1>7 DEF Timeout, Move, BarrierTypeOK
  <2>2. ArrivedWait'
    BY <1>7, Zenon DEF Timeout, Move, BarrierTypeOK, ArrivedWait
  <2>3. OpenersCounted'
    BY <1>7 DEF Timeout, Move, BarrierTypeOK, OpenersCounted, Threshold, Live
  <2> QED BY <2>1, <2>2, <2>3
<1>8. CASE PeerDies(p)
  <2>1. BarrierTypeOK'
    BY <1>8 DEF PeerDies, NoWord, BarrierTypeOK
  <2>2. ArrivedWait'
    BY <1>8, Zenon DEF PeerDies, BarrierTypeOK, ArrivedWait
  <2>3. Live' = Live /\ Threshold' = Threshold
    BY <1>8, Zenon DEF PeerDies, BarrierTypeOK, Live, Threshold
  <2>4. OpenersCounted'
    BY <1>8, <2>3 DEF PeerDies, BarrierTypeOK, OpenersCounted
  <2> QED BY <2>1, <2>2, <2>4
<1>9. CASE Lapse(p)
  <2>1. BarrierTypeOK'
    BY <1>9 DEF Lapse, BarrierTypeOK
  <2>2. ArrivedWait'
    BY <1>9 DEF Lapse, BarrierTypeOK, ArrivedWait
  <2>3. Live' \subseteq Live
    BY <1>9 DEF Lapse, BarrierTypeOK, Live
  <2>4. Threshold \in Nat /\ Threshold' \in Nat /\ Threshold' <= Threshold
    BY <1>9, <2>3, ThresholdFalls DEF Lapse
  <2>5. OpenersCounted'
    BY <1>9, <2>4 DEF Lapse, BarrierTypeOK, OpenersCounted
  <2> QED BY <2>1, <2>2, <2>5
<1> QED BY <1>1, <1>2, <1>3, <1>4, <1>5, <1>6, <1>7, <1>8, <1>9 DEF Waiting

(* The invariant holds always.                                              *)
THEOREM BarrierInductive == ESpec => []BarrierInv
<1>1. ASSUME BarrierInv, [ENext]_evars PROVE BarrierInv'
  <2>1. CASE ENext
    BY <1>1, <2>1, BarrierNextInv DEF ENext
  <2>2. CASE UNCHANGED evars
    BY <1>1, <2>2 DEF evars, BarrierInv, BarrierTypeOK, ArrivedWait, OpenersCounted, Threshold, Live
  <2> QED BY <1>1, <2>1, <2>2
<1> QED BY <1>1, BarrierInitInv, PTL DEF ESpec

(* The barrier opens only when every peer the table shows alive has         *)
(* arrived, or the quorum has, unless one that arrived has died or timed    *)
(* out in this epoch: the count a peer loaded before it scanned the table   *)
(* is still the count when its CAS succeeds.                                *)
THEOREM BarrierOpensForAll == ESpec => OpensWhenAllArrivedAndStay
<1>1. ASSUME BarrierInv, [ENext]_evars, epoch' # epoch, ~tainted
      PROVE  IF quorum = 0 THEN Live \subseteq here ELSE Cardinality(here) >= quorum
  <2>1. PICK p \in Peers : OpenEpoch(p)
    BY <1>1, Zenon DEF ENext, evars, Waiting, Passed, ArriveLoad, ArriveCas, WaitLoad, Count, Timeout,
       PeerDies, Lapse
  <2>2. epc[p] = "release" /\ loaded_word[p] = <<epoch, arrived>>
    BY <1>1, <2>1 DEF OpenEpoch, Move
  <2>3. arrived >= Threshold /\ arrived = Cardinality(here)
    BY <1>1, <2>2 DEF BarrierInv, BarrierTypeOK, ArrivedWait, OpenersCounted
  <2>4. here \subseteq Live /\ Live \subseteq Peers
    BY <1>1 DEF BarrierInv, BarrierTypeOK, ArrivedWait, Live
  <2>5. CASE quorum = 0
    BY <2>3, <2>4, <2>5, FewerLive DEF Threshold
  <2>6. CASE quorum # 0
    BY <1>1, <2>3, <2>6 DEF BarrierInv, BarrierTypeOK, Threshold
  <2> QED BY <2>5, <2>6
<1> QED BY <1>1, BarrierInductive, PTL DEF ESpec, OpensWhenAllArrivedAndStay
=============================================================================
