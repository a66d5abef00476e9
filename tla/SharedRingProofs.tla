-------------------------- MODULE SharedRingProofs --------------------------
(***************************************************************************)
(* SharedRing for every capacity of at least two, all producers and        *)
(* consumers, every handle, and any number of laps, deaths and heals.      *)
(***************************************************************************)
EXTENDS SharedRing, TLAPS

(* A cell is free for the producer of pos, or full for its consumer, and    *)
(* has passed pos from the moment pos is published.                         *)
Free(pos) == sequence[Cell(pos)] = pos
Full(pos) == sequence[Cell(pos)] = pos + 1
Past(pos) == sequence[Cell(pos)] > pos

RingTypeOK ==
    /\ producer_seq \in Nat /\ consumer_seq \in Nat
    /\ sequence \in [Cells -> Nat] /\ payload \in [Cells -> Items]
    /\ ppc \in [Producers -> {"idle", "inspect", "claim", "copy", "solecopy", "advance", "publish"}]
    /\ cpc \in [Consumers -> {"idle", "inspect", "claim", "copy", "solecopy", "advance", "release"}]
    /\ ppos \in [Producers -> Nat] /\ cpos \in [Consumers -> Nat] /\ cval \in [Consumers -> Items]
    /\ dead \subseteq Producers /\ healing \in Nat \cup {NoPos} /\ delivered \subseteq Nat \X Items

(* Who uses a handle for one thread is alone, and loads what only it moves. *)
SoleUse ==
    /\ \A p \in Producers :
         /\ ppc[p] # "idle" => p \in Users(Producers, SoleProducer)
         /\ IF SoleProducer THEN ppc[p] \notin {"claim", "copy"}
            ELSE ppc[p] \notin {"solecopy", "advance"}
         /\ SoleProducer /\ ppc[p] = "inspect" => ppos[p] = producer_seq
    /\ \A c \in Consumers :
         /\ cpc[c] # "idle" => c \in Users(Consumers, SoleConsumer)
         /\ IF SoleConsumer THEN cpc[c] \notin {"claim", "copy"}
            ELSE cpc[c] \notin {"solecopy", "advance"}
         /\ SoleConsumer /\ cpc[c] = "inspect" => cpos[c] = consumer_seq

CountersAgree ==
    /\ consumer_seq <= producer_seq
    /\ \A pos \in Nat : /\ pos < consumer_seq => Past(pos)
                        /\ Past(pos) => pos < producer_seq

ClaimedP(p) == ppc[p] \in {"copy", "publish"}
ProducersHold ==
    \A p \in Producers :
        /\ ppos[p] <= producer_seq
        /\ ClaimedP(p) => /\ ppos[p] < producer_seq
                          /\ Free(ppos[p]) \/ (Past(ppos[p]) /\ p \in dead)
        /\ ppc[p] \in {"solecopy", "advance"} => ppos[p] = producer_seq /\ Free(producer_seq)
        /\ ppc[p] = "claim" /\ ppos[p] = producer_seq => Free(producer_seq)
        /\ ppc[p] \in {"publish", "advance"} /\ Free(ppos[p])
             => payload[Cell(ppos[p])] = Item(ppos[p])
        /\ \A q \in Producers : ClaimedP(p) /\ ClaimedP(q) /\ ppos[p] = ppos[q] => p = q

ClaimedC(c) == cpc[c] \in {"copy", "release"}
ConsumersHold ==
    \A c \in Consumers :
        /\ cpos[c] <= consumer_seq
        /\ ClaimedC(c) => cpos[c] < consumer_seq /\ Full(cpos[c])
        /\ cpc[c] \in {"solecopy", "advance"} => cpos[c] = consumer_seq /\ Full(consumer_seq)
        /\ cpc[c] = "claim" /\ cpos[c] = consumer_seq => Full(consumer_seq)
        /\ cpc[c] \in {"release", "advance"} => AsPushed(cpos[c], cval[c])
        /\ \A d \in Consumers : ClaimedC(c) /\ ClaimedC(d) /\ cpos[c] = cpos[d] => c = d

FullAsPushed == \A pos \in Nat : Full(pos) => AsPushed(pos, payload[Cell(pos)])

HealsTheDead ==
    healing # NoPos => /\ healing < producer_seq
                       /\ Claimants(healing) # {} /\ Claimants(healing) \subseteq dead

DeliveredDone ==
    /\ \A d \in delivered : /\ d[1] < consumer_seq /\ Past(d[1]) /\ ~Full(d[1])
                            /\ AsPushed(d[1], d[2])
    /\ \A d, e \in delivered : d[1] = e[1] => d = e
    /\ {d[1] : d \in delivered} \cup Popping = 0..(consumer_seq - 1)

RingInv == /\ RingTypeOK /\ SoleUse /\ CountersAgree /\ ProducersHold /\ ConsumersHold
           /\ FullAsPushed /\ HealsTheDead /\ DeliveredDone

-----------------------------------------------------------------------------
(* Two positions less than a lap apart lie in different cells.              *)
LEMMA CellsDiffer ==
    ASSUME NEW i \in Nat, NEW j \in Nat, i < j, j - i < Capacity
    PROVE  Cell(i) # Cell(j)
<1> DEFINE qi == i \div Capacity
           qj == j \div Capacity
<1>0. Capacity \in Nat /\ Capacity > 0
  BY CapacityAssumption
<1>1. /\ qi \in Int /\ qj \in Int
      /\ i = Capacity * qi + (i % Capacity)
      /\ j = Capacity * qj + (j % Capacity)
  BY <1>0
<1>2. SUFFICES ASSUME i % Capacity = j % Capacity PROVE FALSE
  BY DEF Cell
<1> HIDE DEF qi, qj
<1>3. j - i = Capacity * (qj - qi)
  BY <1>0, <1>1, <1>2
<1>4. CASE qj - qi <= 0
  BY <1>0, <1>1, <1>3, <1>4
<1>5. CASE qj - qi >= 1
  BY <1>0, <1>1, <1>3, <1>5
<1> QED BY <1>1, <1>4, <1>5

(* A position lies in a cell, and a lap later in the same one.              *)
LEMMA CellInRing ==
    ASSUME NEW i \in Nat PROVE Cell(i) \in Cells /\ Cell(i) <= i
BY CapacityAssumption DEF Cell, Cells

(* Cells repeat every Capacity positions.                                   *)
LEMMA CellNextLap ==
    ASSUME NEW i \in Nat PROVE Cell(i + Capacity) = Cell(i)
<1> DEFINE q == i \div Capacity
           r == i % Capacity
           q1 == (i + Capacity) \div Capacity
           r1 == (i + Capacity) % Capacity
<1>0. Capacity \in Nat /\ Capacity > 0
  BY CapacityAssumption
<1>1. q \in Int /\ r \in 0..(Capacity - 1) /\ i = Capacity * q + r
  BY <1>0
<1>2. q1 \in Int /\ r1 \in 0..(Capacity - 1) /\ i + Capacity = Capacity * q1 + r1
  BY <1>0
<1> HIDE DEF q, r, q1, r1
<1> DEFINE k == q1 - q - 1
<1>3. k \in Int /\ r - r1 = Capacity * k
  BY <1>0, <1>1, <1>2
<1>4. r - r1 < Capacity /\ r - r1 > 0 - Capacity
  BY <1>0, <1>1, <1>2
<1> HIDE DEF k
<1>5. CASE k = 0
  <2>1. r = r1
    BY <1>0, <1>1, <1>2, <1>3, <1>5
  <2> QED BY <2>1 DEF r, r1, Cell
<1>6. CASE k >= 1
  BY <1>0, <1>3, <1>4, <1>6
<1>7. CASE k <= 0 - 1
  BY <1>0, <1>3, <1>4, <1>7
<1> QED BY <1>3, <1>5, <1>6, <1>7

(* Of the positions of one cell, those in one lap are the same.             *)
LEMMA SameCell ==
    ASSUME NEW i \in Nat, NEW j \in Nat, Cell(i) = Cell(j)
    PROVE  i = j \/ i >= j + Capacity \/ j >= i + Capacity
<1>0. Capacity \in Nat
  BY CapacityAssumption
<1>1. CASE i < j /\ j - i < Capacity
  BY <1>1, CellsDiffer
<1>2. CASE j < i /\ i - j < Capacity
  BY <1>2, CellsDiffer
<1> QED BY <1>0, <1>1, <1>2

(* Publishing pos, by its producer or by a heal, fills its cell for pos and *)
(* changes no other position's turn.                                        *)
LEMMA Publishing ==
    ASSUME RingTypeOK, NEW x \in Nat, Free(x),
           sequence' = [sequence EXCEPT ![Cell(x)] = x + 1], NEW y \in Nat
    PROVE  /\ Free(y)' <=> Free(y) /\ y # x
           /\ Full(y)' <=> Full(y) \/ y = x
           /\ Past(y)' <=> Past(y) \/ y = x
<1>0. /\ Capacity \in Nat /\ Capacity >= 2 /\ sequence[Cell(y)] \in Nat
      /\ Cell(x) \in Cells /\ Cell(y) \in Cells
  BY CapacityAssumption, CellInRing DEF RingTypeOK
<1>1. CASE Cell(y) = Cell(x)
  <2>1. sequence'[Cell(y)] = x + 1 /\ sequence[Cell(y)] = x
    BY <1>0, <1>1 DEF RingTypeOK, Free
  <2>2. x = y \/ x >= y + Capacity \/ y >= x + Capacity
    BY <1>1, SameCell
  <2> QED BY <1>0, <2>1, <2>2 DEF Free, Full, Past
<1>2. CASE Cell(y) # Cell(x)
  BY <1>0, <1>2 DEF RingTypeOK, Free, Full, Past
<1> QED BY <1>1, <1>2

(* Releasing pos frees its cell for the position a lap later, and changes   *)
(* no other position's turn.                                                *)
LEMMA Releasing ==
    ASSUME RingTypeOK, NEW x \in Nat, Full(x),
           sequence' = [sequence EXCEPT ![Cell(x)] = x + Capacity], NEW y \in Nat
    PROVE  /\ Free(y)' <=> Free(y) \/ y = x + Capacity
           /\ Free(y)' => ~Past(y)
           /\ Full(y)' <=> Full(y) /\ y # x
           /\ Past(y)' <=> Past(y)
<1>0. /\ Capacity \in Nat /\ Capacity >= 2 /\ sequence[Cell(y)] \in Nat
      /\ Cell(x) \in Cells /\ Cell(y) \in Cells
  BY CapacityAssumption, CellInRing DEF RingTypeOK
<1>1. CASE Cell(y) = Cell(x)
  <2>1. sequence'[Cell(y)] = x + Capacity /\ sequence[Cell(y)] = x + 1
    BY <1>0, <1>1 DEF RingTypeOK, Full
  <2>2. x = y \/ x >= y + Capacity \/ y >= x + Capacity
    BY <1>1, SameCell
  <2> QED BY <1>0, <2>1, <2>2 DEF Free, Full, Past
<1>2. CASE Cell(y) # Cell(x)
  <2>1. y # x + Capacity
    BY <1>2, CellNextLap
  <2> QED BY <1>0, <1>2, <2>1 DEF RingTypeOK, Free, Full, Past
<1> QED BY <1>1, <1>2

(* Writing the cell that is free for pos changes the payload of no other    *)
(* position whose turn it is.                                               *)
LEMMA Copying ==
    ASSUME RingTypeOK, NEW x \in Nat, Free(x),
           payload' = [payload EXCEPT ![Cell(x)] = Item(x)], NEW y \in Nat
    PROVE  /\ payload'[Cell(x)] = Item(x)
           /\ Full(y) \/ (Free(y) /\ y # x) => payload'[Cell(y)] = payload[Cell(y)]
<1>0. /\ Capacity \in Nat /\ Capacity >= 2 /\ Cell(x) \in Cells /\ Cell(y) \in Cells
  BY CapacityAssumption, CellInRing
<1>1. payload'[Cell(x)] = Item(x)
  BY <1>0 DEF RingTypeOK
<1>2. ASSUME Full(y) \/ (Free(y) /\ y # x) PROVE Cell(y) # Cell(x)
  <2>1. SUFFICES ASSUME Cell(y) = Cell(x) PROVE FALSE
    OBVIOUS
  <2>2. x = y + 1
    BY <1>2, <2>1 DEF Free, Full
  <2> QED BY <1>0, <2>1, <2>2, CellsDiffer
<1> QED BY <1>0, <1>1, <1>2 DEF RingTypeOK

(* No position is free and full, and one that is full has passed.           *)
LEMMA Turns ==
    ASSUME RingTypeOK, NEW y \in Nat
    PROVE  /\ Full(y) => Past(y) /\ ~Free(y)
           /\ Free(y) => ~Past(y)
<1>1. sequence[Cell(y)] \in Nat
  BY CellInRing DEF RingTypeOK
<1> QED BY <1>1 DEF Free, Full, Past

-----------------------------------------------------------------------------
(* The dead stay where they died, so what is as pushed stays so.            *)
LEMMA AsPushedKept ==
    ASSUME dead \subseteq dead', \A p \in dead : ppc'[p] = ppc[p] /\ ppos'[p] = ppos[p],
           NEW pos, NEW v, AsPushed(pos, v)
    PROVE  AsPushed(pos, v)'
BY DEF AsPushed, Item

(* What a step that leaves the ring and the consumers alone keeps.          *)
LEMMA RestKept ==
    ASSUME RingInv, UNCHANGED <<ring, consumers, delivered, kind>>,
           dead \subseteq dead', \A p \in dead : ppc'[p] = ppc[p] /\ ppos'[p] = ppos[p]
    PROVE  CountersAgree' /\ ConsumersHold' /\ FullAsPushed' /\ DeliveredDone'
<1> USE DEF RingInv, ring, consumers
<1>1. CountersAgree'
  BY DEF CountersAgree, Past
<1>2. ConsumersHold'
  BY AsPushedKept DEF ConsumersHold, ClaimedC, Full
<1>3. FullAsPushed'
  BY AsPushedKept DEF FullAsPushed, Full
<1>4. DeliveredDone'
  BY AsPushedKept DEF DeliveredDone, Past, Full, Popping
<1> QED BY <1>1, <1>2, <1>3, <1>4

(* A producer's step that changes only where its own call stands.           *)
LEMMA PushLocal ==
    ASSUME RingInv, NEW p \in Producers, p \notin dead,
           PushLoad(p) \/ PushInspect(p) \/ (PushClaim(p) /\ producer_seq # ppos[p])
    PROVE  RingInv'
<1> USE DEF RingInv
<1>0. /\ UNCHANGED <<ring, consumers, dead, healing, delivered, kind>>
      /\ \A q \in Producers : q # p => ppc'[q] = ppc[q] /\ ppos'[q] = ppos[q]
      /\ ppc[p] \notin {"copy", "publish"} /\ ppc'[p] \notin {"copy", "publish"}
  BY DEF PushLoad, PushInspect, PushClaim, ring, consumers, At, GoP, RingTypeOK
<1>1. CountersAgree' /\ ConsumersHold' /\ FullAsPushed' /\ DeliveredDone'
  BY <1>0, RestKept DEF RingTypeOK
<1>2. HealsTheDead'
  <2>1. Claimants(healing)' = Claimants(healing)
    BY <1>0 DEF Claimants, RingTypeOK
  <2> QED BY <1>0, <2>1 DEF HealsTheDead, ring
<1>3. CASE PushLoad(p)
  <2>1. /\ ppc' = [ppc EXCEPT ![p] = "inspect"] /\ ppos' = [ppos EXCEPT ![p] = producer_seq]
        /\ p \in Users(Producers, SoleProducer)
    BY <1>3 DEF PushLoad, GoP
  <2>2. RingTypeOK'
    BY <1>0, <2>1 DEF RingTypeOK, ring, consumers
  <2>3. SoleUse'
    BY <1>0, <2>1 DEF SoleUse, RingTypeOK, SoleProducer, SoleConsumer, ring, consumers, Users
  <2>4. ProducersHold'
    BY <1>0, <2>1 DEF ProducersHold, ClaimedP, RingTypeOK, Free, Past, ring
  <2> QED BY <1>1, <1>2, <2>2, <2>3, <2>4
<1>4. CASE PushInspect(p)
  <2>1. PICK s \in {"idle", "claim", "solecopy"} :
            /\ ppc' = [ppc EXCEPT ![p] = s] /\ ppos' = ppos /\ ppc[p] = "inspect"
            /\ s # "idle" => Free(ppos[p])
            /\ s = "claim" => ~SoleProducer
            /\ s = "solecopy" => SoleProducer
    BY <1>4, Zenon DEF PushInspect, GoP, At, Free
  <2>2. RingTypeOK'
    BY <1>0, <2>1 DEF RingTypeOK, ring, consumers
  <2>3. SoleUse'
    BY <1>0, <2>1 DEF SoleUse, RingTypeOK, SoleProducer, SoleConsumer, ring, consumers, Users
  <2>4. ProducersHold'
    BY <1>0, <2>1 DEF ProducersHold, SoleUse, ClaimedP, RingTypeOK, Free, Past, ring
  <2> QED BY <1>1, <1>2, <2>2, <2>3, <2>4
<1>5. CASE PushClaim(p) /\ producer_seq # ppos[p]
  <2>1. ppc' = [ppc EXCEPT ![p] = "idle"] /\ ppos' = ppos
    BY <1>5 DEF PushClaim, GoP
  <2>2. RingTypeOK'
    BY <1>0, <2>1 DEF RingTypeOK, ring, consumers
  <2>3. SoleUse'
    BY <1>0, <2>1 DEF SoleUse, RingTypeOK, SoleProducer, SoleConsumer, ring, consumers, Users
  <2>4. ProducersHold'
    BY <1>0, <2>1 DEF ProducersHold, ClaimedP, RingTypeOK, Free, Past, ring
  <2> QED BY <1>1, <1>2, <2>2, <2>3, <2>4
<1> QED BY <1>3, <1>4, <1>5

(* A producer that wins the compare_exchange holds a cell that is free.     *)
LEMMA ClaimKeepsInv ==
    ASSUME RingInv, NEW p \in Producers, PushClaim(p), producer_seq = ppos[p]
    PROVE  RingInv'
<1> USE DEF RingInv
<1>0. /\ UNCHANGED <<consumer_seq, sequence, payload, ppos, consumers, dead, healing, delivered, kind>>
      /\ producer_seq' = producer_seq + 1 /\ ppc' = [ppc EXCEPT ![p] = "copy"]
      /\ ppc[p] = "claim" /\ p \notin dead /\ ~SoleProducer /\ Free(ppos[p])
      /\ \A pos \in Nat : Free(pos)' <=> Free(pos)
      /\ \A pos \in Nat : Full(pos)' <=> Full(pos)
      /\ \A pos \in Nat : Past(pos)' <=> Past(pos)
  BY DEF PushClaim, At, GoP, ProducersHold, SoleUse, Free, Full, Past
<1>1. RingTypeOK'
  BY <1>0 DEF RingTypeOK, consumers
<1>2. SoleUse'
  BY <1>0, <1>1 DEF SoleUse, RingTypeOK, SoleProducer, SoleConsumer, consumers
<1>3. CountersAgree'
  BY <1>0, <1>1 DEF CountersAgree, RingTypeOK
<1>4. ProducersHold'
  BY <1>0, <1>1 DEF ProducersHold, SoleUse, ClaimedP, RingTypeOK, Free
<1>5. \A pos, v : AsPushed(pos, v) => AsPushed(pos, v)'
  BY <1>0, AsPushedKept DEF RingTypeOK
<1>6. ConsumersHold'
  BY <1>0, <1>5 DEF ConsumersHold, ClaimedC, Full, consumers
<1>7. FullAsPushed'
  BY <1>0, <1>5 DEF FullAsPushed, Full
<1>8. HealsTheDead'
  <2> SUFFICES ASSUME healing # NoPos PROVE HealsTheDead'
    BY <1>0 DEF HealsTheDead
  <2>1. Claimants(healing)' = Claimants(healing)
    BY <1>0, <1>1 DEF Claimants, RingTypeOK, HealsTheDead
  <2> QED BY <1>0, <2>1 DEF HealsTheDead, RingTypeOK
<1>9. DeliveredDone'
  BY <1>0, <1>5 DEF DeliveredDone, Popping, Past, Full, consumers
<1> QED BY <1>1, <1>2, <1>3, <1>4, <1>6, <1>7, <1>8, <1>9

(* The sole producer claims by a store the position only it moves.          *)
LEMMA AdvanceKeepsInv ==
    ASSUME RingInv, NEW p \in Producers, SolePushAdvance(p)
    PROVE  RingInv'
<1> USE DEF RingInv
<1>0. /\ UNCHANGED <<consumer_seq, sequence, payload, ppos, consumers, dead, healing, delivered, kind>>
      /\ producer_seq' = producer_seq + 1 /\ ppc' = [ppc EXCEPT ![p] = "publish"]
      /\ ppc[p] = "advance" /\ p \notin dead /\ SoleProducer /\ Free(ppos[p])
      /\ ppos[p] = producer_seq
      /\ \A q \in Producers : q # p => ppc[q] = "idle"
      /\ \A pos \in Nat : Free(pos)' <=> Free(pos)
      /\ \A pos \in Nat : Full(pos)' <=> Full(pos)
      /\ \A pos \in Nat : Past(pos)' <=> Past(pos)
  BY Zenon DEF SolePushAdvance, At, GoP, ProducersHold, SoleUse, Users, Free, Full, Past
<1>1. RingTypeOK'
  BY <1>0 DEF RingTypeOK, consumers
<1>2. SoleUse'
  BY <1>0, <1>1 DEF SoleUse, RingTypeOK, SoleProducer, SoleConsumer, consumers
<1>3. CountersAgree'
  BY <1>0, <1>1 DEF CountersAgree, RingTypeOK
<1>4. ProducersHold'
  BY <1>0, <1>1 DEF ProducersHold, ClaimedP, RingTypeOK, Free
<1>5. \A pos, v : AsPushed(pos, v) => AsPushed(pos, v)'
  BY <1>0, AsPushedKept DEF RingTypeOK
<1>6. ConsumersHold'
  BY <1>0, <1>5 DEF ConsumersHold, ClaimedC, Full, consumers
<1>7. FullAsPushed'
  BY <1>0, <1>5 DEF FullAsPushed, Full
<1>8. HealsTheDead'
  <2> SUFFICES ASSUME healing # NoPos PROVE HealsTheDead'
    BY <1>0 DEF HealsTheDead
  <2>1. Claimants(healing)' = Claimants(healing)
    BY <1>0, <1>1 DEF Claimants, RingTypeOK, HealsTheDead
  <2> QED BY <1>0, <2>1 DEF HealsTheDead, RingTypeOK
<1>9. DeliveredDone'
  BY <1>0, <1>5 DEF DeliveredDone, Popping, Past, Full, consumers
<1> QED BY <1>1, <1>2, <1>3, <1>4, <1>6, <1>7, <1>8, <1>9

(* A payload is copied into a cell that is free for it.                     *)
LEMMA CopyKeepsInv ==
    ASSUME RingInv, NEW p \in Producers, PushCopy(p) \/ SolePushCopy(p)
    PROVE  RingInv'
<1> USE DEF RingInv
<1> DEFINE x == ppos[p]
<1>0. PICK s \in {"publish", "advance"} :
      /\ UNCHANGED <<producer_seq, consumer_seq, sequence, ppos, consumers, dead, healing, delivered, kind>>
      /\ payload' = [payload EXCEPT ![Cell(x)] = Item(x)] /\ ppc' = [ppc EXCEPT ![p] = s]
      /\ IF s = "publish" THEN ppc[p] = "copy" ELSE ppc[p] = "solecopy"
      /\ p \notin dead /\ Free(x) /\ x \in Nat
      /\ \A pos \in Nat : Free(pos)' <=> Free(pos)
      /\ \A pos \in Nat : Full(pos)' <=> Full(pos)
      /\ \A pos \in Nat : Past(pos)' <=> Past(pos)
  BY DEF PushCopy, SolePushCopy, Write, At, GoP, ProducersHold, ClaimedP, RingTypeOK, Free, Full, Past
<1> HIDE DEF x
<1>1. RingTypeOK'
  BY <1>0, CellInRing DEF RingTypeOK, consumers, Items, Item
<1>2. SoleUse'
  BY <1>0, <1>1 DEF SoleUse, RingTypeOK, SoleProducer, SoleConsumer, consumers
<1>3. CountersAgree'
  BY <1>0, <1>1 DEF CountersAgree, RingTypeOK
<1>4. ProducersHold'
  <2>1. \A q \in Producers : q # p => ppc[q] \notin {"publish", "advance"} \/ ppos[q] # x
    BY <1>0, Zenon DEF ProducersHold, ClaimedP, SoleUse, Users, x
  <2>2. \A q \in Producers : ppc'[q] \in {"publish", "advance"} /\ Free(ppos[q])
                             => payload'[Cell(ppos[q])] = Item(ppos[q])
    <3> SUFFICES ASSUME NEW q \in Producers, ppc'[q] \in {"publish", "advance"}, Free(ppos[q])
                 PROVE  payload'[Cell(ppos[q])] = Item(ppos[q])
      OBVIOUS
    <3>1. CASE q = p
      BY <1>0, <3>1, Copying, Zenon DEF x
    <3>2. CASE q # p
      <4>1. ppos[q] \in Nat /\ ppos[q] # x /\ payload[Cell(ppos[q])] = Item(ppos[q])
        BY <1>0, <2>1, <3>2 DEF ProducersHold, RingTypeOK
      <4> QED BY <1>0, <4>1, Copying, Zenon
    <3> QED BY <3>1, <3>2
  <2> QED BY <1>0, <2>2 DEF ProducersHold, ClaimedP, RingTypeOK, Free, Past, x
<1>5. \A pos, v : AsPushed(pos, v) => AsPushed(pos, v)'
  BY <1>0, AsPushedKept DEF RingTypeOK
<1>6. ConsumersHold'
  BY <1>0, <1>5 DEF ConsumersHold, ClaimedC, Full, consumers
<1>7. FullAsPushed'
  <2>1. \A pos \in Nat : Full(pos) => payload'[Cell(pos)] = payload[Cell(pos)]
    BY <1>0, Copying, Zenon
  <2> QED BY <1>0, <1>5, <2>1 DEF FullAsPushed
<1>8. HealsTheDead'
  <2> SUFFICES ASSUME healing # NoPos PROVE HealsTheDead'
    BY <1>0 DEF HealsTheDead
  <2>1. Claimants(healing)' = Claimants(healing)
    BY <1>0, <1>1 DEF Claimants, RingTypeOK, HealsTheDead
  <2> QED BY <1>0, <2>1 DEF HealsTheDead, RingTypeOK
<1>9. DeliveredDone'
  BY <1>0, <1>5 DEF DeliveredDone, Popping, Past, Full, consumers
<1> QED BY <1>1, <1>2, <1>3, <1>4, <1>6, <1>7, <1>8, <1>9

(* What publishing a claimed position keeps, whoever publishes it.          *)
LEMMA PublishedKept ==
    ASSUME RingInv, NEW x \in Nat, Free(x), x < producer_seq, AsPushed(x, payload[Cell(x)]),
           sequence' = [sequence EXCEPT ![Cell(x)] = x + 1],
           UNCHANGED <<producer_seq, consumer_seq, payload, ppos, consumers, dead, delivered, kind>>,
           \A p \in dead : ppc'[p] = ppc[p]
    PROVE  CountersAgree' /\ ConsumersHold' /\ FullAsPushed' /\ DeliveredDone'
<1> USE DEF RingInv
<1>1. \A y \in Nat : /\ Free(y)' <=> Free(y) /\ y # x
                     /\ Full(y)' <=> Full(y) \/ y = x
                     /\ Past(y)' <=> Past(y) \/ y = x
  BY Publishing, Zenon
<1>2. \A pos, v : AsPushed(pos, v) => AsPushed(pos, v)'
  BY AsPushedKept
<1>3. CountersAgree'
  BY <1>1 DEF CountersAgree, RingTypeOK
<1>4. ConsumersHold'
  BY <1>1, <1>2 DEF ConsumersHold, ClaimedC, RingTypeOK, consumers
<1>5. FullAsPushed'
  BY <1>1, <1>2 DEF FullAsPushed
<1>6. DeliveredDone'
  <2>1. ~Past(x)
    BY Turns
  <2>2. \A d \in delivered : d[1] \in Nat
    BY DEF RingTypeOK
  <2> QED BY <1>1, <1>2, <2>1, <2>2 DEF DeliveredDone, Popping, consumers
<1> QED BY <1>3, <1>4, <1>5, <1>6

(* A producer publishes its own position.                                   *)
LEMMA PublishKeepsInv ==
    ASSUME RingInv, NEW p \in Producers, PushPublish(p)
    PROVE  RingInv'
<1> USE DEF RingInv
<1> DEFINE x == ppos[p]
<1>0. /\ UNCHANGED <<producer_seq, consumer_seq, payload, ppos, consumers, dead, healing, delivered, kind>>
      /\ sequence' = [sequence EXCEPT ![Cell(x)] = x + 1] /\ ppc' = [ppc EXCEPT ![p] = "idle"]
      /\ ppc[p] = "publish" /\ p \notin dead /\ Free(x) /\ x \in Nat /\ x < producer_seq
      /\ payload[Cell(x)] = Item(x)
  BY DEF PushPublish, At, GoP, ProducersHold, ClaimedP, RingTypeOK
<1> HIDE DEF x
<1>1. RingTypeOK'
  <2>1. sequence' \in [Cells -> Nat]
    <3>1. sequence \in [Cells -> Nat] /\ x + 1 \in Nat
      BY <1>0 DEF RingTypeOK
    <3> QED BY ONLY <1>0, <3>1, Zenon
  <2>2. ppc' \in [Producers -> {"idle", "inspect", "claim", "copy", "solecopy", "advance", "publish"}]
    BY <1>0 DEF RingTypeOK
  <2> QED BY <1>0, <2>1, <2>2 DEF RingTypeOK, consumers
<1>2. SoleUse'
  BY <1>0, <1>1 DEF SoleUse, RingTypeOK, SoleProducer, SoleConsumer, consumers
<1>3. CountersAgree' /\ ConsumersHold' /\ FullAsPushed' /\ DeliveredDone'
  BY <1>0, PublishedKept, Zenon DEF AsPushed, RingTypeOK
<1>4. ProducersHold'
  <2>1. \A y \in Nat : /\ Free(y)' <=> Free(y) /\ y # x
                       /\ Past(y)' <=> Past(y) \/ y = x
    BY <1>0, Publishing, Zenon
  <2>2. \A q \in Producers : q # p /\ ClaimedP(q) => ppos[q] # x
    BY <1>0 DEF ProducersHold, ClaimedP, x
  <2>3. /\ ppc'[p] = "idle" /\ \A q \in Producers : q # p => ppc'[q] = ppc[q]
        /\ \A q \in Producers : ppos[q] \in Nat
    BY <1>0 DEF RingTypeOK
  <2>4. \A q \in Producers : ClaimedP(q)' => q # p /\ ClaimedP(q)
    BY <2>3 DEF ClaimedP
  <2>5. producer_seq # x /\ producer_seq \in Nat /\ UNCHANGED <<producer_seq, ppos, payload, dead>>
    BY <1>0 DEF RingTypeOK
  <2> QED BY <2>1, <2>2, <2>3, <2>4, <2>5 DEF ProducersHold
<1>5. HealsTheDead'
  <2> SUFFICES ASSUME healing # NoPos PROVE HealsTheDead'
    BY <1>0 DEF HealsTheDead
  <2>1. Claimants(healing)' = Claimants(healing)
    BY <1>0, <1>1 DEF Claimants, RingTypeOK, HealsTheDead
  <2> QED BY <1>0, <2>1 DEF HealsTheDead, RingTypeOK
<1> QED BY <1>1, <1>2, <1>3, <1>4, <1>5

(* A heal publishes a position only its dead claimant could have published. *)
LEMMA HealKeepsInv ==
    ASSUME RingInv, HealCas, Free(healing)
    PROVE  RingInv'
<1> USE DEF RingInv
<1> DEFINE x == healing
<1>0. /\ UNCHANGED <<producer_seq, consumer_seq, payload, ppc, ppos, consumers, dead, delivered, kind>>
      /\ sequence' = [sequence EXCEPT ![Cell(x)] = x + 1] /\ healing' = NoPos
      /\ x \in Nat /\ Free(x) /\ x < producer_seq
      /\ Claimants(x) # {} /\ Claimants(x) \subseteq dead
  BY DEF HealCas, HealsTheDead, RingTypeOK, Free, producers
<1> HIDE DEF x
<1>1. RingTypeOK'
  BY <1>0, CellInRing DEF RingTypeOK, consumers
<1>2. SoleUse'
  BY <1>0, <1>1 DEF SoleUse, RingTypeOK, SoleProducer, SoleConsumer, consumers
<1>3. CountersAgree' /\ ConsumersHold' /\ FullAsPushed' /\ DeliveredDone'
  <2>1. PICK p \in Producers : p \in dead /\ ppc[p] \in {"copy", "publish"} /\ ppos[p] = x
    BY <1>0 DEF Claimants
  <2>2. AsPushed(x, payload[Cell(x)])
    BY <1>0, <2>1 DEF AsPushed, ProducersHold
  <2> QED BY <1>0, <2>2, PublishedKept, Zenon
<1>4. ProducersHold'
  <2>1. \A y \in Nat : /\ Free(y)' <=> Free(y) /\ y # x
                       /\ Past(y)' <=> Past(y) \/ y = x
    BY <1>0, Publishing, Zenon
  <2>2. \A q \in Producers : ClaimedP(q) /\ ppos[q] = x => q \in dead
    BY <1>0 DEF Claimants, ClaimedP
  <2> QED BY <1>0, <2>1, <2>2, SMTT(30) DEF ProducersHold, ClaimedP, RingTypeOK
<1>5. HealsTheDead'
  BY <1>0 DEF HealsTheDead
<1> QED BY <1>1, <1>2, <1>3, <1>4, <1>5

-----------------------------------------------------------------------------
(* What a consumer's step that leaves the ring alone keeps.                 *)
LEMMA PushSideKept ==
    ASSUME RingInv, UNCHANGED <<ring, producers, dead, healing, delivered, kind>>
    PROVE  CountersAgree' /\ ProducersHold' /\ FullAsPushed' /\ HealsTheDead'
<1> USE DEF RingInv, ring, producers
<1>1. CountersAgree'
  BY DEF CountersAgree, Past
<1>2. ProducersHold'
  BY DEF ProducersHold, ClaimedP, Free, Past
<1>3. FullAsPushed'
  BY DEF FullAsPushed, Full, AsPushed
<1>4. HealsTheDead'
  BY DEF HealsTheDead, Claimants
<1> QED BY <1>1, <1>2, <1>3, <1>4

(* A consumer's step that changes only where its own call stands.           *)
LEMMA PopLocal ==
    ASSUME RingInv, NEW c \in Consumers,
           PopLoad(c) \/ PopInspect(c) \/ (PopClaim(c) /\ consumer_seq # cpos[c])
    PROVE  RingInv'
<1> USE DEF RingInv
<1>0. /\ UNCHANGED <<ring, producers, cval, dead, healing, delivered, kind>>
      /\ \A d \in Consumers : d # c => cpc'[d] = cpc[d] /\ cpos'[d] = cpos[d]
      /\ cpc[c] \notin {"copy", "release"} /\ cpc'[c] \notin {"copy", "release"}
  BY DEF PopLoad, PopInspect, PopClaim, ring, producers, GoC, RingTypeOK
<1>1. CountersAgree' /\ ProducersHold' /\ FullAsPushed' /\ HealsTheDead'
  BY <1>0, PushSideKept
<1>2. DeliveredDone'
  <2>1. Popping' = Popping
    BY <1>0 DEF Popping
  <2> QED BY <1>0, <2>1 DEF DeliveredDone, Past, Full, AsPushed, ring, producers
<1>3. CASE PopLoad(c)
  <2>1. /\ cpc' = [cpc EXCEPT ![c] = "inspect"] /\ cpos' = [cpos EXCEPT ![c] = consumer_seq]
        /\ c \in Users(Consumers, SoleConsumer)
    BY <1>3 DEF PopLoad, GoC
  <2>2. RingTypeOK'
    BY <1>0, <2>1 DEF RingTypeOK, ring, producers
  <2>3. SoleUse'
    BY <1>0, <2>1 DEF SoleUse, RingTypeOK, SoleProducer, SoleConsumer, ring, producers, Users
  <2>4. ConsumersHold'
    BY <1>0, <2>1, SMTT(30) DEF ConsumersHold, ClaimedC, RingTypeOK, Full, AsPushed, ring, producers
  <2> QED BY <1>1, <1>2, <2>2, <2>3, <2>4
<1>4. CASE PopInspect(c)
  <2>1. PICK s \in {"idle", "claim", "solecopy"} :
            /\ cpc' = [cpc EXCEPT ![c] = s] /\ cpos' = cpos /\ cpc[c] = "inspect"
            /\ s # "idle" => Full(cpos[c])
            /\ s = "claim" => ~SoleConsumer
            /\ s = "solecopy" => SoleConsumer
    BY <1>4, Zenon DEF PopInspect, GoC, Full
  <2>2. RingTypeOK'
    BY <1>0, <2>1 DEF RingTypeOK, ring, producers
  <2>3. SoleUse'
    BY <1>0, <2>1 DEF SoleUse, RingTypeOK, SoleProducer, SoleConsumer, ring, producers, Users
  <2>4. ConsumersHold'
    <3>1. /\ \A pos, v : AsPushed(pos, v)' <=> AsPushed(pos, v)
          /\ \A pos : Full(pos)' <=> Full(pos)
      BY <1>0 DEF AsPushed, Full, ring, producers
    <3>2. cpc'[c] = s /\ \A d \in Consumers : ClaimedC(d)' <=> ClaimedC(d)
      BY <1>0, <2>1 DEF ClaimedC, RingTypeOK
    <3>3. s = "solecopy" => cpos[c] = consumer_seq
      BY <2>1, Zenon DEF SoleUse
    <3>4. UNCHANGED <<cpos, cval, consumer_seq>>
      BY <1>0, <2>1 DEF ring
    <3> QED BY <1>0, <2>1, <3>1, <3>2, <3>3, <3>4, Zenon DEF ConsumersHold
  <2> QED BY <1>1, <1>2, <2>2, <2>3, <2>4
<1>5. CASE PopClaim(c) /\ consumer_seq # cpos[c]
  <2>1. cpc' = [cpc EXCEPT ![c] = "idle"] /\ cpos' = cpos
    BY <1>5 DEF PopClaim, GoC
  <2>2. RingTypeOK'
    BY <1>0, <2>1 DEF RingTypeOK, ring, producers
  <2>3. SoleUse'
    BY <1>0, <2>1 DEF SoleUse, RingTypeOK, SoleProducer, SoleConsumer, ring, producers, Users
  <2>4. ConsumersHold'
    BY <1>0, <2>1, SMTT(30) DEF ConsumersHold, ClaimedC, RingTypeOK, Full, AsPushed, ring, producers
  <2> QED BY <1>1, <1>2, <2>2, <2>3, <2>4
<1> QED BY <1>3, <1>4, <1>5

(* A consumer takes the head of the ring, by winning the compare_exchange,  *)
(* or by a store when it is alone; that position is published.              *)
LEMMA TakeKeepsInv ==
    ASSUME RingInv, NEW c \in Consumers,
           (PopClaim(c) /\ consumer_seq = cpos[c]) \/ SolePopAdvance(c)
    PROVE  RingInv'
<1> USE DEF RingInv
<1>0. PICK s \in {"copy", "release"} :
      /\ UNCHANGED <<producer_seq, sequence, payload, producers, cpos, cval, dead, healing, delivered, kind>>
      /\ consumer_seq' = consumer_seq + 1 /\ cpc' = [cpc EXCEPT ![c] = s]
      /\ cpos[c] = consumer_seq /\ Full(consumer_seq)
      /\ IF s = "copy" THEN cpc[c] = "claim" ELSE cpc[c] = "advance"
  BY DEF PopClaim, SolePopAdvance, GoC, ConsumersHold
<1>1. /\ \A pos \in Nat : (Free(pos)' <=> Free(pos)) /\ (Full(pos)' <=> Full(pos))
      /\ \A pos \in Nat : Past(pos)' <=> Past(pos)
      /\ \A pos, v : AsPushed(pos, v)' <=> AsPushed(pos, v)
  BY <1>0 DEF Free, Full, Past, AsPushed, producers
<1>2. RingTypeOK'
  BY <1>0 DEF RingTypeOK, producers
<1>3. SoleUse'
  BY <1>0, <1>2, Zenon DEF SoleUse, RingTypeOK, SoleProducer, SoleConsumer, producers, Users
<1>4. CountersAgree'
  <2>1. Past(consumer_seq)
    BY <1>0, Turns DEF RingTypeOK
  <2> QED BY <1>0, <1>1, <2>1 DEF CountersAgree, RingTypeOK
<1>5. ProducersHold'
  BY <1>0, <1>1 DEF ProducersHold, ClaimedP, RingTypeOK, producers
<1>6. ConsumersHold'
  <2>1. \A d \in Consumers : d # c =>
           /\ s = "release" => cpc[d] = "idle"
           /\ cpc'[d] = cpc[d]
           /\ cpc[d] \notin {"solecopy", "advance"}
    BY <1>0, Zenon DEF SoleUse, Users, RingTypeOK
  <2>2. cpc'[c] = s
    BY <1>0 DEF RingTypeOK
  <2>3. \A d \in Consumers : cpos[d] \in Nat /\ cpos[d] <= consumer_seq
    BY DEF ConsumersHold, RingTypeOK
  <2>4. \A d \in Consumers : ClaimedC(d)' => cpos[d] < consumer_seq + 1 /\ Full(cpos[d])
    <3>1. \A d \in Consumers : d # c /\ ClaimedC(d)' => ClaimedC(d)
      BY <2>1 DEF ClaimedC
    <3>2. \A d \in Consumers : ClaimedC(d) => Full(cpos[d])
      BY DEF ConsumersHold
    <3>3. \A i \in Nat : i <= consumer_seq => i < consumer_seq + 1
      BY DEF RingTypeOK
    <3> QED BY ONLY <1>0, <2>3, <3>1, <3>2, <3>3
  <2>5. \A d \in Consumers : cpc'[d] \in {"release", "advance"} => AsPushed(cpos[d], cval[d])
    BY <1>0, <2>1, <2>2 DEF ConsumersHold
  <2>6. \A d \in Consumers : d # c /\ ClaimedC(d) => cpos[d] # cpos[c]
    BY <1>0, <2>3 DEF ConsumersHold, RingTypeOK
  <2>7. \A d, e \in Consumers : ClaimedC(d)' /\ ClaimedC(e)' /\ cpos[d] = cpos[e] => d = e
    BY <1>0, <2>1, <2>2, <2>6 DEF ConsumersHold, ClaimedC
  <2>8. \A d \in Consumers : cpc'[d] \notin {"solecopy", "advance"}
    BY <1>0, <2>1, <2>2
  <2>9. \A d \in Consumers : cpos[d] <= consumer_seq + 1 /\ cpos[d] # consumer_seq + 1
    BY <2>3 DEF RingTypeOK
  <2>10. consumer_seq' = consumer_seq + 1 /\ cpos' = cpos /\ cval' = cval
    BY <1>0
  <2> QED BY <1>1, <2>3, <2>4, <2>5, <2>7, <2>8, <2>9, <2>10, Zenon DEF ConsumersHold
<1>7. FullAsPushed'
  BY <1>0, <1>1 DEF FullAsPushed
<1>8. HealsTheDead'
  BY <1>0 DEF HealsTheDead, Claimants, producers
<1>9. DeliveredDone'
  <2>1. Popping' = Popping \cup {consumer_seq}
    BY <1>0 DEF Popping, RingTypeOK
  <2>2. 0..(consumer_seq' - 1) = (0..(consumer_seq - 1)) \cup {consumer_seq}
    BY <1>0 DEF RingTypeOK
  <2>3. \A d \in delivered : d[1] \in Nat
    BY DEF RingTypeOK
  <2>4. ({d[1] : d \in delivered} \cup Popping)' = 0..(consumer_seq' - 1)
    BY <1>0, <2>1, <2>2 DEF DeliveredDone
  <2>5. \A d \in delivered : /\ d[1] < consumer_seq + 1 /\ Past(d[1]) /\ ~Full(d[1])
                             /\ AsPushed(d[1], d[2])
    <3>1. \A d \in delivered : /\ d[1] < consumer_seq /\ Past(d[1]) /\ ~Full(d[1])
                               /\ AsPushed(d[1], d[2])
      BY DEF DeliveredDone
    <3>2. \A i \in Nat : i < consumer_seq => i < consumer_seq + 1
      BY DEF RingTypeOK
    <3> QED BY ONLY <2>3, <3>1, <3>2
  <2>6. \A d \in delivered : Past(d[1])' /\ ~Full(d[1])' /\ AsPushed(d[1], d[2])'
    BY <1>1, <2>3, <2>5
  <2> QED BY <1>0, <2>4, <2>5, <2>6, Zenon DEF DeliveredDone
<1> QED BY <1>2, <1>3, <1>4, <1>5, <1>6, <1>7, <1>8, <1>9

(* What a consumer copies out of a full cell is what was pushed.            *)
LEMMA ReadKeepsInv ==
    ASSUME RingInv, NEW c \in Consumers, PopCopy(c) \/ SolePopCopy(c)
    PROVE  RingInv'
<1> USE DEF RingInv
<1>0. PICK s \in {"release", "advance"} :
      /\ UNCHANGED <<ring, producers, cpos, dead, healing, delivered, kind>>
      /\ cval' = [cval EXCEPT ![c] = payload[Cell(cpos[c])]] /\ cpc' = [cpc EXCEPT ![c] = s]
      /\ Full(cpos[c]) /\ cpos[c] \in Nat
      /\ IF s = "release" THEN cpc[c] = "copy" ELSE cpc[c] = "solecopy"
  BY DEF PopCopy, SolePopCopy, Read, GoC, ConsumersHold, ClaimedC, RingTypeOK
<1>1. CountersAgree' /\ ProducersHold' /\ FullAsPushed' /\ HealsTheDead'
  BY <1>0, PushSideKept
<1>2. RingTypeOK'
  BY <1>0, CellInRing DEF RingTypeOK, ring, producers
<1>3. SoleUse'
  BY <1>0, <1>2 DEF SoleUse, RingTypeOK, SoleProducer, SoleConsumer, ring, producers, Users
<1>4. \A pos, v : AsPushed(pos, v)' <=> AsPushed(pos, v)
  BY <1>0 DEF AsPushed, producers
<1>5. ConsumersHold'
  <2>1. AsPushed(cpos[c], payload[Cell(cpos[c])])
    BY <1>0 DEF FullAsPushed
  <2>2. \A pos : Full(pos)' <=> Full(pos)
    BY <1>0 DEF Full, ring
  <2>3. /\ cval'[c] = payload[Cell(cpos[c])] /\ cpc'[c] = s
        /\ \A d \in Consumers : d # c => cval'[d] = cval[d] /\ cpc'[d] = cpc[d]
    BY <1>0 DEF RingTypeOK
  <2>4. \A d \in Consumers : ClaimedC(d)' <=> ClaimedC(d)
    BY <1>0, <2>3 DEF ClaimedC
  <2>5. UNCHANGED <<cpos, consumer_seq>>
    BY <1>0 DEF ring
  <2> QED BY <1>0, <1>4, <2>1, <2>2, <2>3, <2>4, <2>5 DEF ConsumersHold
<1>6. DeliveredDone'
  <2>1. Popping' = Popping
    BY <1>0 DEF Popping, RingTypeOK
  <2> QED BY <1>0, <1>4, <2>1, Zenon DEF DeliveredDone, Past, Full, ring
<1> QED BY <1>1, <1>2, <1>3, <1>5, <1>6

(* A released position has been delivered once, and frees its cell for the  *)
(* producer of the next lap.                                                *)
LEMMA ReleaseKeepsInv ==
    ASSUME RingInv, NEW c \in Consumers, PopRelease(c)
    PROVE  RingInv'
<1> USE DEF RingInv
<1> DEFINE x == cpos[c]
<1>0. /\ UNCHANGED <<producer_seq, consumer_seq, payload, producers, cpos, cval, dead, healing, kind>>
      /\ sequence' = [sequence EXCEPT ![Cell(x)] = x + Capacity] /\ cpc' = [cpc EXCEPT ![c] = "idle"]
      /\ delivered' = delivered \cup {<<x, cval[c]>>}
      /\ cpc[c] = "release" /\ Full(x) /\ x \in Nat /\ x < consumer_seq /\ AsPushed(x, cval[c])
  BY DEF PopRelease, GoC, ConsumersHold, ClaimedC, RingTypeOK
<1> HIDE DEF x
<1>1. /\ \A y \in Nat : Free(y) => Free(y)'
      /\ \A y \in Nat : Free(y)' => ~Past(y)
      /\ \A y \in Nat : Full(y)' <=> Full(y) /\ y # x
      /\ \A y \in Nat : Past(y)' <=> Past(y)
  <2>1. RingTypeOK
    OBVIOUS
  <2> QED BY ONLY <1>0, <2>1, Releasing, Zenon
<1>2. \A pos, v : AsPushed(pos, v)' <=> AsPushed(pos, v)
  BY <1>0, Zenon DEF AsPushed, producers
<1>3. RingTypeOK'
  <2>1. sequence' \in [Cells -> Nat] /\ delivered' \subseteq Nat \X Items
    <3>1. sequence \in [Cells -> Nat] /\ delivered \subseteq Nat \X Items /\ cval[c] \in Items
      BY DEF RingTypeOK
    <3>2. x + Capacity \in Nat
      BY <1>0, CapacityAssumption
    <3>3. sequence' \in [Cells -> Nat]
      BY ONLY <1>0, <3>1, <3>2, Zenon
    <3>4. delivered' \subseteq Nat \X Items
      BY ONLY <1>0, <3>1
    <3> QED BY <3>3, <3>4
  <2> QED BY <1>0, <2>1 DEF RingTypeOK, producers
<1>4. SoleUse'
  BY <1>0, <1>3 DEF SoleUse, RingTypeOK, SoleProducer, SoleConsumer, producers, Users
<1>5. CountersAgree'
  BY <1>0, <1>1 DEF CountersAgree
<1>6. ProducersHold'
  <2>1. \A p \in Producers : ppc[p] \in {"publish", "advance"} /\ Free(ppos[p])'
                             => payload[Cell(ppos[p])] = Item(ppos[p])
    BY <1>0, <1>1 DEF ProducersHold, ClaimedP, RingTypeOK, producers
  <2> QED BY <1>0, <1>1, <2>1 DEF ProducersHold, ClaimedP, RingTypeOK, producers
<1>7. ConsumersHold'
  <2>1. \A d \in Consumers : d # c => /\ ClaimedC(d) => cpos[d] # x
                                      /\ cpc[d] \in {"solecopy", "advance", "claim"} => consumer_seq # x
    BY <1>0, SMTT(30) DEF ConsumersHold, ClaimedC, RingTypeOK, x
  <2> QED BY <1>0, <1>1, <1>2, <2>1 DEF ConsumersHold, ClaimedC, RingTypeOK
<1>8. FullAsPushed'
  BY <1>0, <1>1, <1>2, Zenon DEF FullAsPushed
<1>9. HealsTheDead'
  BY <1>0 DEF HealsTheDead, Claimants, producers
<1>10. DeliveredDone'
  <2>1. (Popping' \cup {x}) = Popping
    BY <1>0 DEF Popping, RingTypeOK, x
  <2>2. {d[1] : d \in delivered'} = {d[1] : d \in delivered} \cup {x}
    <3>1. <<x, cval[c]>>[1] = x
      OBVIOUS
    <3> QED BY <1>0, <3>1, Zenon
  <2>3. \A d \in delivered : d[1] \in Nat /\ d[1] # x
    BY <1>0 DEF DeliveredDone, RingTypeOK
  <2>4. ({d[1] : d \in delivered} \cup Popping)' = 0..(consumer_seq' - 1)
    BY <1>0, <2>1, <2>2 DEF DeliveredDone
  <2>5. Past(x)
    BY <1>0, Turns
  <2>6. \A d \in delivered' : d \in delivered \/ (d = <<x, cval[c]>> /\ d[1] = x /\ d[2] = cval[c])
    BY <1>0
  <2>7. \A d \in delivered : /\ d[1] < consumer_seq /\ Past(d[1])' /\ ~Full(d[1])'
                             /\ AsPushed(d[1], d[2])'
    <3>1. \A d \in delivered : d[1] < consumer_seq /\ Past(d[1]) /\ AsPushed(d[1], d[2]) /\ ~Full(d[1])
      BY DEF DeliveredDone
    <3> QED BY ONLY <1>1, <1>2, <2>3, <3>1
  <2>8. \A d \in delivered' : d[1] = x /\ d[2] = cval[c]
                             => Past(d[1])' /\ ~Full(d[1])' /\ AsPushed(d[1], d[2])'
    BY ONLY <1>0, <1>1, <1>2, <2>5
  <2>9. \A d, e \in delivered' : d[1] = e[1] => d = e
    <3>1. \A d, e \in delivered : d[1] = e[1] => d = e
      BY DEF DeliveredDone
    <3> QED BY ONLY <2>3, <2>6, <3>1
  <2>10. consumer_seq' = consumer_seq /\ x < consumer_seq
    BY <1>0
  <2>11. \A d \in delivered' : /\ d[1] < consumer_seq' /\ Past(d[1])' /\ ~Full(d[1])'
                               /\ AsPushed(d[1], d[2])'
    BY ONLY <2>6, <2>7, <2>8, <2>10
  <2> QED BY <2>4, <2>9, <2>11 DEF DeliveredDone
<1> QED BY <1>3, <1>4, <1>5, <1>6, <1>7, <1>8, <1>9, <1>10

-----------------------------------------------------------------------------
(* A fresh ring meets the invariant.                                        *)
LEMMA RingInitInv == Init => RingInv
<1> SUFFICES ASSUME Init PROVE RingInv
  OBVIOUS
<1> USE DEF Init
<1>1. RingTypeOK
  BY CapacityAssumption DEF RingTypeOK, Cells, Items, Zeros, NoPos
<1>2. \A pos \in Nat : ~Past(pos) /\ ~Full(pos)
  BY CellInRing DEF Past, Full, Cells
<1>3. SoleUse /\ HealsTheDead
  BY DEF SoleUse, HealsTheDead
<1>4. CountersAgree
  BY <1>2 DEF CountersAgree
<1>5. ProducersHold /\ ConsumersHold
  BY DEF ProducersHold, ConsumersHold, ClaimedP, ClaimedC
<1>6. FullAsPushed
  BY <1>2 DEF FullAsPushed
<1>7. DeliveredDone
  BY DEF DeliveredDone, Popping
<1> QED BY <1>1, <1>3, <1>4, <1>5, <1>6, <1>7 DEF RingInv

(* A death, or a heal's look at the counters, moves nothing in the ring.    *)
LEMMA CrashKeepsInv ==
    ASSUME RingInv,
           \/ \E p \in Producers : Crash(p)
           \/ \E pos \in 0..(MaxPos - 1) : Heal(pos)
    PROVE  RingInv'
<1> USE DEF RingInv
<1>0. /\ UNCHANGED <<ring, producers, consumers, delivered, kind>>
      /\ dead \subseteq dead' /\ dead' \subseteq Producers
      /\ healing' # NoPos => \/ healing' = healing
                            \/ /\ healing' \in Nat /\ healing' < producer_seq
                               /\ Claimants(healing') # {} /\ Claimants(healing') \subseteq dead'
  <2>1. CASE \E p \in Producers : Crash(p)
    BY <2>1 DEF Crash, RingTypeOK
  <2>2. CASE \E pos \in 0..(MaxPos - 1) : Heal(pos)
    BY <2>2, BoundsAssumption, SMTT(30) DEF Heal, HealContract, HealCheck, InWindow, RingTypeOK
  <2> QED BY <2>1, <2>2
<1>1. CountersAgree' /\ ConsumersHold' /\ FullAsPushed' /\ DeliveredDone'
  BY <1>0, RestKept DEF producers
<1>2. RingTypeOK'
  BY <1>0 DEF RingTypeOK, ring, producers, consumers
<1>3. SoleUse'
  BY <1>0, Zenon DEF SoleUse, SoleProducer, SoleConsumer, ring, producers, consumers
<1>4. ProducersHold'
  BY <1>0 DEF ProducersHold, ClaimedP, Free, Past, ring, producers
<1>5. HealsTheDead'
  BY <1>0, Zenon DEF HealsTheDead, Claimants, ring, producers
<1> QED BY <1>1, <1>2, <1>3, <1>4, <1>5

(* Every step of a producer, a consumer, a crash or a heal keeps it.        *)
LEMMA RingNextInv == RingInv /\ [Next]_vars => RingInv'
<1> SUFFICES ASSUME RingInv, [Next]_vars PROVE RingInv'
  OBVIOUS
<1>1. ASSUME NEW p \in Producers, Push(p) PROVE RingInv'
  <2>1. p \notin dead
    BY <1>1 DEF Push, PushLoad, PushInspect, PushClaim, PushCopy, SolePushCopy, SolePushAdvance,
                PushPublish, At
  <2> QED BY <1>1, <2>1, PushLocal, ClaimKeepsInv, CopyKeepsInv, AdvanceKeepsInv, PublishKeepsInv
          DEF Push
<1>2. ASSUME NEW c \in Consumers, Pop(c) PROVE RingInv'
  BY <1>2, PopLocal, TakeKeepsInv, ReadKeepsInv, ReleaseKeepsInv DEF Pop
<1>3. CASE HealCas
  <2>1. CASE Free(healing)
    BY <1>3, <2>1, HealKeepsInv
  <2>2. CASE ~Free(healing)
    <3>1. UNCHANGED <<ring, producers, consumers, dead, delivered, kind>> /\ healing' = NoPos
      BY <1>3, <2>2 DEF HealCas, Free, ring
    <3>2. CountersAgree' /\ ConsumersHold' /\ FullAsPushed' /\ DeliveredDone'
      BY <3>1, RestKept DEF producers
    <3>3. RingTypeOK'
      BY <3>1 DEF RingInv, RingTypeOK, ring, producers, consumers
    <3>4. SoleUse' /\ ProducersHold' /\ HealsTheDead'
      BY <3>1, Zenon DEF RingInv, SoleUse, SoleProducer, SoleConsumer, ProducersHold, ClaimedP, Free, Past,
                  HealsTheDead, ring, producers, consumers
    <3> QED BY <3>2, <3>3, <3>4 DEF RingInv
  <2> QED BY <2>1, <2>2
<1>4. CASE UNCHANGED vars
  <2> USE <1>4 DEF vars, ring, producers, consumers, RingInv, Free, Full, Past
  <2>1. RingTypeOK'
    BY DEF RingTypeOK
  <2>2. SoleUse'
    BY DEF SoleUse, SoleProducer, SoleConsumer
  <2>3. CountersAgree' /\ ConsumersHold' /\ FullAsPushed' /\ DeliveredDone'
    BY RestKept
  <2>4. ProducersHold' /\ HealsTheDead'
    BY Zenon DEF ProducersHold, ClaimedP, HealsTheDead, Claimants
  <2> QED BY <2>1, <2>2, <2>3, <2>4
<1> QED BY <1>1, <1>2, <1>3, <1>4, CrashKeepsInv DEF Next

(* RingInv is inductive: whatever the interleaving of calls, deaths and     *)
(* heals, a claimed cell is its claimant's and a full one holds its push.   *)
THEOREM RingInductive == Spec => []RingInv
BY RingInitInv, RingNextInv, PTL DEF Spec

(* Who writes a cell has it to itself: no other producer writes it and no   *)
(* consumer reads it, in a ring of any size and on any lap.                 *)
THEOREM RingNoCellRace == Spec => []NoCellRace
<1>1. RingInv => NoCellRace
  <2> SUFFICES ASSUME RingInv, NEW p \in Producers, NEW cell \in Cells, Writing(p, cell)
               PROVE  /\ \A q \in Producers : Writing(q, cell) => q = p
                      /\ \A c \in Consumers : ~Reading(c, cell)
    BY DEF NoCellRace
  <2> USE DEF RingInv
  <2>1. \A q \in Producers : Writing(q, cell) => sequence[cell] = ppos[q]
    BY DEF Writing, ProducersHold, ClaimedP, Free
  <2>2. \A q \in Producers : Writing(q, cell) => q = p
    <3> SUFFICES ASSUME NEW q \in Producers, Writing(q, cell) PROVE q = p
      OBVIOUS
    <3>1. CASE SoleProducer
      BY <3>1, Zenon DEF Writing, SoleUse, Users
    <3>2. CASE ~SoleProducer
      <4>1. ClaimedP(p) /\ ClaimedP(q) /\ ppos[p] = ppos[q]
        BY <2>1, <3>2 DEF Writing, SoleUse, ClaimedP
      <4> QED BY <4>1 DEF ProducersHold
    <3> QED BY <3>1, <3>2
  <2>3. ASSUME NEW c \in Consumers, Reading(c, cell) PROVE FALSE
    <3>1. /\ ppos[p] = cpos[c] + 1 /\ ppos[p] \in Nat /\ cpos[c] \in Nat
          /\ Cell(ppos[p]) = Cell(cpos[c])
      BY <2>1, <2>3 DEF Writing, Reading, ConsumersHold, ClaimedC, Full, RingTypeOK
    <3> QED BY <3>1, CellsDiffer, CapacityAssumption
  <2> QED BY <2>2, <2>3
<1> QED BY <1>1, RingInductive, PTL

(* Each position is popped once, by try_pop or by try_pop_spsc, none is     *)
(* skipped, and a pop returns what was pushed at its position, whoever died *)
(* and was healed.                                                          *)
THEOREM RingPoppedOnceAsPushed == Spec => []PoppedOnceAsPushed
<1>1. ASSUME RingInv PROVE PoppedOnceAsPushed
  <2>1. \A d \in delivered : d[1] \notin Popping
    BY <1>1, Zenon DEF RingInv, DeliveredDone, ConsumersHold, ClaimedC, Popping
  <2> QED BY <1>1, <2>1 DEF RingInv, PoppedOnceAsPushed, DeliveredDone, ConsumersHold, ClaimedC
<1> QED BY <1>1, RingInductive, PTL
=============================================================================
