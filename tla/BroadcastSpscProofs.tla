------------------------ MODULE BroadcastSpscProofs -------------------------
(***************************************************************************)
(* SharedBroadcastRing for every table, ring, set of consumers and number  *)
(* of messages.  SpscRing for every capacity, every number of pushes and   *)
(* every set of payloads.                                                  *)
(***************************************************************************)
EXTENDS SharedBroadcastRing, SpscRing, TLAPS

-----------------------------------------------------------------------------
(* SharedBroadcastRing *)

(* Two messages less than a lap apart have different slots.                 *)
LEMMA SlotsDiffer ==
    ASSUME NEW m \in Nat, NEW n \in Nat, m < n, n - m < RingSlots
    PROVE  Slot(m) # Slot(n)
<1> DEFINE qm == m \div RingSlots
           qn == n \div RingSlots
<1>0. RingSlots \in Nat /\ RingSlots > 0
  BY BroadcastAssumption
<1>1. /\ qm \in Int /\ qn \in Int
      /\ m = RingSlots * qm + (m % RingSlots)
      /\ n = RingSlots * qn + (n % RingSlots)
  BY <1>0
<1>2. SUFFICES ASSUME m % RingSlots = n % RingSlots PROVE FALSE
  BY DEF Slot
<1> HIDE DEF qm, qn
<1>3. n - m = RingSlots * (qn - qm)
  BY <1>0, <1>1, <1>2
<1>4. CASE qn - qm <= 0
  BY <1>0, <1>1, <1>3, <1>4
<1>5. CASE qn - qm >= 1
  BY <1>0, <1>1, <1>3, <1>5
<1> QED BY <1>1, <1>4, <1>5

(* A message has a slot of the ring.                                        *)
LEMMA SlotInRing ==
    ASSUME NEW n \in Nat PROVE Slot(n) \in 0..(RingSlots - 1)
BY BroadcastAssumption DEF Slot

(* What the types say of the parts.                                         *)
LEMMA PartTypes ==
    ASSUME BTypeOK
    PROVE  /\ producer_seq \in Nat /\ scanned \in Nat /\ lowest \in Int
           /\ RingSlots \in Nat /\ RingSlots > 0 /\ Slot(producer_seq) \in 0..(RingSlots - 1)
           /\ \A n \in 0..(producer_seq - 1) : n \in Nat /\ Slot(n) \in 0..(RingSlots - 1)
           /\ \A u \in Listeners : entry[u] \in Nat /\ entry[u] < Entries /\ Position(u) \in Nat
<1>1. producer_seq \in Nat /\ scanned \in Nat /\ lowest \in Int /\ RingSlots \in Nat /\ RingSlots > 0
  BY BroadcastAssumption DEF BTypeOK
<1>2. \A n \in 0..(producer_seq - 1) : n \in Nat
  BY <1>1
<1>3. \A u \in Listeners : entry[u] \in 0..(Entries - 1) /\ started[u] \in Nat
  BY DEF BTypeOK
<1>4. \A u \in Listeners : entry[u] \in Nat /\ entry[u] < Entries /\ cursor[entry[u]] \in Nat
  <2>1. Entries \in Nat
    BY BroadcastAssumption
  <2>2. \A e \in 0..(Entries - 1) : e \in Nat /\ e < Entries
    BY ONLY <2>1
  <2>3. \A e \in 0..(Entries - 1) : cursor[e] \in Nat
    BY Zenon DEF BTypeOK
  <2> QED BY ONLY <1>3, <2>2, <2>3
<1>5. \A u \in Listeners : Position(u) \in Nat
  BY ONLY <1>3, <1>4 DEF Position
<1>6. \A n \in Nat : Slot(n) \in 0..(RingSlots - 1)
  BY SlotInRing
<1> QED BY ONLY <1>1, <1>2, <1>4, <1>5, <1>6

(* The empty ring satisfies the inductive invariant.                        *)
LEMMA BInitInv == BInit => BInv
BY BroadcastAssumption, SlotInRing
   DEF BInit, BInv, BTypeOK, EntriesHeld, CursorsBehind, PositionsKept, ScanCovers, SlotsHold, Kept, Writing,
       Placed, Registered, ReceivesInSequence, Unwritten, None

(* The producer's steps keep the invariant.  The scan finds, in an entry    *)
(* in use, the holder's position or one before it.                          *)
LEMMA PushKeepsInv ==
    ASSUME BInv, RingPushStep PROVE BInv'
<1> USE BroadcastAssumption
<1> USE DEF BInv, listening
<1>0. /\ producer_seq \in Nat /\ scanned \in Nat /\ lowest \in Int
      /\ RingSlots \in Nat /\ RingSlots > 0 /\ Slot(producer_seq) \in 0..(RingSlots - 1)
      /\ \A n \in 0..(producer_seq - 1) : n \in Nat /\ Slot(n) \in 0..(RingSlots - 1)
      /\ \A u \in Listeners : entry[u] \in Nat /\ entry[u] < Entries /\ Position(u) \in Nat
  BY PartTypes
<1>1. CASE PushScan
  <2>1. BTypeOK'
    <3>1. scanned' \in 0..Entries /\ lowest' \in Int /\ bpc' = "flag"
      BY <1>1 DEF PushScan, None
    <3>2. UNCHANGED <<producer_seq, active, cursor, version, payload, lpc, entry, started, v1, copy>>
      BY <1>1 DEF PushScan
    <3> QED BY <3>1, <3>2, Zenon DEF BTypeOK
  <2>2. ScanCovers'
    BY <1>0, <1>1 DEF PushScan, ScanCovers
  <2>3. PositionsKept' /\ SlotsHold'
    BY <1>1 DEF PushScan, PositionsKept, SlotsHold, Kept, Writing, Placed, Registered, Position
  <2> QED BY <1>1, <2>1, <2>2, <2>3 DEF PushScan, EntriesHeld, CursorsBehind, ReceivesInSequence
<1>2. CASE ScanFlag
  <2>0. /\ scanned \in 0..(Entries - 1)
        /\ \/ bpc' = "cursor" /\ scanned' = scanned
           \/ bpc' = "flag" /\ scanned' = scanned + 1 /\ ~active[scanned]
    BY <1>2 DEF ScanFlag, BTypeOK
  <2>1. BTypeOK'
    <3>1. scanned' \in 0..Entries /\ bpc' \in {"flag", "cursor"} /\ (bpc' = "cursor" => scanned' < Entries)
      BY ONLY <2>0, BroadcastAssumption
    <3> QED BY <1>2, <3>1, Zenon DEF ScanFlag, BTypeOK
  <2>2. ScanCovers'
    <3>1. \A u \in Listeners : Placed(u)' /\ entry'[u] < scanned' => Placed(u) /\ entry[u] < scanned
      <4>1. \A u \in Listeners : /\ Placed(u)' => Placed(u) /\ active[entry[u]]
                                /\ entry'[u] = entry[u]
        BY <1>2 DEF ScanFlag, EntriesHeld, Placed, Registered
      <4>2. SUFFICES ASSUME NEW u \in Listeners, Placed(u)', entry[u] < scanned'
                     PROVE  entry[u] < scanned
        BY <4>1
      <4>3. entry[u] # scanned \/ scanned' = scanned
        BY <2>0, <4>1, <4>2
      <4> QED BY ONLY <1>0, <2>0, <4>2, <4>3
    <3> QED BY <1>2, <3>1 DEF ScanFlag, ScanCovers, Position
  <2> QED BY <1>2, <2>1, <2>2 DEF ScanFlag, EntriesHeld, CursorsBehind, PositionsKept, SlotsHold, Kept,
       Writing, Placed, Registered, Position, ReceivesInSequence
<1>3. CASE ScanCursor
  <2>1. BTypeOK'
    <3>1. scanned' \in 0..Entries /\ lowest' \in Int
      BY <1>3 DEF ScanCursor, BTypeOK
    <3> QED BY <1>3, <3>1, Zenon DEF ScanCursor, BTypeOK
  <2>2. ScanCovers'
    <3>1. cursor[scanned] \in Nat /\ lowest' # None /\ lowest' <= cursor[scanned]
          /\ (lowest # None => lowest' <= lowest)
      BY <1>3 DEF ScanCursor, BTypeOK, None
    <3>2. SUFFICES ASSUME NEW u \in Listeners, Placed(u), entry[u] < scanned + 1
                   PROVE  (lowest' # None /\ lowest' <= Position(u)) \/ Position(u) = producer_seq
      BY <1>3 DEF ScanCursor, ScanCovers, Placed, Registered, Position
    <3>3. Position(u) \in Nat /\ lowest' \in Int /\ lowest \in Int /\ entry[u] \in Nat /\ scanned \in Nat
      BY <1>0, <2>1 DEF BTypeOK
    <3>4. CASE entry[u] = scanned
      BY <3>1, <3>2, <3>3, <3>4 DEF PositionsKept
    <3>5. CASE entry[u] < scanned
      BY <1>3, <3>1, <3>2, <3>3, <3>5 DEF ScanCursor, ScanCovers
    <3> QED BY <3>2, <3>3, <3>4, <3>5
  <2> QED BY <1>3, <2>1, <2>2 DEF ScanCursor, EntriesHeld, CursorsBehind, PositionsKept, SlotsHold, Kept,
       Writing, Placed, Registered, Position, ReceivesInSequence
<1>4. CASE PushDecide
  <2>1. BTypeOK'
    <3>1. scanned' \in 0..Entries /\ lowest' \in Int /\ bpc' \in {"idle", "odd"}
      BY <1>4 DEF PushDecide, None
    <3>2. UNCHANGED <<producer_seq, active, cursor, version, payload, lpc, entry, started, v1, copy>>
      BY <1>4 DEF PushDecide
    <3> QED BY <3>1, <3>2, Zenon DEF BTypeOK
  <2>2. PositionsKept'
    <3>1. SUFFICES ASSUME NEW u \in Listeners, Placed(u), Writing'
                   PROVE  producer_seq < Position(u) + RingSlots
      BY <1>4 DEF PushDecide, PositionsKept, Kept, Placed, Registered, Position
    <3>2. /\ Position(u) \in Nat /\ producer_seq \in Nat /\ lowest \in Int /\ RingSlots \in Nat
          /\ RingSlots > 0 /\ entry[u] < scanned
      BY <1>0, <1>4 DEF PushDecide
    <3>3. lowest = None \/ producer_seq - lowest < RingSlots
      BY <1>4, <3>1, <3>2 DEF PushDecide, Writing
    <3>4. (lowest # None /\ lowest <= Position(u)) \/ Position(u) = producer_seq
      BY <1>4, <3>1, <3>2 DEF PushDecide, ScanCovers
    <3> QED BY <3>2, <3>3, <3>4
  <2>3. SlotsHold'
    BY <1>4 DEF PushDecide, BTypeOK, SlotsHold, Kept, Writing
  <2>4. ScanCovers'
    BY <1>4 DEF PushDecide, ScanCovers
  <2> QED BY <1>4, <2>1, <2>2, <2>3, <2>4 DEF PushDecide, EntriesHeld, CursorsBehind, ReceivesInSequence
<1>5. CASE PushOdd \/ PushEven
  <2>1. BTypeOK'
    <3>1. version' \in [0..(RingSlots - 1) -> Nat]
      <4>1. version' = [version EXCEPT ![Slot(producer_seq)] = @ + 1]
        BY <1>5 DEF PushOdd, PushEven
      <4>2. version \in [0..(RingSlots - 1) -> Nat]
        BY DEF BTypeOK
      <4> QED BY ONLY <1>0, <4>1, <4>2
    <3> QED BY <1>5, <3>1, Zenon DEF PushOdd, PushEven, BTypeOK
  <2> QED BY <1>5, <2>1 DEF PushOdd, PushEven, EntriesHeld, CursorsBehind, PositionsKept, ScanCovers,
       SlotsHold, Kept, Writing, Placed, Registered, Position, ReceivesInSequence
<1>6. CASE PushClear \/ PushWrite
  <2>1. BTypeOK'
    <3>1. payload' \in [0..(RingSlots - 1) -> Int]
      <4>1. \/ payload' = [payload EXCEPT ![Slot(producer_seq)] = -1]
            \/ payload' = [payload EXCEPT ![Slot(producer_seq)] = producer_seq]
        BY <1>6 DEF PushClear, PushWrite, Unwritten
      <4>2. payload \in [0..(RingSlots - 1) -> Int]
        BY DEF BTypeOK
      <4> QED BY ONLY <1>0, <4>1, <4>2
    <3> QED BY <1>6, <3>1, Zenon DEF PushClear, PushWrite, BTypeOK
  <2>2. SlotsHold'
    <3>1. \A n \in 0..(producer_seq - 1) : Kept(n) => Slot(n) # Slot(producer_seq)
      BY <1>6, SlotsDiffer DEF PushClear, PushWrite, BTypeOK, Kept, Writing
    <3>2. \A n \in 0..(producer_seq - 1) : Kept(n)' => Kept(n)
      BY <1>6 DEF PushClear, PushWrite, Kept, Writing
    <3>3. \A n \in 0..(producer_seq - 1) : Kept(n) => payload'[Slot(n)] = n
      <4>1. \A s \in 0..(RingSlots - 1) : s # Slot(producer_seq) => payload'[s] = payload[s]
        BY <1>6 DEF PushClear, PushWrite, BTypeOK
      <4> QED BY <1>0, <3>1, <4>1 DEF SlotsHold
    <3>4. bpc' = "even" => payload'[Slot(producer_seq)] = producer_seq
      BY <1>0, <1>6 DEF PushClear, PushWrite, BTypeOK
    <3> QED BY <1>6, <3>2, <3>3, <3>4 DEF PushClear, PushWrite, SlotsHold
  <2> QED BY <1>6, <2>1, <2>2 DEF PushClear, PushWrite, EntriesHeld, CursorsBehind, PositionsKept,
       ScanCovers, Kept, Writing, Placed, Registered, Position, ReceivesInSequence
<1>7. CASE PublishSeq
  <2>1. BTypeOK'
    <3>1. producer_seq' \in Nat /\ bpc' = "idle"
      BY <1>0, <1>7 DEF PublishSeq
    <3>2. UNCHANGED <<active, cursor, version, payload, scanned, lowest, lpc, entry, started, v1, copy>>
      BY <1>7 DEF PublishSeq
    <3> QED BY <3>1, <3>2, Zenon DEF BTypeOK
  <2>2. PositionsKept'
    <3>1. \A n \in Nat : Kept(n) => Kept(n)'
      BY <1>0, <1>7 DEF PublishSeq, Kept, Writing
    <3>2. \A u \in Listeners : Position(u)' = Position(u) /\ Placed(u)' = Placed(u)
      BY <1>7 DEF PublishSeq, Position, Placed, Registered
    <3>3. producer_seq' = producer_seq + 1 /\ cursor' = cursor /\ entry' = entry /\ lpc' = lpc
      BY <1>7 DEF PublishSeq
    <3>4. SUFFICES ASSUME NEW u \in Listeners, Placed(u)
                   PROVE  /\ cursor[entry[u]] <= Position(u) /\ Position(u) <= producer_seq'
                          /\ Kept(Position(u))'
                          /\ lpc[u] \in {"copy", "confirm"} => Position(u) < producer_seq'
      BY <3>2, <3>3 DEF PositionsKept
    <3>5. Kept(Position(u))'
      BY <1>0, <3>1, <3>2, <3>4 DEF PositionsKept
    <3>6. cursor[entry[u]] <= Position(u) /\ Position(u) <= producer_seq
      BY <3>4 DEF PositionsKept
    <3>7. Position(u) \in Nat
      BY <1>0, <3>4
    <3>8. Position(u) < producer_seq'
      BY ONLY <1>0, <3>3, <3>6, <3>7
    <3>9. Position(u) <= producer_seq'
      BY ONLY <1>0, <3>3, <3>6, <3>7
    <3> QED BY <3>5, <3>6, <3>8, <3>9
  <2>3. SlotsHold'
    <3>1. \A n \in 0..(producer_seq' - 1) : n \in 0..(producer_seq - 1) \/ n = producer_seq
      BY <1>0, <1>7 DEF PublishSeq
    <3>2. \A n \in 0..(producer_seq - 1) : Kept(n)' => Kept(n)
      BY <1>0, <1>7 DEF PublishSeq, Kept, Writing
    <3>3. payload' = payload /\ bpc' = "idle" /\ payload[Slot(producer_seq)] = producer_seq
      BY <1>7 DEF PublishSeq, SlotsHold
    <3> QED BY <3>1, <3>2, <3>3 DEF SlotsHold
  <2>4. ScanCovers'
    BY <1>7 DEF PublishSeq, ScanCovers
  <2>5. CursorsBehind'
    BY <1>0, <1>7 DEF PublishSeq, BTypeOK, CursorsBehind
  <2> QED BY <1>7, <2>1, <2>2, <2>3, <2>4, <2>5 DEF PublishSeq, EntriesHeld, ReceivesInSequence
<1> QED BY <1>1, <1>2, <1>3, <1>4, <1>5, <1>6, <1>7 DEF RingPushStep

(* A consumer's steps keep the invariant: an entry it takes was free, the   *)
(* position it reads is the producer's, and the message at its position is  *)
(* still in its slot.                                                       *)
LEMMA ListenerKeepsInv ==
    ASSUME BInv, NEW u \in Listeners, ListenerStep(u) PROVE BInv'
<1> USE BroadcastAssumption
<1> USE DEF BInv, pushing
<1>0. /\ producer_seq \in Nat /\ RingSlots \in Nat /\ RingSlots > 0
      /\ \A w \in Listeners : entry[w] \in Nat /\ entry[w] < Entries /\ Position(w) \in Nat
  BY PartTypes
<1>1. ASSUME NEW e \in 0..(Entries - 1), RegisterFlag(u, e) PROVE BInv'
  <2>1. BTypeOK'
    <3>1. lpc' \in [Listeners -> {"out", "load", "store", "in", "copy", "confirm"}]
      BY <1>1 DEF RegisterFlag, BTypeOK
    <3>2. active' \in [0..(Entries - 1) -> BOOLEAN] /\ entry' \in [Listeners -> 0..(Entries - 1)]
      BY <1>1 DEF RegisterFlag, BTypeOK
    <3>3. UNCHANGED <<producer_seq, cursor, version, payload, bpc, scanned, lowest, started, v1, copy>>
      BY <1>1 DEF RegisterFlag
    <3> QED BY <3>1, <3>2, <3>3, Zenon DEF BTypeOK
  <2>2. EntriesHeld' /\ CursorsBehind'
    <3>1. EntriesHeld'
      <4>1. /\ \A w \in Listeners : w # u => lpc'[w] = lpc[w] /\ entry'[w] = entry[w]
            /\ entry'[u] = e /\ active'[e]
            /\ \A d \in 0..(Entries - 1) : active[d] => active'[d]
        BY <1>1 DEF RegisterFlag, BTypeOK
      <4>2. \A w \in Listeners : /\ entry[w] \in 0..(Entries - 1)
                                 /\ lpc[w] # "out" => active[entry[w]] /\ entry[w] # e
        BY <1>1 DEF RegisterFlag, BTypeOK, EntriesHeld
      <4> QED BY <4>1, <4>2 DEF EntriesHeld
    <3>2. CursorsBehind'
      BY <1>1 DEF RegisterFlag, CursorsBehind
    <3> QED BY <3>1, <3>2
  <2>3. \A w \in Listeners : Placed(w)' => /\ w # u /\ Placed(w) /\ Position(w)' = Position(w)
                                           /\ entry'[w] = entry[w] /\ lpc'[w] = lpc[w]
    BY <1>1 DEF RegisterFlag, BTypeOK, Placed, Registered, Position
  <2>4. PositionsKept' /\ ScanCovers' /\ SlotsHold'
    BY <1>1, <2>3 DEF RegisterFlag, PositionsKept, ScanCovers, SlotsHold, Kept, Writing
  <2>5. ReceivesInSequence'
    BY <1>1 DEF RegisterFlag, BTypeOK, ReceivesInSequence
  <2> QED BY <2>1, <2>2, <2>4, <2>5
<1>2. CASE RegisterLoad(u)
  <2>1. BTypeOK'
    BY <1>2, Zenon DEF RegisterLoad, BTypeOK
  <2>2. EntriesHeld' /\ CursorsBehind'
    BY <1>2, Zenon DEF RegisterLoad, BTypeOK, EntriesHeld, CursorsBehind
  <2>3. \A w \in Listeners : Placed(w)' =>
           /\ entry'[w] = entry[w]
           /\ \/ w # u /\ Placed(w) /\ Position(w)' = Position(w) /\ lpc'[w] = lpc[w]
              \/ w = u /\ Position(u)' = producer_seq /\ lpc'[u] = "store"
    BY <1>2 DEF RegisterLoad, BTypeOK, Placed, Registered, Position
  <2>4. cursor[entry[u]] <= producer_seq /\ producer_seq < producer_seq + RingSlots
    BY <1>0 DEF BTypeOK, CursorsBehind
  <2>5. PositionsKept' /\ ScanCovers' /\ SlotsHold'
    BY <1>0, <1>2, <2>3, <2>4
       DEF RegisterLoad, PositionsKept, ScanCovers, SlotsHold, Kept, Writing
  <2>6. ReceivesInSequence'
    BY <1>2 DEF RegisterLoad, BTypeOK, ReceivesInSequence
  <2> QED BY <2>1, <2>2, <2>5, <2>6
<1>3. CASE RegisterStore(u)
  <2>1. BTypeOK'
    BY <1>3, Zenon DEF RegisterStore, BTypeOK
  <2>2. EntriesHeld' /\ CursorsBehind'
    BY <1>3, Zenon DEF RegisterStore, BTypeOK, EntriesHeld, CursorsBehind, PositionsKept, Placed, Position
  <2>3. \A w \in Listeners : Placed(w)' =>
           /\ Placed(w) /\ Position(w)' = Position(w) /\ entry'[w] = entry[w]
           /\ \/ w # u /\ lpc'[w] = lpc[w] /\ cursor'[entry[w]] = cursor[entry[w]]
              \/ w = u /\ lpc'[u] = "in" /\ cursor'[entry[u]] = Position(u)
    BY <1>3, Zenon DEF RegisterStore, BTypeOK, EntriesHeld, Placed, Registered, Position
  <2>4. PositionsKept' /\ ScanCovers' /\ SlotsHold'
    BY <1>0, <1>3, <2>3 DEF RegisterStore, PositionsKept, ScanCovers, SlotsHold, Kept, Writing
  <2>5. ReceivesInSequence'
    BY <1>3, Zenon DEF RegisterStore, BTypeOK, EntriesHeld, ReceivesInSequence
  <2> QED BY <2>1, <2>2, <2>4, <2>5
<1>4. CASE Unregister(u)
  <2>1. BTypeOK'
    <3>1. active' \in [0..(Entries - 1) -> BOOLEAN]
      BY <1>4 DEF Unregister, BTypeOK
    <3>2. entry' \in [Listeners -> 0..(Entries - 1)] /\ started' \in [Listeners -> Nat]
      BY <1>4 DEF Unregister, BTypeOK
    <3> QED BY <1>4, <3>1, <3>2, Zenon DEF Unregister, BTypeOK
  <2>2. EntriesHeld' /\ CursorsBehind'
    BY <1>4, Zenon DEF Unregister, BTypeOK, EntriesHeld, CursorsBehind
  <2>3. \A w \in Listeners : Placed(w)' => /\ w # u /\ Placed(w) /\ Position(w)' = Position(w)
                                           /\ entry'[w] = entry[w] /\ lpc'[w] = lpc[w]
    BY <1>4 DEF Unregister, BTypeOK, Placed, Registered, Position
  <2>4. PositionsKept' /\ ScanCovers' /\ SlotsHold'
    BY <1>4, <2>3 DEF Unregister, PositionsKept, ScanCovers, SlotsHold, Kept, Writing
  <2>5. ReceivesInSequence'
    BY <1>4 DEF Unregister, BTypeOK, ReceivesInSequence
  <2> QED BY <2>1, <2>2, <2>4, <2>5
<1>5. CASE RecvVersion(u)
  <2>1. BTypeOK'
    <3>1. Place(u) \in 0..(RingSlots - 1)
      BY SlotInRing, Zenon DEF BTypeOK, Place
    <3>2. version[Place(u)] \in Nat
      BY <3>1 DEF BTypeOK
    <3>3. v1' \in [Listeners -> Nat]
      BY <1>5, <3>2 DEF RecvVersion, BTypeOK
    <3> QED BY <1>5, <3>3, Zenon DEF RecvVersion, BTypeOK
  <2>2. EntriesHeld' /\ CursorsBehind'
    BY <1>5, Zenon DEF RecvVersion, BTypeOK, EntriesHeld, CursorsBehind
  <2>3. \A w \in Listeners : Placed(w)' => /\ Placed(w) /\ Position(w)' = Position(w)
                                           /\ w # u => lpc'[w] = lpc[w]
    BY <1>5, Zenon DEF RecvVersion, BTypeOK, Placed, Registered, Position
  <2>4. Position(u) < producer_seq
    BY <1>5 DEF RecvVersion, Position
  <2>5. PositionsKept' /\ ScanCovers' /\ SlotsHold'
    <3>0. /\ producer_seq' = producer_seq /\ cursor' = cursor /\ entry' = entry
          /\ bpc' = bpc /\ scanned' = scanned /\ lowest' = lowest
      BY <1>5 DEF RecvVersion
    <3>1. PositionsKept'
      BY <2>3, <2>4, <3>0 DEF PositionsKept, Kept, Writing
    <3>2. ScanCovers'
      BY <2>3, <3>0 DEF ScanCovers
    <3>3. SlotsHold'
      BY <1>5 DEF RecvVersion, SlotsHold, Kept, Writing
    <3> QED BY <3>1, <3>2, <3>3
  <2>6. ReceivesInSequence'
    BY <1>5 DEF RecvVersion, BTypeOK, ReceivesInSequence
  <2> QED BY <2>1, <2>2, <2>5, <2>6
<1>6. CASE RecvCopy(u)
  <2>1. /\ Place(u) \in 0..(RingSlots - 1)
        /\ payload[Place(u)] = cursor[entry[u]]
    <3>1. cursor[entry[u]] \in Nat
      BY DEF BTypeOK
    <3>2. cursor[entry[u]] < producer_seq /\ Kept(cursor[entry[u]])
      BY <1>6, Zenon DEF RecvCopy, PositionsKept, Placed, Registered, Position
    <3>3. cursor[entry[u]] \in 0..(producer_seq - 1)
      BY ONLY <1>0, <3>1, <3>2
    <3> QED BY <3>1, <3>2, <3>3, SlotInRing DEF SlotsHold, Place
  <2>2. BTypeOK'
    BY <1>6, <2>1, Zenon DEF RecvCopy, BTypeOK
  <2>3. EntriesHeld' /\ CursorsBehind'
    BY <1>6, Zenon DEF RecvCopy, BTypeOK, EntriesHeld, CursorsBehind
  <2>4. \A w \in Listeners : Placed(w)' =>
           /\ Placed(w) /\ Position(w)' = Position(w)
           /\ lpc'[w] \in {"copy", "confirm"} => lpc[w] \in {"copy", "confirm"}
    BY <1>6 DEF RecvCopy, BTypeOK, Placed, Registered, Position
  <2>5. PositionsKept' /\ ScanCovers' /\ SlotsHold'
    <3>1. PositionsKept'
      BY <1>6, <2>4 DEF RecvCopy, PositionsKept, Kept, Writing
    <3>2. ScanCovers'
      BY <1>6, <2>4 DEF RecvCopy, ScanCovers
    <3>3. SlotsHold'
      BY <1>6 DEF RecvCopy, SlotsHold, Kept, Writing
    <3> QED BY <3>1, <3>2, <3>3
  <2>6. ReceivesInSequence'
    BY <1>6, <2>1, Zenon DEF RecvCopy, BTypeOK, ReceivesInSequence
  <2> QED BY <2>2, <2>3, <2>5, <2>6
<1>7. CASE RecvConfirm(u)
  <2>1. /\ lpc[u] = "confirm" /\ Placed(u) /\ Position(u) = cursor[entry[u]]
        /\ Position(u) < producer_seq
    BY <1>7, Zenon DEF RecvConfirm, PositionsKept, Placed, Registered, Position
  <2>2. BTypeOK'
    <3>1. cursor' \in [0..(Entries - 1) -> Nat]
      <4>1. cursor' = cursor \/ cursor' = [cursor EXCEPT ![entry[u]] = @ + 1]
        BY <1>7 DEF RecvConfirm
      <4>2. cursor \in [0..(Entries - 1) -> Nat]
        BY DEF BTypeOK
      <4> QED BY ONLY <4>1, <4>2
    <3>2. v1' \in [Listeners -> Nat] /\ copy' \in [Listeners -> Int]
      <4>1. v1 \in [Listeners -> Nat] /\ copy \in [Listeners -> Int]
        BY DEF BTypeOK
      <4>2. v1' = [v1 EXCEPT ![u] = 0] /\ copy' = [copy EXCEPT ![u] = -1]
        BY <1>7 DEF RecvConfirm, Unwritten
      <4> QED BY ONLY <4>1, <4>2
    <3>3. lpc' \in [Listeners -> {"out", "load", "store", "in", "copy", "confirm"}]
      BY <1>7 DEF RecvConfirm, BTypeOK
    <3> QED BY <1>7, <3>1, <3>2, <3>3, Zenon DEF RecvConfirm, BTypeOK
  <2>3. CursorsBehind'
    <3>1. /\ cursor' = cursor \/ cursor' = [cursor EXCEPT ![entry[u]] = @ + 1]
          /\ producer_seq' = producer_seq
      BY <1>7 DEF RecvConfirm
    <3>2. /\ cursor \in [0..(Entries - 1) -> Nat] /\ producer_seq \in Nat
          /\ \A e \in 0..(Entries - 1) : cursor[e] <= producer_seq
          /\ cursor[entry[u]] < producer_seq
      BY <2>1 DEF BTypeOK, CursorsBehind
    <3>3. \A e \in 0..(Entries - 1) : cursor'[e] <= producer_seq
      <4>1. SUFFICES ASSUME NEW e \in 0..(Entries - 1) PROVE cursor'[e] <= producer_seq
        OBVIOUS
      <4>2. CASE e = entry[u]
        <5>1. cursor'[e] = cursor[e] \/ cursor'[e] = cursor[e] + 1
          BY ONLY <3>1, <3>2, <4>2, Zenon
        <5>2. cursor[e] \in Nat
          BY ONLY <3>2
        <5> QED BY ONLY <3>2, <4>2, <5>1, <5>2
      <4>3. CASE e # entry[u]
        <5>1. cursor'[e] = cursor[e]
          BY ONLY <3>1, <3>2, <4>3, Zenon
        <5> QED BY ONLY <3>2, <5>1
      <4> QED BY ONLY <4>2, <4>3
    <3> QED BY <3>1, <3>3 DEF CursorsBehind
  <2>4. EntriesHeld'
    BY <1>7, Zenon DEF RecvConfirm, BTypeOK, EntriesHeld
  <2>5. \A w \in Listeners : Placed(w)' =>
           /\ Placed(w) /\ entry'[w] = entry[w]
           /\ \/ /\ w # u /\ lpc'[w] = lpc[w] /\ cursor'[entry[w]] = cursor[entry[w]]
                 /\ Position(w)' = Position(w)
              \/ /\ w = u /\ lpc'[u] = "in" /\ cursor'[entry[u]] = Position(u)'
                 /\ Position(u)' \in {Position(u), Position(u) + 1}
    BY <1>7, <2>1, Zenon DEF RecvConfirm, BTypeOK, EntriesHeld, Placed, Registered, Position
  <2>6. PositionsKept' /\ ScanCovers' /\ SlotsHold'
    <3>1. PositionsKept'
      <4>1. SUFFICES ASSUME NEW w \in Listeners, Placed(w)'
                     PROVE  /\ cursor'[entry'[w]] <= Position(w)' /\ Position(w)' <= producer_seq
                            /\ Kept(Position(w))'
                            /\ lpc'[w] \in {"copy", "confirm"} => Position(w)' < producer_seq
        BY <1>7 DEF RecvConfirm, PositionsKept
      <4>2. CASE w # u
        BY <1>7, <2>5, <4>1, <4>2 DEF RecvConfirm, PositionsKept, Kept, Writing
      <4>3. CASE w = u
        <5>1. Kept(Position(u)) /\ Position(u) \in Nat
          BY <1>0, <2>1 DEF PositionsKept
        <5>2. Kept(Position(u))' /\ Position(u)' <= producer_seq /\ Position(u)' \in Nat
          BY <1>0, <1>7, <2>1, <2>5, <4>1, <4>3, <5>1 DEF RecvConfirm, Kept, Writing
        <5> QED BY <2>5, <4>1, <4>3, <5>2
      <4> QED BY <4>2, <4>3
    <3>2. ScanCovers'
      <4>1. SUFFICES ASSUME bpc \in {"flag", "cursor"}, NEW w \in Listeners, Placed(w)',
                            entry[w] < scanned
                     PROVE  \/ lowest # None /\ lowest <= Position(w)'
                            \/ Position(w)' = producer_seq
        BY <1>7 DEF RecvConfirm, ScanCovers
      <4>2. (lowest # None /\ lowest <= Position(w)) \/ Position(w) = producer_seq
        BY <2>5, <4>1 DEF ScanCovers
      <4>3. lowest \in Int /\ Position(w) \in Nat
        BY <1>0 DEF BTypeOK
      <4>4. \/ Position(w)' = Position(w)
            \/ Position(w)' = Position(w) + 1 /\ Position(w) < producer_seq
        BY <2>1, <2>5, <4>1, Zenon
      <4> QED BY ONLY <1>0, <4>2, <4>3, <4>4
    <3>3. SlotsHold'
      BY <1>7 DEF RecvConfirm, SlotsHold, Kept, Writing
    <3> QED BY <3>1, <3>2, <3>3
  <2>7. ReceivesInSequence'
    BY <1>7, Zenon DEF RecvConfirm, BTypeOK, EntriesHeld, ReceivesInSequence
  <2> QED BY <2>2, <2>3, <2>4, <2>6, <2>7
<1> QED BY <1>1, <1>2, <1>3, <1>4, <1>5, <1>6, <1>7 DEF ListenerStep

(* The invariant holds always.                                              *)
THEOREM BroadcastInductive == BSpec => []BInv
<1>1. ASSUME BInv, [BNext]_bvars PROVE BInv'
  <2>1. CASE RingPushStep
    BY <1>1, <2>1, PushKeepsInv
  <2>2. CASE \E u \in Listeners : ListenerStep(u)
    BY <1>1, <2>2, ListenerKeepsInv
  <2>3. CASE UNCHANGED bvars
    BY <1>1, <2>3, Zenon DEF bvars, BInv, BTypeOK, EntriesHeld, CursorsBehind, PositionsKept, ScanCovers,
       SlotsHold, Kept, Writing, Placed, Registered, Position, ReceivesInSequence
  <2> QED BY <1>1, <2>1, <2>2, <2>3 DEF BNext
<1> QED BY <1>1, BInitInv, PTL DEF BSpec

(* Every message a consumer accepts is the whole message its cursor stands  *)
(* at, for every ring and table and however consumers come and go during    *)
(* the producer's scan.                                                     *)
THEOREM BroadcastInSequence == BSpec => []ReceivesInSequence
<1>1. BInv => ReceivesInSequence
  BY DEF BInv
<1> QED BY <1>1, BroadcastInductive, PTL

(* The producer never laps a registered consumer.                           *)
THEOREM BroadcastNobodyOverrun == BSpec => []NobodyOverrun
<1>1. ASSUME BInv PROVE NobodyOverrun
  <2>1. SUFFICES ASSUME NEW u \in Listeners, Registered(u)
                 PROVE  /\ cursor[entry[u]] <= producer_seq
                        /\ producer_seq - cursor[entry[u]] <= RingSlots
                        /\ Writing => producer_seq - cursor[entry[u]] < RingSlots
    BY DEF NobodyOverrun
  <2>2. Position(u) = cursor[entry[u]] /\ Position(u) \in Nat /\ producer_seq \in Nat /\ RingSlots \in Nat
    BY <1>1, <2>1, PartTypes DEF BInv, Registered, Position
  <2>3. Position(u) <= producer_seq /\ Kept(Position(u))
    BY <1>1, <2>1 DEF BInv, PositionsKept, Placed
  <2> QED BY <2>2, <2>3 DEF Kept
<1> QED BY <1>1, BroadcastInductive, PTL

-----------------------------------------------------------------------------
(* SpscRing *)

(* Two positions less than a lap apart lie in different cells.              *)
LEMMA CellsDiffer ==
    ASSUME NEW i \in Nat, NEW j \in Nat, i < j, j - i < Capacity
    PROVE  Cell(i) # Cell(j)
<1> DEFINE qi == i \div Capacity
           qj == j \div Capacity
<1>0. Capacity \in Nat /\ Capacity > 0
  BY CapacityAssumption
<1>1. /\ qi \in Int /\ qj \in Int
      /\ i = Capacity * qi + (i % Capacity)
      /\ j = Capacity * qj + (j % Capacity)
  BY <1>0
<1>2. SUFFICES ASSUME i % Capacity = j % Capacity PROVE FALSE
  BY DEF Cell
<1> HIDE DEF qi, qj
<1>3. j - i = Capacity * (qj - qi)
  BY <1>0, <1>1, <1>2
<1>4. CASE qj - qi <= 0
  BY <1>0, <1>1, <1>3, <1>4
<1>5. CASE qj - qi >= 1
  BY <1>0, <1>1, <1>3, <1>5
<1> QED BY <1>1, <1>4, <1>5

(* A position lies in a cell of the ring.                                   *)
LEMMA CellInRing ==
    ASSUME NEW i \in Nat PROVE Cell(i) \in 0..(Capacity - 1)
BY CapacityAssumption DEF Cell

(* The initial state satisfies the inductive invariant.                     *)
LEMMA InitInductive == SpscInit => SpscInv
BY CapacityAssumption, CellInRing DEF SpscInit, SpscInv, SpscTypeOK, NoPeek, Content

(* Every step of the producer or of the consumer keeps the invariant, when  *)
(* the consumer does not pop under a live PeekedSlot.                       *)
LEMMA NextInductive ==
    ASSUME ~PopWhilePeeked, SpscInv, [SpscNext]_spscVars
    PROVE  SpscInv'
<1> USE CapacityAssumption
<1> USE DEF SpscInv, SpscTypeOK, NoPeek, IsEmpty, IsFull, MayPop, producer, consumer
<1>1. ASSUME NEW v \in Payload, PushCheck(v) PROVE SpscInv'
  BY <1>1 DEF PushCheck, Content
<1>2. CASE PushCopy
  <2>1. Cell(head) \in 0..(Capacity - 1)
    BY CellInRing
  <2>2. \A i \in tail..(head - 1) : Cell(i) # Cell(head)
    BY <1>2, CellsDiffer DEF PushCopy
  <2>3. SpscTypeOK'
    BY <1>2, <2>1 DEF PushCopy
  <2>4. \A i \in tail..(head - 1) : slot'[Cell(i)] = slot[Cell(i)]
    BY <1>2, <2>2, CellInRing DEF PushCopy
  <2>5. slot'[Cell(head)] = pval
    BY <1>2, <2>1 DEF PushCopy
  <2> QED BY <1>2, <2>3, <2>4, <2>5 DEF PushCopy
<1>3. CASE PushPublish
  <2>1. /\ pushed' \in Seq(Payload) /\ Len(pushed') = head'
        /\ \A i \in 1..head : pushed'[i] = pushed[i]
        /\ pushed'[head + 1] = pval
    <3>1. pval \in Payload /\ pushed \in Seq(Payload) /\ Len(pushed) = head
      BY <1>3 DEF PushPublish
    <3>2. pushed' = Append(pushed, pval) /\ head' = head + 1
      BY <1>3 DEF PushPublish
    <3> QED BY ONLY <3>1, <3>2
  <2> QED BY <1>3, <2>1 DEF PushPublish
<1>4. CASE PopCheck
  BY <1>4 DEF PopCheck
<1>5. CASE PopCopy
  <2>1. cval' = slot[Cell(tail)] /\ cval' \in Content
    BY <1>5, CellInRing DEF PopCopy
  <2>2. slot[Cell(tail)] = pushed[tail + 1]
    BY <1>5 DEF PopCopy
  <2> QED BY <1>5, <2>1, <2>2 DEF PopCopy
<1>6. CASE PopAdvance
  <2>1. /\ popped' \in Seq(Payload) /\ Len(popped') = tail'
        /\ \A i \in 1..tail : popped'[i] = popped[i]
        /\ popped'[tail + 1] = cval
    <3>1. cval \in Payload
      BY <1>6 DEF PopAdvance
    <3> QED BY <1>6, <3>1 DEF PopAdvance
  <2> QED BY <1>6, <2>1 DEF PopAdvance
<1>7. CASE PeekSlot
  BY <1>7 DEF PeekSlot
<1>8. CASE Confirm
  <2>1. /\ popped' \in Seq(Payload) /\ Len(popped') = tail'
        /\ \A i \in 1..tail : popped'[i] = popped[i]
        /\ popped'[tail + 1] = slot[Cell(tail)]
    <3>1. slot[Cell(tail)] \in Payload
      BY <1>8 DEF Confirm
    <3> QED BY <1>8, <3>1 DEF Confirm
  <2> QED BY <1>8, <2>1 DEF Confirm
<1>9. CASE DropPeek
  BY <1>9 DEF DropPeek
<1>10. CASE UNCHANGED spscVars
  BY <1>10 DEF spscVars
<1> QED
  BY <1>1, <1>2, <1>3, <1>4, <1>5, <1>6, <1>7, <1>8, <1>9, <1>10, Zenon
  DEF SpscNext, Producer, Consumer, PushFull, PopEmpty

(* The inductive invariant of the ring holds in every reachable state.      *)
THEOREM SpscInductive ==
    ASSUME ~PopWhilePeeked PROVE SpscSpec => []SpscInv
BY InitInductive, NextInductive, PTL DEF SpscSpec

(* What is consumed is what was published, once and in order: try_push and  *)
(* try_pop lose, repeat and reorder nothing, at every capacity.             *)
THEOREM SpscExactlyOnceInOrder ==
    ASSUME ~PopWhilePeeked PROVE SpscSpec => []ExactlyOnceInOrder
<1>1. SpscInv => ExactlyOnceInOrder
  <2> SUFFICES ASSUME SpscInv PROVE ExactlyOnceInOrder
    OBVIOUS
  <2> USE CapacityAssumption DEF SpscInv, SpscTypeOK
  <2>1. SubSeq(popped, 1, tail) = SubSeq(pushed, 1, tail)
    OBVIOUS
  <2> QED BY <2>1 DEF ExactlyOnceInOrder
<1> QED BY <1>1, SpscInductive, PTL

(* The producer's copy into a cell never overlaps the consumer's copy or    *)
(* view of it.                                                              *)
THEOREM SpscNoCopyRace ==
    ASSUME ~PopWhilePeeked PROVE SpscSpec => []NoCopyRace
<1>1. SpscInv => NoCopyRace
  BY CellsDiffer DEF SpscInv, SpscTypeOK, NoCopyRace
<1> QED BY <1>1, SpscInductive, PTL

-----------------------------------------------------------------------------
(* The cells between two positions, as a sequence.                          *)
LEMMA WindowIsSeq ==
    ASSUME NEW c \in [0..(Capacity - 1) -> Content],
           NEW from \in Nat, NEW to \in Nat, from <= to
    PROVE  /\ Window(c, from, to) \in Seq(Content)
           /\ Len(Window(c, from, to)) = to - from
           /\ \A i \in 1..(to - from) : Window(c, from, to)[i] = c[Cell(from + i - 1)]
<1>1. ASSUME NEW i \in 1..(to - from) PROVE c[Cell(from + i - 1)] \in Content
  <2>1. from + i - 1 \in Nat
    OBVIOUS
  <2>2. Cell(from + i - 1) \in 0..(Capacity - 1)
    BY <2>1, CellInRing
  <2> QED BY <2>2
<1> QED BY <1>1 DEF Window

(* The queue a ring stands for: its length and its elements.                *)
LEMMA ContentsIsQueue ==
    ASSUME SpscInv
    PROVE  /\ Contents \in Seq(Content)
           /\ Len(Contents) = head - tail
           /\ \A i \in 1..(head - tail) : Contents[i] = slot[Cell(tail + i - 1)]
<1>1. slot \in [0..(Capacity - 1) -> Content] /\ tail \in Nat /\ head \in Nat /\ tail <= head
  BY DEF SpscInv, SpscTypeOK
<1> QED BY <1>1, WindowIsSeq, Zenon DEF Contents

(* The same in the next state.                                              *)
LEMMA ContentsNext ==
    ASSUME SpscInv'
    PROVE  /\ Contents' \in Seq(Content)
           /\ Len(Contents') = head' - tail'
           /\ \A i \in 1..(head' - tail') : Contents'[i] = slot'[Cell(tail' + i - 1)]
<1>1. slot' \in [0..(Capacity - 1) -> Content] /\ tail' \in Nat /\ head' \in Nat /\ tail' <= head'
  BY DEF SpscInv, SpscTypeOK
<1> QED BY <1>1, WindowIsSeq, Zenon DEF Contents

(* Sequences with the same elements are the same,                           *)
LEMMA SameElements ==
    ASSUME NEW S, NEW s \in Seq(S), NEW t \in Seq(S), Len(s) = Len(t),
           \A i \in 1..Len(s) : s[i] = t[i]
    PROVE  s = t
OBVIOUS

(* A sequence one longer than another, with its elements and then e.        *)
LEMMA AppendIs ==
    ASSUME NEW S, NEW s \in Seq(S), NEW t \in Seq(S), NEW e \in S,
           Len(t) = Len(s) + 1, t[Len(s) + 1] = e,
           \A i \in 1..Len(s) : t[i] = s[i]
    PROVE  t = Append(s, e)
<1>1. /\ Append(s, e) \in Seq(S) /\ Len(Append(s, e)) = Len(s) + 1
      /\ \A i \in 1..Len(s) : Append(s, e)[i] = s[i]
      /\ Append(s, e)[Len(s) + 1] = e
  OBVIOUS
<1>2. \A i \in 1..Len(t) : t[i] = Append(s, e)[i]
  BY <1>1
<1> QED BY <1>1, <1>2, SameElements

(* A publish appends the pushed payload to the queue, within its bound.     *)
LEMMA PublishIsPush ==
    ASSUME SpscInv, SpscInv', PushPublish
    PROVE  Fifo!Push(pval)
<1>1. Contents' = Append(Contents, pval)
  <2> DEFINE n == head - tail
  <2>1. n \in Nat /\ head' - tail' = n + 1 /\ pval \in Content
    BY DEF SpscInv, SpscTypeOK, PushPublish
  <2>2. /\ Contents \in Seq(Content) /\ Len(Contents) = n
        /\ \A i \in 1..n : Contents[i] = slot[Cell(tail + i - 1)]
    BY ContentsIsQueue
  <2>3. /\ Contents' \in Seq(Content) /\ Len(Contents') = n + 1
        /\ \A i \in 1..(n + 1) : Contents'[i] = slot[Cell(tail + i - 1)]
    BY <2>1, ContentsNext DEF PushPublish
  <2>4. slot[Cell(tail + (n + 1) - 1)] = pval
    <3>1. tail + (n + 1) - 1 = head
      BY DEF SpscInv, SpscTypeOK
    <3> QED BY <3>1, Zenon DEF SpscInv, PushPublish
  <2> HIDE DEF n
  <2> QED BY ONLY <2>1, <2>2, <2>3, <2>4, AppendIs
<1> QED BY <1>1, ContentsIsQueue, Zenon DEF Fifo!Push, SpscInv, SpscTypeOK, PushPublish

(* A sequence one shorter than another, with its elements from the second.  *)
LEMMA TailIs ==
    ASSUME NEW S, NEW s \in Seq(S), NEW t \in Seq(S), Len(s) = Len(t) + 1,
           \A i \in 1..Len(t) : t[i] = s[i + 1]
    PROVE  s # << >> /\ t = Tail(s)
<1>1. s # << >>
  OBVIOUS
<1>2. /\ Tail(s) \in Seq(S) /\ Len(Tail(s)) = Len(s) - 1
      /\ \A i \in 1..Len(Tail(s)) : Tail(s)[i] = s[i + 1]
  BY <1>1
<1>3. Len(t) = Len(Tail(s)) /\ \A i \in 1..Len(t) : t[i] = Tail(s)[i]
  BY <1>2
<1> QED BY <1>1, <1>2, <1>3, SameElements, Zenon

(* Releasing the cell at tail drops the head of the queue.                  *)
LEMMA ReleaseIsPop ==
    ASSUME SpscInv, SpscInv', tail < head, tail' = tail + 1, UNCHANGED <<head, slot>>
    PROVE  Fifo!Pop
<1> DEFINE n == head - tail
<1>1. n \in Nat \ {0} /\ head' - tail' = n - 1 /\ tail \in Nat
  BY DEF SpscInv, SpscTypeOK
<1>2. /\ Contents \in Seq(Content) /\ Len(Contents) = n
      /\ \A i \in 1..n : Contents[i] = slot[Cell(tail + i - 1)]
  BY ContentsIsQueue
<1>3. /\ Contents' \in Seq(Content) /\ Len(Contents') = n - 1
      /\ \A i \in 1..(n - 1) : Contents'[i] = slot[Cell(tail + 1 + i - 1)]
  BY <1>1, ContentsNext
<1> HIDE DEF n
<1>4. \A i \in 1..(n - 1) : Contents'[i] = Contents[i + 1]
  <2> SUFFICES ASSUME NEW i \in 1..(n - 1) PROVE Contents'[i] = Contents[i + 1]
    OBVIOUS
  <2>1. tail + 1 + i - 1 = tail + (i + 1) - 1 /\ i + 1 \in 1..n
    BY <1>1
  <2> QED BY <1>2, <1>3, <2>1
<1>5. Contents # << >> /\ Contents' = Tail(Contents)
  BY <1>1, <1>2, <1>3, <1>4, TailIs
<1> QED BY <1>5 DEF Fifo!Pop

(* SpscRing implements BoundedFifo: head's store is the push, tail's the    *)
(* pop, and a copy into the cell at head does not touch the queue.          *)
THEOREM SpscImplementsFifo ==
    ASSUME ~PopWhilePeeked PROVE SpscSpec => ImplementsFifo
<1>1. SpscInit => Fifo!Init
  BY DEF SpscInit, Fifo!Init, Contents, Window
<1>2. SpscInv /\ SpscInv' /\ [SpscNext]_spscVars => [Fifo!Next]_Contents
  <2> SUFFICES ASSUME SpscInv, SpscInv', [SpscNext]_spscVars
               PROVE  Fifo!Next \/ UNCHANGED Contents
    OBVIOUS
  <2>1. CASE PushPublish
    BY <2>1, PublishIsPush, Zenon DEF Fifo!Next, SpscInv, PushPublish
  <2>2. CASE PopAdvance
    BY <2>2, ReleaseIsPop, Zenon DEF Fifo!Next, SpscInv, PopAdvance
  <2>3. CASE Confirm
    BY <2>3, ReleaseIsPop DEF Fifo!Next, SpscInv, Confirm
  <2>4. CASE PushCopy
    <3>1. \A i \in 1..(head - tail) : slot'[Cell(tail + i - 1)] = slot[Cell(tail + i - 1)]
      <4> SUFFICES ASSUME NEW i \in 1..(head - tail)
                   PROVE  slot'[Cell(tail + i - 1)] = slot[Cell(tail + i - 1)]
        OBVIOUS
      <4>0. /\ tail + i - 1 \in Nat /\ head \in Nat /\ tail + i - 1 < head
            /\ head - (tail + i - 1) < Capacity
        BY <2>4, CapacityAssumption DEF SpscInv, SpscTypeOK, PushCopy
      <4>1. Cell(tail + i - 1) # Cell(head)
        BY <4>0, CellsDiffer
      <4>2. Cell(tail + i - 1) \in 0..(Capacity - 1)
        BY <4>0, CellInRing
      <4> QED BY <2>4, <4>1, <4>2 DEF SpscInv, SpscTypeOK, PushCopy
    <3> QED BY <2>4, <3>1 DEF Contents, Window, PushCopy
  <2>5. CASE UNCHANGED <<head, tail, slot>>
    BY <2>5 DEF Contents
  <2> QED
    BY <2>1, <2>2, <2>3, <2>4, <2>5 DEF SpscNext, Producer, Consumer, PushCheck,
       PushFull, PopCheck, PopEmpty, PopCopy, PeekSlot, DropPeek, spscVars
<1> QED BY <1>1, <1>2, SpscInductive, PTL DEF SpscSpec, ImplementsFifo, Fifo!Spec
=============================================================================
