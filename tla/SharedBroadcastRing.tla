------------------------ MODULE SharedBroadcastRing -------------------------
(***************************************************************************)
(* SharedBroadcastRing (shared_broadcast_ring.rs): one producer, and       *)
(* consumers that each see every message from the moment they register.    *)
(* A consumer has an entry in a table: a flag that it is active, and its   *)
(* cursor.  The producer looks through the table for the cursor furthest   *)
(* behind and does not overwrite a slot that cursor still needs; slots are *)
(* written and read under a version (a SeqLock).                           *)
(*                                                                         *)
(* An entry outlives its holder: the cursor a leaver left is what the      *)
(* producer reads until the next holder has stored its own.                *)
(***************************************************************************)
EXTENDS Integers

CONSTANTS Listeners,       \* the consumers' threads
          Entries,         \* MAX_CONSUMERS
          RingSlots,       \* capacity
          MaxMessages      \* bound: messages pushed; messages are numbered from 0

ASSUME BroadcastAssumption ==
    /\ Entries \in Nat \ {0} /\ RingSlots \in Nat \ {0} /\ MaxMessages \in Nat

VARIABLES
    producer_seq,
    active, cursor,     \* per entry: consumer_active, consumer_seqs
    version, payload,   \* per slot
    bpc,
    scanned,            \* the entry the producer looks at next
    lowest,             \* the lowest cursor it has found
    lpc,                \* the consumers
    entry,              \* per consumer: its index
    started,            \* per consumer: the producer_seq it read to register
    v1, copy            \* per consumer: the version, and the bytes, it has read

bvars == <<producer_seq, active, cursor, version, payload, bpc, scanned, lowest,
           lpc, entry, started, v1, copy>>
pushing == <<bpc, scanned, lowest>>
listening == <<lpc, entry, started, v1, copy>>

Slot(n) == n % RingSlots
Unwritten == -1      \* the bytes of no message, or of a write in progress
None == -1           \* no active consumer found

BInit ==
    /\ producer_seq = 0
    /\ active = [e \in 0..(Entries - 1) |-> FALSE] /\ cursor = [e \in 0..(Entries - 1) |-> 0]
    /\ version = [s \in 0..(RingSlots - 1) |-> 0]
    /\ payload = [s \in 0..(RingSlots - 1) |-> Unwritten]
    /\ bpc = "idle" /\ scanned = 0 /\ lowest = None
    /\ lpc = [u \in Listeners |-> "out"] /\ entry = [u \in Listeners |-> 0]
    /\ started = [u \in Listeners |-> 0]
    /\ v1 = [u \in Listeners |-> 0] /\ copy = [u \in Listeners |-> Unwritten]

-----------------------------------------------------------------------------
(* try_push begins with min_consumer_seq: one entry after the other, its    *)
(* flag and then, when it is active, its cursor.                            *)
PushScan ==
    /\ bpc = "idle" /\ producer_seq < MaxMessages
    /\ bpc' = "flag" /\ scanned' = 0 /\ lowest' = None
    /\ UNCHANGED <<producer_seq, active, cursor, version, payload, listening>>

ScanFlag ==
    /\ bpc = "flag" /\ scanned < Entries
    /\ IF active[scanned] THEN bpc' = "cursor" /\ UNCHANGED scanned
       ELSE scanned' = scanned + 1 /\ UNCHANGED bpc
    /\ UNCHANGED <<producer_seq, active, cursor, version, payload, lowest, listening>>

ScanCursor ==
    /\ bpc = "cursor" /\ bpc' = "flag" /\ scanned' = scanned + 1
    /\ lowest' = IF lowest = None \/ cursor[scanned] < lowest THEN cursor[scanned] ELSE lowest
    /\ UNCHANGED <<producer_seq, active, cursor, version, payload, listening>>

(* As PushDecide would be if a ring's worth of unread messages left room.   *)
PushDecideLate ==
    /\ bpc = "flag" /\ scanned = Entries /\ scanned' = 0 /\ lowest' = None
    /\ bpc' = IF lowest # None /\ producer_seq - lowest > RingSlots THEN "idle" ELSE "odd"
    /\ UNCHANGED <<producer_seq, active, cursor, version, payload, listening>>

(* Full when the furthest behind needs the slot; nobody there, no limit.    *)
PushDecide ==
    /\ bpc = "flag" /\ scanned = Entries /\ scanned' = 0 /\ lowest' = None
    /\ bpc' = IF lowest # None /\ producer_seq - lowest >= RingSlots THEN "idle" ELSE "odd"
    /\ UNCHANGED <<producer_seq, active, cursor, version, payload, listening>>

(* The slot's version becomes odd, its bytes change, its version becomes    *)
(* even.                                                                    *)
PushOdd ==
    /\ bpc = "odd" /\ bpc' = "clear"
    /\ version' = [version EXCEPT ![Slot(producer_seq)] = @ + 1]
    /\ UNCHANGED <<producer_seq, active, cursor, payload, scanned, lowest, listening>>

PushClear ==
    /\ bpc = "clear" /\ bpc' = "write"
    /\ payload' = [payload EXCEPT ![Slot(producer_seq)] = Unwritten]
    /\ UNCHANGED <<producer_seq, active, cursor, version, scanned, lowest, listening>>

PushWrite ==
    /\ bpc = "write" /\ bpc' = "even"
    /\ payload' = [payload EXCEPT ![Slot(producer_seq)] = producer_seq]
    /\ UNCHANGED <<producer_seq, active, cursor, version, scanned, lowest, listening>>

PushEven ==
    /\ bpc = "even" /\ bpc' = "publish"
    /\ version' = [version EXCEPT ![Slot(producer_seq)] = @ + 1]
    /\ UNCHANGED <<producer_seq, active, cursor, payload, scanned, lowest, listening>>

PublishSeq ==
    /\ bpc = "publish" /\ bpc' = "idle"
    /\ producer_seq' = producer_seq + 1
    /\ UNCHANGED <<active, cursor, version, payload, scanned, lowest, listening>>

-----------------------------------------------------------------------------
(* register_consumer and claim_consumer_slot: the flag by CAS, then the     *)
(* producer's position, then the cursor.                                    *)
RegisterFlag(u, e) ==
    /\ lpc[u] = "out" /\ ~active[e]
    /\ lpc' = [lpc EXCEPT ![u] = "load"]
    /\ active' = [active EXCEPT ![e] = TRUE] /\ entry' = [entry EXCEPT ![u] = e]
    /\ UNCHANGED <<producer_seq, cursor, version, payload, pushing, started, v1, copy>>

RegisterLoad(u) ==
    /\ lpc[u] = "load" /\ lpc' = [lpc EXCEPT ![u] = "store"]
    /\ started' = [started EXCEPT ![u] = producer_seq]
    /\ UNCHANGED <<producer_seq, active, cursor, version, payload, pushing, entry, v1, copy>>

RegisterStore(u) ==
    /\ lpc[u] = "store" /\ lpc' = [lpc EXCEPT ![u] = "in"]
    /\ cursor' = [cursor EXCEPT ![entry[u]] = started[u]]
    /\ UNCHANGED <<producer_seq, active, version, payload, pushing, entry, started, v1, copy>>

Unregister(u) ==
    /\ lpc[u] = "in" /\ lpc' = [lpc EXCEPT ![u] = "out"]
    /\ active' = [active EXCEPT ![entry[u]] = FALSE]
    /\ entry' = [entry EXCEPT ![u] = 0] /\ started' = [started EXCEPT ![u] = 0]
    /\ UNCHANGED <<producer_seq, cursor, version, payload, pushing, v1, copy>>

(* try_recv: Empty at the producer's position.  An odd version is read      *)
(* again; so is everything, when the version has changed.                   *)
Place(u) == Slot(cursor[entry[u]])

RecvVersion(u) ==
    /\ lpc[u] = "in" /\ cursor[entry[u]] < producer_seq
    /\ version[Place(u)] % 2 = 0
    /\ lpc' = [lpc EXCEPT ![u] = "copy"]
    /\ v1' = [v1 EXCEPT ![u] = version[Place(u)]]
    /\ UNCHANGED <<producer_seq, active, cursor, version, payload, pushing, entry, started, copy>>

RecvCopy(u) ==
    /\ lpc[u] = "copy" /\ lpc' = [lpc EXCEPT ![u] = "confirm"]
    /\ copy' = [copy EXCEPT ![u] = payload[Place(u)]]
    /\ UNCHANGED <<producer_seq, active, cursor, version, payload, pushing, entry, started, v1>>

RecvConfirm(u) ==
    /\ lpc[u] = "confirm" /\ lpc' = [lpc EXCEPT ![u] = "in"]
    /\ cursor' = IF v1[u] = version[Place(u)] THEN [cursor EXCEPT ![entry[u]] = @ + 1] ELSE cursor
    /\ v1' = [v1 EXCEPT ![u] = 0] /\ copy' = [copy EXCEPT ![u] = Unwritten]
    /\ UNCHANGED <<producer_seq, active, version, payload, pushing, entry, started>>

-----------------------------------------------------------------------------
RingPushStep == \/ PushScan \/ ScanFlag \/ ScanCursor \/ PushDecide \/ PushOdd \/ PushClear
                \/ PushWrite \/ PushEven \/ PublishSeq
ListenerStep(u) == \/ \E e \in 0..(Entries - 1) : RegisterFlag(u, e)
                   \/ RegisterLoad(u) \/ RegisterStore(u) \/ Unregister(u)
                   \/ RecvVersion(u) \/ RecvCopy(u) \/ RecvConfirm(u)

BNext == RingPushStep \/ \E u \in Listeners : ListenerStep(u)
BSpec == BInit /\ [][BNext]_bvars

-----------------------------------------------------------------------------
Registered(u) == lpc[u] \in {"in", "copy", "confirm"}

(* The message a consumer accepts is, whole, the one its cursor stands at:  *)
(* with the cursor moving by one, a consumer receives every message from    *)
(* the one being pushed when it registered, in order, and none twice.  No   *)
(* slot is overwritten under a consumer, not even one that took over an     *)
(* entry while the producer was looking through the table.                  *)
ReceivesInSequence ==
    \A u \in Listeners : lpc[u] = "confirm" => copy[u] = cursor[entry[u]]

Writing == bpc \in {"odd", "clear", "write", "even", "publish"}

(* No registered consumer is overrun: at most a ring of messages is unread, *)
(* the one the producer is writing included.                                *)
NobodyOverrun ==
    \A u \in Listeners : Registered(u) =>
        /\ cursor[entry[u]] <= producer_seq
        /\ producer_seq - cursor[entry[u]] <= RingSlots
        /\ Writing => producer_seq - cursor[entry[u]] < RingSlots

-----------------------------------------------------------------------------
(* Why: a consumer that has read the producer's position is at that         *)
(* position, also before it has stored it, for the cursor the producer may  *)
(* find in its entry meanwhile is an earlier one.                           *)
Placed(u) == lpc[u] = "store" \/ Registered(u)
Position(u) == IF lpc[u] = "store" THEN started[u] ELSE cursor[entry[u]]
(* The producer still has the slot of message n to itself.                  *)
Kept(n) == producer_seq <= n + RingSlots /\ (Writing => producer_seq < n + RingSlots)

BTypeOK ==
    /\ producer_seq \in Nat
    /\ active \in [0..(Entries - 1) -> BOOLEAN] /\ cursor \in [0..(Entries - 1) -> Nat]
    /\ version \in [0..(RingSlots - 1) -> Nat] /\ payload \in [0..(RingSlots - 1) -> Int]
    /\ bpc \in {"idle", "flag", "cursor", "odd", "clear", "write", "even", "publish"}
    /\ scanned \in 0..Entries /\ (bpc = "cursor" => scanned < Entries) /\ lowest \in Int
    /\ lpc \in [Listeners -> {"out", "load", "store", "in", "copy", "confirm"}]
    /\ entry \in [Listeners -> 0..(Entries - 1)] /\ started \in [Listeners -> Nat]
    /\ v1 \in [Listeners -> Nat] /\ copy \in [Listeners -> Int]

(* An entry in use is flagged, and is one consumer's.                       *)
EntriesHeld ==
    \A u \in Listeners : lpc[u] # "out" =>
        /\ active[entry[u]]
        /\ \A w \in Listeners : lpc[w] # "out" /\ entry[w] = entry[u] => w = u

CursorsBehind == \A e \in 0..(Entries - 1) : cursor[e] <= producer_seq

PositionsKept ==
    \A u \in Listeners : Placed(u) =>
        /\ cursor[entry[u]] <= Position(u) /\ Position(u) <= producer_seq
        /\ Kept(Position(u))
        /\ lpc[u] \in {"copy", "confirm"} => Position(u) < producer_seq

(* What the scan has passed it has taken into account, or is not behind.    *)
ScanCovers ==
    bpc \in {"flag", "cursor"} =>
        \A u \in Listeners : Placed(u) /\ entry[u] < scanned =>
            \/ lowest # None /\ lowest <= Position(u)
            \/ Position(u) = producer_seq

SlotsHold ==
    /\ \A n \in 0..(producer_seq - 1) : Kept(n) => payload[Slot(n)] = n
    /\ bpc \in {"even", "publish"} => payload[Slot(producer_seq)] = producer_seq

BInv == /\ BTypeOK /\ EntriesHeld /\ CursorsBehind /\ PositionsKept /\ ScanCovers /\ SlotsHold
        /\ ReceivesInSequence
=============================================================================
