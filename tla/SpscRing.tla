------------------------------ MODULE SpscRing ------------------------------
(***************************************************************************)
(* SpscRingCore (spsc_ring.rs): Lamport's single-producer single-consumer  *)
(* ring over a mapped region.  head and tail are free-running u64 counters *)
(* (their wrap at 2^64 is out of reach and not modelled); a cell is        *)
(* addressed by counter % capacity.                                        *)
(*                                                                         *)
(* The atomic loads and stores of try_push, try_pop, peek_slot and confirm *)
(* are steps of their own, and so is the copy of a payload, which is not   *)
(* atomic in the code: a side that is at its copy may be anywhere in it.   *)
(* head is written by the producer only and tail by the consumer only, so  *)
(* a side's load of its own counter joins the step of the load after it.   *)
(***************************************************************************)
EXTENDS Integers, Sequences

CONSTANTS Payload,          \* the payloads a producer may push
          Zeroed,           \* the content of a cell nobody has written
          Capacity,         \* cells of the ring
          MaxPushes,        \* bound: number of pushes explored
          PopWhilePeeked    \* may the consumer pop while it holds a PeekedSlot

ASSUME CapacityAssumption == Capacity \in Nat \ {0}
ASSUME MaxPushesAssumption == MaxPushes \in Nat
ASSUME ZeroedAssumption == Zeroed \notin Payload
ASSUME PopWhilePeekedAssumption == PopWhilePeeked \in BOOLEAN

VARIABLES
    head,       \* header.head: next position to publish
    tail,       \* header.tail: next position to take
    slot,       \* the payload cells
    ppc,        \* producer: "idle", "copy" (space seen), "publish" (copied)
    pval,       \* the payload being pushed
    cpc,        \* consumer: "idle", "copy" (item seen), "advance" (copied)
    ctail,      \* the tail the running pop has loaded
    cval,       \* what that pop has copied out
    peeked,     \* the tail a live PeekedSlot holds, or NoPeek
    pushed,     \* ghost: every payload published, in order
    popped      \* ghost: every payload the consumer has consumed, in order

producer == <<ppc, pval>>
consumer == <<cpc, ctail, cval, peeked>>
spscVars == <<head, tail, slot, ppc, pval, cpc, ctail, cval, peeked, pushed, popped>>

NoPeek == -1
Cell(pos) == pos % Capacity
Content == Payload \cup {Zeroed}

SpscTypeOK ==
    /\ head \in Nat /\ tail \in Nat
    /\ slot \in [0..(Capacity - 1) -> Content]
    /\ ppc \in {"idle", "copy", "publish"} /\ pval \in Content
    /\ cpc \in {"idle", "copy", "advance"} /\ ctail \in Nat /\ cval \in Content
    /\ peeked \in Nat \cup {NoPeek}
    /\ pushed \in Seq(Payload) /\ popped \in Seq(Payload)

SpscInit ==
    /\ head = 0 /\ tail = 0
    /\ slot = [c \in 0..(Capacity - 1) |-> Zeroed]
    /\ ppc = "idle" /\ pval = Zeroed
    /\ cpc = "idle" /\ ctail = 0 /\ cval = Zeroed
    /\ peeked = NoPeek
    /\ pushed = << >> /\ popped = << >>

-----------------------------------------------------------------------------
(* try_push *)

(* As IsFull would be if a full ring took one more.                         *)
IsFullOffByOne == head - tail > Capacity

IsFull == head - tail >= Capacity

PushCheck(v) ==
    /\ ppc = "idle" /\ head < MaxPushes
    /\ ~IsFull
    /\ ppc' = "copy" /\ pval' = v
    /\ UNCHANGED <<head, tail, slot, consumer, pushed, popped>>

(* Err(Full): nothing changes and the producer may call again. *)
PushFull ==
    /\ ppc = "idle" /\ IsFull
    /\ UNCHANGED spscVars

PushCopy ==
    /\ ppc = "copy"
    /\ slot' = [slot EXCEPT ![Cell(head)] = pval]
    /\ ppc' = "publish"
    /\ UNCHANGED <<head, tail, pval, consumer, pushed, popped>>

PushPublish ==
    /\ ppc = "publish"
    /\ head' = head + 1
    /\ pushed' = Append(pushed, pval)
    /\ ppc' = "idle"
    /\ UNCHANGED <<tail, slot, pval, consumer, popped>>

-----------------------------------------------------------------------------
(* try_pop *)

IsEmpty == tail = head

(* try_pop itself knows nothing of peeks: that the consumer does not call   *)
(* it while it holds one is an assumption about the caller, and             *)
(* PopWhilePeeked lifts it.                                                 *)
MayPop == cpc = "idle" /\ (peeked = NoPeek \/ PopWhilePeeked)

PopCheck ==
    /\ MayPop /\ ~IsEmpty
    /\ ctail' = tail /\ cpc' = "copy"
    /\ UNCHANGED <<head, tail, slot, producer, cval, peeked, pushed, popped>>

(* Err(Empty): nothing changes and the consumer may call again. *)
PopEmpty ==
    /\ MayPop /\ IsEmpty
    /\ UNCHANGED spscVars

PopCopy ==
    /\ cpc = "copy"
    /\ cval' = slot[Cell(ctail)] /\ cpc' = "advance"
    /\ UNCHANGED <<head, tail, slot, producer, ctail, peeked, pushed, popped>>

(* A release build stores tail + 1; a debug build compare-exchanges it and  *)
(* panics on failure, which the sole consumer never sees.                   *)
PopAdvance ==
    /\ cpc = "advance"
    /\ tail' = ctail + 1
    /\ popped' = Append(popped, cval)
    /\ cpc' = "idle"
    /\ UNCHANGED <<head, slot, producer, ctail, cval, peeked, pushed>>

-----------------------------------------------------------------------------
(* peek_slot hands out a view of the cell; PeekedSlot::confirm releases it, *)
(* dropping it does not.                                                    *)

PeekSlot ==
    /\ cpc = "idle" /\ peeked = NoPeek /\ ~IsEmpty
    /\ peeked' = tail
    /\ UNCHANGED <<head, tail, slot, producer, cpc, ctail, cval, pushed, popped>>

Confirm ==
    /\ cpc = "idle" /\ peeked # NoPeek
    /\ tail' = peeked + 1
    /\ popped' = Append(popped, slot[Cell(peeked)])
    /\ peeked' = NoPeek
    /\ UNCHANGED <<head, slot, producer, cpc, ctail, cval, pushed>>

DropPeek ==
    /\ cpc = "idle" /\ peeked # NoPeek
    /\ peeked' = NoPeek
    /\ UNCHANGED <<head, tail, slot, producer, cpc, ctail, cval, pushed, popped>>

-----------------------------------------------------------------------------
Producer == (\E v \in Payload : PushCheck(v)) \/ PushFull \/ PushCopy \/ PushPublish
Consumer == PopCheck \/ PopEmpty \/ PopCopy \/ PopAdvance
            \/ PeekSlot \/ Confirm \/ DropPeek

SpscNext == Producer \/ Consumer

SpscSpec == SpscInit /\ [][SpscNext]_spscVars

-----------------------------------------------------------------------------
(* The consumer receives exactly what was published, once each and in       *)
(* order, and the ring never holds more than Capacity payloads              *)
(* (try_push's fullness test and try_pop's emptiness test).                 *)
ExactlyOnceInOrder ==
    /\ popped = SubSeq(pushed, 1, Len(popped))
    /\ Len(pushed) - Len(popped) = head - tail
    /\ head - tail \in 0..Capacity

(* ExactlyOnceInOrder and NoCopyRace as an inductive invariant: the cells   *)
(* from tail to head hold the payloads published and not yet consumed, and  *)
(* what each side has loaded or copied is still current when it acts on it. *)
SpscInv ==
    /\ SpscTypeOK
    /\ tail <= head /\ head - tail <= Capacity
    /\ Len(pushed) = head /\ Len(popped) = tail
    /\ \A i \in 1..tail : popped[i] = pushed[i]
    /\ \A i \in tail..(head - 1) : slot[Cell(i)] = pushed[i + 1]
    /\ ppc # "idle" => head - tail < Capacity /\ pval \in Payload
    /\ ppc = "publish" => slot[Cell(head)] = pval
    /\ cpc # "idle" => ctail = tail /\ tail < head /\ peeked = NoPeek
    /\ cpc = "advance" => cval = pushed[tail + 1]
    /\ peeked # NoPeek => peeked = tail /\ tail < head

(* The payload copies are plain memory copies.  The producer is never in a  *)
(* cell the consumer is reading, through a pop or through a live peek.      *)
NoCopyRace ==
    ppc = "copy" =>
        /\ cpc = "copy" => Cell(ctail) # Cell(head)
        /\ peeked # NoPeek => Cell(peeked) # Cell(head)

(* PeekedSlot::confirm and try_pop only ever advance the consumer position. *)
TailAdvances == [][tail' >= tail]_spscVars

(* The cells between tail and head, oldest first, are the queue.            *)
Window(cells, from, to) == [i \in 1..(to - from) |-> cells[Cell(from + i - 1)]]
Contents == Window(slot, tail, head)

Fifo == INSTANCE BoundedFifo WITH queue <- Contents

(* Every publish is a Push of BoundedFifo, every release of a cell a Pop,   *)
(* and every other step leaves the queue as it is.                          *)
ImplementsFifo == Fifo!Spec
=============================================================================
