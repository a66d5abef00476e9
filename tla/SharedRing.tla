----------------------------- MODULE SharedRing -----------------------------
(***************************************************************************)
(* SharedRing (shared_ring.rs): Vyukov's bounded multi-producer multi-     *)
(* consumer queue in a mapped file.  A cell carries a sequence number that *)
(* says whose turn it is: pos while the cell waits for the producer of     *)
(* position pos, pos + 1 once that producer has published, pos + capacity  *)
(* once the consumer of pos has released it.                               *)
(*                                                                         *)
(* Every atomic access of try_push, try_pop, try_push_spsc, try_pop_spsc   *)
(* and heal_stuck_slot is a step, and so is each payload copy.  A payload  *)
(* is named by the position it is pushed at (Item), so that a cell's       *)
(* content says which push wrote it.  A producer may die at any step.      *)
(*                                                                         *)
(* A compare_exchange_weak that fails spuriously sends its thread back to  *)
(* the load it started from, as losing the race does.                      *)
(***************************************************************************)
EXTENDS Integers, FiniteSets

CONSTANTS Producers, Consumers,
          Capacity,        \* cells (a power of two, at least 2)
          MaxPos,          \* bound: positions claimed
          MaxCrashes,      \* bound: producers that die
          Kinds            \* the handles in use: "mpmc", "mpsc", "spsc"

ASSUME CapacityAssumption == Capacity \in Nat /\ Capacity >= 2
ASSUME BoundsAssumption == MaxPos \in Nat /\ MaxCrashes \in Nat
ASSUME KindsAssumption == Kinds \subseteq {"mpmc", "mpsc", "spsc"}

VARIABLES
    producer_seq, consumer_seq,
    sequence,       \* per cell: Slot.sequence
    payload,        \* per cell: the Item last written, or Zeros
    ppc, ppos,      \* per producer: where its call is, the position it loaded
    cpc, cpos,      \* per consumer: likewise
    cval,           \* per consumer: the Item it has copied out
    dead,           \* producers that have died
    kind,           \* the handle this ring is used through
    healing,        \* the position a heal_stuck_slot call has found in the window
    delivered       \* ghost: <<position, Item>> of every finished pop

ring == <<producer_seq, consumer_seq, sequence, payload>>
producers == <<ppc, ppos>>
consumers == <<cpc, cpos, cval>>
vars == <<ring, producers, consumers, dead, healing, delivered, kind>>

Cells == 0..(Capacity - 1)
Cell(pos) == pos % Capacity
Zeros == -1
Item(pos) == pos
Items == Nat \cup {Zeros}
NoPos == -1

(* A sole producer may use try_push_spsc, and a sole consumer, such as the  *)
(* one of SharedRingMpscFifo, try_pop_spsc.                                 *)
SoleProducer == kind = "spsc"
SoleConsumer == kind \in {"spsc", "mpsc"}
Users(threads, sole) == IF sole THEN {CHOOSE t \in threads : TRUE} ELSE threads

(* init_ring_layout_raw: cell i starts with sequence i. *)
Init ==
    /\ producer_seq = 0 /\ consumer_seq = 0
    /\ sequence = [i \in Cells |-> i]
    /\ payload = [i \in Cells |-> Zeros]
    /\ ppc = [p \in Producers |-> "idle"] /\ ppos = [p \in Producers |-> 0]
    /\ cpc = [c \in Consumers |-> "idle"] /\ cpos = [c \in Consumers |-> 0]
    /\ cval = [c \in Consumers |-> Zeros]
    /\ dead = {} /\ kind \in Kinds
    /\ healing = NoPos /\ delivered = {}

-----------------------------------------------------------------------------
(* try_push and try_push_spsc.  At(p, s): the call of p stands at s.        *)

At(p, s) == ppc[p] = s /\ p \notin dead
GoP(p, s) == ppc' = [ppc EXCEPT ![p] = s]

PushLoad(p) ==
    /\ At(p, "idle") /\ p \in Users(Producers, SoleProducer) /\ producer_seq < MaxPos
    /\ ppos' = [ppos EXCEPT ![p] = producer_seq]
    /\ GoP(p, "inspect")
    /\ UNCHANGED <<ring, consumers, dead, healing, delivered, kind>>

(* The cell's sequence is the loaded position: the cell is free for it.     *)
(* Otherwise the ring is full (behind) or another producer was faster       *)
(* (ahead); either way the call leaves the ring alone and starts over.      *)
PushInspect(p) ==
    /\ At(p, "inspect")
    /\ GoP(p, IF sequence[Cell(ppos[p])] # ppos[p] THEN "idle"
              ELSE IF SoleProducer THEN "solecopy" ELSE "claim")
    /\ UNCHANGED <<ring, ppos, consumers, dead, healing, delivered, kind>>

(* As PushClaim would be with a store in place of the compare_exchange.     *)
PushClaimUnchecked(p) ==
    /\ At(p, "claim")
    /\ producer_seq' = ppos[p] + 1
    /\ GoP(p, "copy")
    /\ UNCHANGED <<consumer_seq, sequence, payload, ppos, consumers, dead, healing, delivered, kind>>

PushClaim(p) ==
    /\ At(p, "claim")
    /\ \/ /\ producer_seq = ppos[p]
          /\ producer_seq' = ppos[p] + 1
          /\ GoP(p, "copy")
       \/ /\ producer_seq # ppos[p]
          /\ GoP(p, "idle")
          /\ UNCHANGED producer_seq
    /\ UNCHANGED <<consumer_seq, sequence, payload, ppos, consumers, dead, healing, delivered, kind>>

Write(p) == payload' = [payload EXCEPT ![Cell(ppos[p])] = Item(ppos[p])]

PushCopy(p) ==
    /\ At(p, "copy")
    /\ Write(p)
    /\ GoP(p, "publish")
    /\ UNCHANGED <<producer_seq, consumer_seq, sequence, ppos, consumers, dead, healing, delivered, kind>>

(* The sole producer writes the cell first and claims it by a plain store.  *)
SolePushCopy(p) ==
    /\ At(p, "solecopy")
    /\ Write(p)
    /\ GoP(p, "advance")
    /\ UNCHANGED <<producer_seq, consumer_seq, sequence, ppos, consumers, dead, healing, delivered, kind>>

SolePushAdvance(p) ==
    /\ At(p, "advance")
    /\ producer_seq' = ppos[p] + 1
    /\ GoP(p, "publish")
    /\ UNCHANGED <<consumer_seq, sequence, payload, ppos, consumers, dead, healing, delivered, kind>>

PushPublish(p) ==
    /\ At(p, "publish")
    /\ sequence' = [sequence EXCEPT ![Cell(ppos[p])] = ppos[p] + 1]
    /\ GoP(p, "idle")
    /\ UNCHANGED <<producer_seq, consumer_seq, payload, ppos, consumers, dead, healing, delivered, kind>>

-----------------------------------------------------------------------------
(* try_pop and try_pop_spsc                                                 *)

GoC(c, s) == cpc' = [cpc EXCEPT ![c] = s]

PopLoad(c) ==
    /\ cpc[c] = "idle" /\ c \in Users(Consumers, SoleConsumer)
    /\ cpos' = [cpos EXCEPT ![c] = consumer_seq]
    /\ GoC(c, "inspect")
    /\ UNCHANGED <<ring, producers, cval, dead, healing, delivered, kind>>

(* As PopInspect would be if it compared with pos in place of pos + 1.      *)
PopInspectEarly(c) ==
    /\ cpc[c] = "inspect"
    /\ GoC(c, IF sequence[Cell(cpos[c])] < cpos[c] THEN "idle"
              ELSE IF SoleConsumer THEN "solecopy" ELSE "claim")
    /\ UNCHANGED <<ring, producers, cpos, cval, dead, healing, delivered, kind>>

PopInspect(c) ==
    /\ cpc[c] = "inspect"
    /\ GoC(c, IF sequence[Cell(cpos[c])] # cpos[c] + 1 THEN "idle"
              ELSE IF SoleConsumer THEN "solecopy" ELSE "claim")
    /\ UNCHANGED <<ring, producers, cpos, cval, dead, healing, delivered, kind>>

PopClaim(c) ==
    /\ cpc[c] = "claim"
    /\ \/ /\ consumer_seq = cpos[c]
          /\ consumer_seq' = cpos[c] + 1
          /\ GoC(c, "copy")
       \/ /\ consumer_seq # cpos[c]
          /\ GoC(c, "idle")
          /\ UNCHANGED consumer_seq
    /\ UNCHANGED <<producer_seq, sequence, payload, producers, cpos, cval, dead, healing, delivered, kind>>

Read(c) == cval' = [cval EXCEPT ![c] = payload[Cell(cpos[c])]]

PopCopy(c) ==
    /\ cpc[c] = "copy"
    /\ Read(c)
    /\ GoC(c, "release")
    /\ UNCHANGED <<ring, producers, cpos, dead, healing, delivered, kind>>

SolePopCopy(c) ==
    /\ cpc[c] = "solecopy"
    /\ Read(c)
    /\ GoC(c, "advance")
    /\ UNCHANGED <<ring, producers, cpos, dead, healing, delivered, kind>>

SolePopAdvance(c) ==
    /\ cpc[c] = "advance"
    /\ consumer_seq' = cpos[c] + 1
    /\ GoC(c, "release")
    /\ UNCHANGED <<producer_seq, sequence, payload, producers, cpos, cval, dead, healing, delivered, kind>>

PopRelease(c) ==
    /\ cpc[c] = "release"
    /\ sequence' = [sequence EXCEPT ![Cell(cpos[c])] = cpos[c] + Capacity]
    /\ delivered' = delivered \cup {<<cpos[c], cval[c]>>}
    /\ GoC(c, "idle")
    /\ UNCHANGED <<producer_seq, consumer_seq, payload, producers, cpos, cval, dead, healing, kind>>

-----------------------------------------------------------------------------
(* A producer's process dies: whatever its call was doing is never done.    *)
Crash(p) ==
    /\ p \notin dead /\ Cardinality(dead) < MaxCrashes
    /\ dead' = dead \cup {p}
    /\ UNCHANGED <<ring, producers, consumers, healing, delivered, kind>>

(* heal_stuck_slot.  The counters only grow and producer_seq is loaded      *)
(* first, so both loads are one step, at the second.                        *)
InWindowShort(pos) == consumer_seq < pos /\ pos < producer_seq
InWindow(pos) == consumer_seq <= pos /\ pos < producer_seq

HealCheck(pos) ==
    /\ healing = NoPos
    /\ InWindow(pos)
    /\ healing' = pos
    /\ UNCHANGED <<ring, producers, consumers, dead, delivered, kind>>

HealCas ==
    /\ healing # NoPos
    /\ sequence' = IF sequence[Cell(healing)] = healing
                   THEN [sequence EXCEPT ![Cell(healing)] = healing + 1]
                   ELSE sequence
    /\ healing' = NoPos
    /\ UNCHANGED <<producer_seq, consumer_seq, payload, producers, consumers, dead, delivered, kind>>

(* The producers that have claimed pos and not published it.  The contract  *)
(* of heal_stuck_slot: the caller knows that none of them ever will.        *)
Claimants(pos) == {p \in Producers : ppc[p] \in {"copy", "publish"} /\ ppos[p] = pos}
HealContract(pos) == Claimants(pos) # {} /\ Claimants(pos) \subseteq dead

Heal(pos) == HealContract(pos) /\ HealCheck(pos)

-----------------------------------------------------------------------------
Push(p) == \/ PushLoad(p) \/ PushInspect(p) \/ PushClaim(p) \/ PushCopy(p)
           \/ SolePushCopy(p) \/ SolePushAdvance(p) \/ PushPublish(p)

Pop(c) == \/ PopLoad(c) \/ PopInspect(c) \/ PopClaim(c) \/ PopCopy(c)
          \/ SolePopCopy(c) \/ SolePopAdvance(c) \/ PopRelease(c)

Next == \/ \E p \in Producers : Push(p) \/ Crash(p)
        \/ \E c \in Consumers : Pop(c)
        \/ \E pos \in 0..(MaxPos - 1) : Heal(pos)
        \/ HealCas

(* A call that has claimed a cell finishes unless its process dies; the     *)
(* consumers keep polling; somebody heals what a dead producer left.        *)
Fairness ==
    /\ \A p \in Producers : WF_vars(PushCopy(p) \/ SolePushAdvance(p) \/ PushPublish(p))
    /\ \A c \in Consumers : WF_vars(Pop(c))
    /\ \A pos \in 0..(MaxPos - 1) : WF_vars(Heal(pos))
    /\ WF_vars(HealCas)

Spec == Init /\ [][Next]_vars
FairSpec == Spec /\ Fairness

-----------------------------------------------------------------------------
Writing(p, cell) == ppc[p] \in {"copy", "solecopy"} /\ p \notin dead /\ Cell(ppos[p]) = cell
Reading(c, cell) == cpc[c] \in {"copy", "solecopy"} /\ Cell(cpos[c]) = cell

(* Payloads are copied with plain loads and stores.  A cell being written   *)
(* is in the hands of that one producer: try_push's and try_pop's claims    *)
(* keep everybody else out of it.                                           *)
NoCellRace ==
    \A p \in Producers, cell \in Cells : Writing(p, cell) =>
        /\ \A q \in Producers : Writing(q, cell) => q = p
        /\ \A c \in Consumers : ~Reading(c, cell)

(* The payload of a pop at pos; a producer that died before it had copied   *)
(* its payload leaves the cell as it was.                                   *)
AsPushed(pos, v) == v = Item(pos) \/ \E p \in dead : ppc[p] = "copy" /\ ppos[p] = pos

Popping == {cpos[c] : c \in {d \in Consumers : cpc[d] \in {"copy", "release"}}}

(* Every position is handed out once, and none is skipped: the positions    *)
(* delivered and those being popped are, without overlap, those before      *)
(* consumer_seq, so that a pop of a position already delivered, or of one   *)
(* another consumer has in hand, is no step of the ring, by try_pop nor by  *)
(* try_pop_spsc.  Each pop returns the payload pushed at its position,      *)
(* whatever order the producers and consumers ran in and however often the  *)
(* ring has lapped; only a position whose producer died before it had       *)
(* copied its payload may yield something else.                             *)
PoppedOnceAsPushed ==
    /\ \A d, e \in delivered : d[1] = e[1] => d = e
    /\ \A c, d \in Consumers :
         cpc[c] \in {"copy", "release"} /\ cpc[d] \in {"copy", "release"} /\ cpos[c] = cpos[d]
           => c = d
    /\ {d[1] : d \in delivered} \cup Popping = 0..(consumer_seq - 1)
    /\ \A d \in delivered : d[1] \notin Popping /\ AsPushed(d[1], d[2])

(* Every position a producer claims is delivered in the end, also when the  *)
(* producer dies between its claim and its publish and the slot is healed.  *)
(* (The claims are bounded, so that in every behaviour they come to an end.) *)
ClaimsAreDelivered ==
    <>[](\A pos \in 0..(producer_seq - 1) : \E d \in delivered : d[1] = pos)

(* "On `Err(Empty)`, the ring is empty": when try_pop answers Empty, at its  *)
(* load of the cell's sequence, no published payload is waiting.            *)
AnswersEmpty(c) == cpc[c] = "inspect" /\ sequence[Cell(cpos[c])] < cpos[c] + 1
                   /\ cpc'[c] = "idle"
Published == {pos \in consumer_seq..(producer_seq - 1) : sequence[Cell(pos)] = pos + 1}
EmptyMeansEmpty == [][\A c \in Consumers : AnswersEmpty(c) => Published = {}]_vars
=============================================================================
