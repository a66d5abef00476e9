--------------------------- MODULE HeartbeatTable ---------------------------
(***************************************************************************)
(* HeartbeatTable (heartbeat.rs) and the part of FailoverWatchdog          *)
(* (failover.rs) that reports dead processes' work: processes register in  *)
(* a slot, beat, mark work in flight and unregister, under a seqlock; the  *)
(* watchdog ticks the epoch, takes a snapshot of each slot, and its caller *)
(* reassigns the work of those that have lapsed.                           *)
(*                                                                         *)
(* Every atomic access is a step.  last_seen_epoch and the epochs a call   *)
(* has loaded are kept as ages behind the global epoch, counted up to      *)
(* Grace + 1.  A bit of in_flight_bitmap is named by the process that      *)
(* marks it, one per process.  role is 0 throughout and left out.          *)
(***************************************************************************)
EXTENDS Integers, FiniteSets

CONSTANTS BeatProcs, TableSlots,
          BeatGrace,      \* grace_epochs
          MaxRegs,        \* bound: calls of register and unregister
          MaxGone,        \* bound: processes that die
          EMPTY_PID

ASSUME CapacityAssumption == TableSlots \in Nat \ {0}
ASSUME BoundsAssumption == BeatGrace \in Nat /\ MaxRegs \in Nat /\ MaxGone \in Nat
ASSUME EmptyAssumption == EMPTY_PID \notin BeatProcs

VARIABLES
    pid, slot_version, last_seen, in_flight,   \* per slot
    hpc, idx,       \* per process: where it is, the slot it tries or holds
    stamp,          \* per process: age of the epoch its call has loaded
    calls, gone,
    wpc, at, v1,    \* the watchdog: where it is, the slot it looks at, the version it saw
    snap,           \* the snapshot it is taking
    dead_slots,     \* the report: slots and their snapshots
    reassigned,     \* ghost: bits reassigned since they were marked
    late            \* ghost: a live process has missed its grace

slots == <<pid, slot_version, last_seen, in_flight>>
procs == <<hpc, idx, stamp, calls>>
watchdog == <<wpc, at, v1, snap, dead_slots>>
hghosts == <<reassigned, late>>
hvars == <<slots, procs, gone, watchdog, hghosts>>

Slots == 0..(TableSlots - 1)
OlderBeat(age) == IF age > BeatGrace THEN age ELSE age + 1
InUpdate == {"r_odd", "r_load", "r_store", "r_bits", "r_even", "u_bits", "u_pid", "u_even"}
NoSnap == [pid |-> EMPTY_PID, last |-> 0, bits |-> {}]

(* init_region *)
HInit ==
    /\ pid = [i \in Slots |-> EMPTY_PID] /\ slot_version = [i \in Slots |-> 0]
    /\ last_seen = [i \in Slots |-> 0] /\ in_flight = [i \in Slots |-> {}]
    /\ hpc = [p \in BeatProcs |-> "out"] /\ idx = [p \in BeatProcs |-> 0]
    /\ stamp = [p \in BeatProcs |-> 0] /\ calls = 0 /\ gone = {}
    /\ wpc = "idle" /\ at = 0 /\ v1 = 0 /\ snap = NoSnap /\ dead_slots = {}
    /\ reassigned = {} /\ late = FALSE

HAt(p, s) == hpc[p] = s /\ p \notin gone
HGo(p, s) == hpc' = [hpc EXCEPT ![p] = s]

-----------------------------------------------------------------------------
(* register: the CAS of each slot's pid in turn, then the fields under an   *)
(* odd version.                                                             *)
CallRegister(p) ==
    /\ HAt(p, "out") /\ calls < MaxRegs
    /\ calls' = calls + 1
    /\ idx' = [idx EXCEPT ![p] = 0]
    /\ HGo(p, "claim")
    /\ UNCHANGED <<slots, stamp, gone, watchdog, hghosts>>

(* As RegisterClaim would be with a store in place of the CAS.              *)
RegisterClaimStolen(p) ==
    /\ HAt(p, "claim")
    /\ pid' = [pid EXCEPT ![idx[p]] = p]
    /\ HGo(p, "r_odd")
    /\ UNCHANGED <<slot_version, last_seen, in_flight, idx, stamp, calls, gone, watchdog, hghosts>>

RegisterClaim(p) ==
    /\ HAt(p, "claim")
    /\ \/ /\ pid[idx[p]] = EMPTY_PID
          /\ pid' = [pid EXCEPT ![idx[p]] = p]
          /\ HGo(p, "r_odd") /\ UNCHANGED idx
       \/ /\ pid[idx[p]] # EMPTY_PID
          /\ IF idx[p] + 1 \in Slots
             THEN idx' = [idx EXCEPT ![p] = @ + 1] /\ UNCHANGED hpc
             ELSE HGo(p, "out") /\ UNCHANGED idx                    \* TableFull
          /\ UNCHANGED pid
    /\ UNCHANGED <<slot_version, last_seen, in_flight, stamp, calls, gone, watchdog, hghosts>>

(* The four bumps of seq_version in register and unregister.                *)
Bump(p, from, to) ==
    /\ HAt(p, from)
    /\ slot_version' = [slot_version EXCEPT ![idx[p]] = @ + 1]
    /\ HGo(p, to)
    /\ UNCHANGED <<pid, last_seen, in_flight, idx, stamp, calls, gone, watchdog, hghosts>>

(* The global epoch is loaded and stored in last_seen_epoch, by register    *)
(* and by beat.                                                             *)
LoadBeatEpoch(p, from, to) ==
    /\ HAt(p, from)
    /\ stamp' = [stamp EXCEPT ![p] = 0]
    /\ HGo(p, to)
    /\ UNCHANGED <<slots, idx, calls, gone, watchdog, hghosts>>

StoreEpoch(p, from, to) ==
    /\ HAt(p, from)
    /\ last_seen' = [last_seen EXCEPT ![idx[p]] = stamp[p]]
    /\ stamp' = [stamp EXCEPT ![p] = 0]
    /\ HGo(p, to)
    /\ UNCHANGED <<pid, slot_version, in_flight, idx, calls, gone, watchdog, hghosts>>

ClearBits(p, from, to) ==
    /\ HAt(p, from)
    /\ in_flight' = [in_flight EXCEPT ![idx[p]] = {}]
    /\ HGo(p, to)
    /\ UNCHANGED <<pid, slot_version, last_seen, idx, stamp, calls, gone, watchdog, hghosts>>

RegisterSlot(p) == \/ CallRegister(p) \/ RegisterClaim(p) \/ Bump(p, "r_odd", "r_load")
               \/ LoadBeatEpoch(p, "r_load", "r_store") \/ StoreEpoch(p, "r_store", "r_bits")
               \/ ClearBits(p, "r_bits", "r_even") \/ Bump(p, "r_even", "in")

Beat(p) == LoadBeatEpoch(p, "in", "b_store") \/ StoreEpoch(p, "b_store", "in")

MarkInFlight(p) ==
    /\ HAt(p, "in")
    /\ in_flight' = [in_flight EXCEPT ![idx[p]] = @ \cup {p}]
    /\ reassigned' = reassigned \ {p}
    /\ UNCHANGED <<pid, slot_version, last_seen, procs, gone, watchdog, late>>

ClearInFlight(p) ==
    /\ HAt(p, "in")
    /\ in_flight' = [in_flight EXCEPT ![idx[p]] = @ \ {p}]
    /\ UNCHANGED <<pid, slot_version, last_seen, procs, gone, watchdog, hghosts>>

CallUnregister(p) ==
    /\ HAt(p, "in") /\ calls < MaxRegs
    /\ calls' = calls + 1
    /\ HGo(p, "u_odd")
    /\ UNCHANGED <<slots, idx, stamp, gone, watchdog, hghosts>>

UnregisterPid(p) ==
    /\ HAt(p, "u_pid")
    /\ pid' = [pid EXCEPT ![idx[p]] = EMPTY_PID]
    /\ HGo(p, "u_even")
    /\ UNCHANGED <<slot_version, last_seen, in_flight, idx, stamp, calls, gone, watchdog, hghosts>>

UnregisterSlot(p) == \/ CallUnregister(p) \/ Bump(p, "u_odd", "u_bits") \/ ClearBits(p, "u_bits", "u_pid")
                 \/ UnregisterPid(p) \/ Bump(p, "u_even", "out")

Die(p) ==
    /\ p \notin gone /\ Cardinality(gone) < MaxGone
    /\ gone' = gone \cup {p}
    /\ UNCHANGED <<slots, procs, watchdog, hghosts>>

-----------------------------------------------------------------------------
(* beat: "Call once per scan tick".  No live process has its grace run out  *)
(* by this tick.                                                            *)
BeatsInTime ==
    \A p \in BeatProcs \ gone : hpc[p] \notin {"out", "claim"} => OlderBeat(last_seen[idx[p]]) <= BeatGrace

(* scan: tick_global_epoch, then snapshot of each slot.                     *)
Tick ==
    /\ wpc = "idle"
    /\ late' = (late \/ ~BeatsInTime)
    /\ last_seen' = [i \in Slots |-> OlderBeat(last_seen[i])]
    /\ stamp' = [p \in BeatProcs |-> IF hpc[p] \in {"r_store", "b_store"} THEN OlderBeat(stamp[p]) ELSE stamp[p]]
    /\ wpc' = "v1" /\ at' = 0
    /\ UNCHANGED <<pid, slot_version, in_flight, hpc, idx, calls, gone, v1, snap, dead_slots, reassigned>>

SnapVersion ==
    /\ wpc = "v1"
    /\ \/ slot_version[at] % 2 = 0 /\ v1' = slot_version[at] /\ wpc' = "pid"
       \/ slot_version[at] % 2 # 0 /\ UNCHANGED <<v1, wpc>>     \* writer in progress
    /\ UNCHANGED <<slots, procs, gone, at, snap, dead_slots, hghosts>>

SnapField(from, to, copy) ==
    /\ wpc = from
    /\ snap' = copy
    /\ wpc' = to
    /\ UNCHANGED <<slots, procs, gone, at, v1, dead_slots, hghosts>>

SnapPid == SnapField("pid", "last", [snap EXCEPT !.pid = pid[at]])
SnapLast == SnapField("last", "bits", [snap EXCEPT !.last = last_seen[at]])
SnapBits == SnapField("bits", "v2", [snap EXCEPT !.bits = in_flight[at]])

(* As Lapsed would be if the grace ended one tick early.                    *)
LapsedEarly(s) == s.pid # EMPTY_PID /\ s.last >= BeatGrace

Lapsed(s) == s.pid # EMPTY_PID /\ s.last > BeatGrace

(* The next slot, or the end of the scan.                                   *)
Onward == IF at + 1 \in Slots THEN wpc' = "v1" /\ at' = at + 1
                              ELSE wpc' = "report" /\ at' = 0

Judge == /\ dead_slots' = IF Lapsed(snap) /\ snap.bits # {} THEN dead_slots \cup {<<at, snap>>}
                                                           ELSE dead_slots
         /\ Onward /\ snap' = NoSnap /\ v1' = 0

(* As SnapRecheck would be if it took what it has read as it is.            *)
SnapRecheckNot ==
    /\ wpc = "v2"
    /\ Judge
    /\ UNCHANGED <<slots, procs, gone, hghosts>>

SnapRecheck ==
    /\ wpc = "v2"
    /\ \/ slot_version[at] = v1 /\ Judge
       \/ slot_version[at] # v1 /\ wpc' = "v1" /\ snap' = NoSnap /\ v1' = 0
          /\ UNCHANGED <<at, dead_slots>>
    /\ UNCHANGED <<slots, procs, gone, hghosts>>

(* As ClearDeadBitmap would be if it cleared the slot and lost the report.  *)
ClearDeadBitmapLost(r) ==
    /\ wpc = "report" /\ r \in dead_slots
    /\ in_flight' = [in_flight EXCEPT ![r[1]] = {}]
    /\ dead_slots' = dead_slots \ {r}
    /\ UNCHANGED <<pid, slot_version, last_seen, procs, gone, wpc, at, v1, snap, hghosts>>

(* The caller reassigns what a report entry names, then clear_dead_bitmap.  *)
ClearDeadBitmap(r) ==
    /\ wpc = "report" /\ r \in dead_slots
    /\ reassigned' = reassigned \cup r[2].bits
    /\ in_flight' = [in_flight EXCEPT ![r[1]] = {}]
    /\ dead_slots' = dead_slots \ {r}
    /\ UNCHANGED <<pid, slot_version, last_seen, procs, gone, wpc, at, v1, snap, late>>

ScanDone ==
    /\ wpc = "report" /\ dead_slots = {}
    /\ wpc' = "idle"
    /\ UNCHANGED <<slots, procs, gone, at, v1, snap, dead_slots, hghosts>>

-----------------------------------------------------------------------------
Scan == \/ Tick \/ SnapVersion \/ SnapPid \/ SnapLast \/ SnapBits \/ SnapRecheck
        \/ (\E r \in dead_slots : ClearDeadBitmap(r)) \/ ScanDone

HNext == \/ \E p \in BeatProcs : \/ RegisterSlot(p) \/ Beat(p) \/ UnregisterSlot(p) \/ Die(p)
                            \/ MarkInFlight(p) \/ ClearInFlight(p)
        \/ Scan

(* A live process beats and finishes the calls it is in; the watchdog scans *)
(* for ever.                                                                *)
HFairness == /\ \A p \in BeatProcs : WF_hvars(RegisterSlot(p)) /\ WF_hvars(Beat(p))
                                 /\ WF_hvars(UnregisterSlot(p) /\ hpc[p] # "in")
            /\ WF_hvars(Scan)

HSpec == HInit /\ [][HNext]_hvars
HFairSpec == HSpec /\ HFairness

-----------------------------------------------------------------------------
Owns(p, i) == idx[p] = i /\ hpc[p] \notin {"out", "claim", "u_even"}

(* register's CAS gives a slot to one process at a time, and keeps its pid  *)
(* there until unregister gives it back.                                    *)
SlotHasOneOwner ==
    \A i \in Slots : {p \in BeatProcs : Owns(p, i)} = {pid[i]} \ {EMPTY_PID}

(* snapshot keeps the work of two processes apart: what a report names as a *)
(* process's work was marked by that process, not by the one that had the   *)
(* slot before it or has had it since.                                      *)
ReportsOwnWork == \A r \in dead_slots : r[2].bits \subseteq {r[2].pid}

(* clear_dead_bitmap clears whatever the slot holds when it is called,      *)
(* however long after the snapshot.  As long as the live processes beat in  *)
(* time, a report entry names a process that is dead, and the work that is  *)
(* erased with it is the work the entry names to be reassigned.             *)
ErasesOnlyDeadWork ==
    late \/ \A r \in dead_slots : r[2].pid \in gone /\ in_flight[r[1]] \subseteq r[2].bits

(* seq_version is "bumped on each meaningful write so readers can detect    *)
(* torn writes": it is odd while register or unregister is between its two  *)
(* bumps.                                                                   *)
OddWhileUpdating ==
    \A p \in BeatProcs : hpc[p] \in InUpdate \ {"r_odd"} => slot_version[idx[p]] % 2 = 1

(* A process has died between two bumps and left its slot's version odd, so *)
(* that snapshot takes it for a writer in progress from then on.            *)
LeftOdd == \E p \in gone : hpc[p] \in InUpdate

(* "If the process hasn't advanced its heartbeat within the configured      *)
(* grace, its work is presumed dead and reclaimed": the work of a process   *)
(* that has died in the middle of it is reassigned, as long as the live     *)
(* ones beat in time.                                                       *)
DeadWorkReassigned ==
    \A p \in BeatProcs : (p \in gone /\ hpc[p] \in {"in", "b_store"} /\ p \in in_flight[idx[p]])
                        ~> (p \in reassigned \/ late \/ LeftOdd)

-----------------------------------------------------------------------------
(* What the proofs carry along *)

Snapshots == [pid : BeatProcs \cup {EMPTY_PID}, last : Nat, bits : SUBSET BeatProcs]
HTypeOK ==
    /\ pid \in [Slots -> BeatProcs \cup {EMPTY_PID}] /\ slot_version \in [Slots -> Nat]
    /\ last_seen \in [Slots -> Nat] /\ in_flight \in [Slots -> SUBSET BeatProcs]
    /\ hpc \in [BeatProcs -> {"out", "claim", "in", "b_store", "u_odd"} \cup InUpdate]
    /\ idx \in [BeatProcs -> Slots] /\ stamp \in [BeatProcs -> Nat]
    /\ wpc \in {"idle", "v1", "pid", "last", "bits", "v2", "report"}
    /\ at \in Slots /\ v1 \in Nat /\ snap \in Snapshots /\ dead_slots \in SUBSET (Slots \X Snapshots)

(* A slot's pid is that of the process that has it.                         *)
PidIsOwner == \A i \in Slots, p \in BeatProcs : Owns(p, i) <=> pid[i] = p

(* A slot's work is its owner's, and there is none when it changes hands.   *)
WorkIsOwners ==
    /\ \A i \in Slots : in_flight[i] \subseteq {pid[i]}
    /\ \A p \in BeatProcs : hpc[p] \in {"r_odd", "u_pid"} => in_flight[idx[p]] = {}

(* While the version is the one the snapshot began with, the slot may have  *)
(* been given back and claimed by another process, but that one has not got *)
(* as far as its first bump.                                                *)
SnapshotAgrees ==
    /\ wpc \in {"pid", "last", "bits", "v2"} => v1 <= slot_version[at]
    /\ wpc \in {"last", "bits"} /\ slot_version[at] = v1 =>
         \/ pid[at] \in {snap.pid, EMPTY_PID}
         \/ \E q \in BeatProcs : pid[at] = q /\ hpc[q] = "r_odd"
    /\ wpc = "v2" /\ slot_version[at] = v1 => snap.bits \subseteq {snap.pid}

HInv == HTypeOK /\ PidIsOwner /\ WorkIsOwners /\ SnapshotAgrees /\ ReportsOwnWork
=============================================================================
