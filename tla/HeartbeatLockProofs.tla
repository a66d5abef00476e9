------------------------ MODULE HeartbeatLockProofs -------------------------
(***************************************************************************)
(* HeartbeatTable for every set of processes, any number of slots and any  *)
(* grace, wherever processes die.  SharedRWLock for every finite set of    *)
(* threads and any number of calls.                                        *)
(***************************************************************************)
EXTENDS HeartbeatTable, SharedRWLock, TLAPS

-----------------------------------------------------------------------------
(* HeartbeatTable *)

(* A table is empty when it is made.                                        *)
LEMMA HInitInv == HInit => HInv
<1> SUFFICES ASSUME HInit PROVE HInv
  OBVIOUS
<1>0. 0 \in Slots
  BY CapacityAssumption DEF Slots
<1>1. HTypeOK
  BY <1>0 DEF HInit, HTypeOK, Snapshots, NoSnap
<1>2. PidIsOwner
  BY EmptyAssumption DEF HInit, PidIsOwner, Owns
<1> QED
  BY <1>1, <1>2 DEF HInit, HInv, WorkIsOwners, SnapshotAgrees, ReportsOwnWork

(* Every step keeps the types.                                              *)
LEMMA HNextTypeOK == HTypeOK /\ [HNext]_hvars => HTypeOK'
<1> SUFFICES ASSUME HTypeOK, [HNext]_hvars PROVE HTypeOK'
  OBVIOUS
<1> USE DEF slots, procs, watchdog, hghosts, hvars, HGo, HAt
<1>0. 0 \in Slots
  BY CapacityAssumption DEF Slots
<1>1. CASE UNCHANGED hvars
  BY <1>1 DEF HTypeOK, Snapshots, NoSnap, InUpdate
<1>2. ASSUME NEW p \in BeatProcs, CallRegister(p) PROVE HTypeOK'
  BY <1>0, <1>2 DEF HTypeOK, InUpdate, CallRegister
<1>3. ASSUME NEW p \in BeatProcs, RegisterClaim(p) PROVE HTypeOK'
  BY <1>3 DEF HTypeOK, Snapshots, NoSnap, InUpdate, RegisterClaim
<1>4. ASSUME NEW p \in BeatProcs, Bump(p, "r_odd", "r_load") \/ Bump(p, "r_even", "in") PROVE HTypeOK'
  BY <1>4 DEF HTypeOK, Snapshots, NoSnap, InUpdate, Bump
<1>5. ASSUME NEW p \in BeatProcs, Bump(p, "u_odd", "u_bits") \/ Bump(p, "u_even", "out") PROVE HTypeOK'
  BY <1>5 DEF HTypeOK, Snapshots, NoSnap, InUpdate, Bump
<1>6. ASSUME NEW p \in BeatProcs, LoadBeatEpoch(p, "r_load", "r_store") \/ LoadBeatEpoch(p, "in", "b_store") PROVE HTypeOK'
  BY <1>6 DEF HTypeOK, Snapshots, NoSnap, InUpdate, LoadBeatEpoch
<1>7. ASSUME NEW p \in BeatProcs, StoreEpoch(p, "r_store", "r_bits") \/ StoreEpoch(p, "b_store", "in") PROVE HTypeOK'
  BY <1>7 DEF HTypeOK, Snapshots, NoSnap, InUpdate, StoreEpoch
<1>8. ASSUME NEW p \in BeatProcs, ClearBits(p, "r_bits", "r_even") \/ ClearBits(p, "u_bits", "u_pid") PROVE HTypeOK'
  BY <1>8 DEF HTypeOK, Snapshots, NoSnap, InUpdate, ClearBits
<1>9. ASSUME NEW p \in BeatProcs, MarkInFlight(p) PROVE HTypeOK'
  BY <1>9 DEF HTypeOK, Snapshots, NoSnap, InUpdate, MarkInFlight
<1>10. ASSUME NEW p \in BeatProcs, ClearInFlight(p) PROVE HTypeOK'
  BY <1>10 DEF HTypeOK, Snapshots, NoSnap, InUpdate, ClearInFlight
<1>11. ASSUME NEW p \in BeatProcs, CallUnregister(p) PROVE HTypeOK'
  BY <1>11 DEF HTypeOK, Snapshots, NoSnap, InUpdate, CallUnregister
<1>12. ASSUME NEW p \in BeatProcs, UnregisterPid(p) PROVE HTypeOK'
  BY <1>12 DEF HTypeOK, Snapshots, NoSnap, InUpdate, UnregisterPid
<1>13. ASSUME NEW p \in BeatProcs, Die(p) PROVE HTypeOK'
  BY <1>13 DEF HTypeOK, Snapshots, NoSnap, InUpdate, Die
<1>14. CASE Tick
  <2>1. \A age \in Nat : OlderBeat(age) \in Nat
    BY DEF OlderBeat
  <2>2. last_seen' \in [Slots -> Nat] /\ stamp' \in [BeatProcs -> Nat]
    BY <1>14, <2>1 DEF HTypeOK, Tick
  <2> QED
    BY <1>0, <1>14, <2>2 DEF HTypeOK, Tick
<1>15. CASE SnapVersion
  BY <1>15 DEF HTypeOK, Snapshots, NoSnap, InUpdate, SnapVersion
<1>16. CASE SnapPid
  BY <1>16 DEF HTypeOK, Snapshots, NoSnap, InUpdate, SnapPid, SnapField
<1>17. CASE SnapLast
  BY <1>17 DEF HTypeOK, Snapshots, NoSnap, InUpdate, SnapLast, SnapField
<1>18. CASE SnapBits
  BY <1>18 DEF HTypeOK, Snapshots, NoSnap, InUpdate, SnapBits, SnapField
<1>19. CASE SnapRecheck
  <2>1. NoSnap \in Snapshots
    BY DEF NoSnap, Snapshots
  <2>2. CASE Judge
    <3>1. dead_slots' \in SUBSET (Slots \X Snapshots)
      BY <2>2 DEF HTypeOK, Judge
    <3>2. at' \in Slots /\ wpc' \in {"v1", "report"}
      BY <1>0, <2>2 DEF HTypeOK, Judge, Onward
    <3>3. snap' \in Snapshots /\ v1' \in Nat
      BY <2>1, <2>2 DEF Judge
    <3> QED
      BY <1>19, <3>1, <3>2, <3>3 DEF HTypeOK, SnapRecheck
  <2>3. CASE wpc' = "v1" /\ snap' = NoSnap /\ v1' = 0 /\ UNCHANGED <<at, dead_slots>>
    BY <1>19, <2>1, <2>3 DEF HTypeOK, SnapRecheck
  <2> QED
    BY <1>19, <2>2, <2>3 DEF SnapRecheck
<1>20. ASSUME NEW r \in dead_slots, ClearDeadBitmap(r) PROVE HTypeOK'
  BY <1>20 DEF HTypeOK, Snapshots, NoSnap, InUpdate, ClearDeadBitmap
<1>21. CASE ScanDone
  BY <1>21 DEF HTypeOK, Snapshots, NoSnap, InUpdate, ScanDone
<1> QED
  BY <1>1, <1>2, <1>3, <1>4, <1>5, <1>6, <1>7, <1>8, <1>9, <1>10, <1>11, <1>12, <1>13,
     <1>14, <1>15, <1>16, <1>17, <1>18, <1>19, <1>20, <1>21
     DEF HNext, RegisterSlot, Beat, UnregisterSlot, Scan

(* A pid is in a slot exactly as long as its process has the slot.          *)
LEMMA HNextPidIsOwner == HTypeOK /\ PidIsOwner /\ [HNext]_hvars => PidIsOwner'
<1> SUFFICES ASSUME HTypeOK, PidIsOwner, [HNext]_hvars PROVE PidIsOwner'
  OBVIOUS
<1> USE DEF slots, procs, watchdog, hghosts, hvars, HGo, HAt
<1>1. CASE UNCHANGED hvars
  BY <1>1 DEF PidIsOwner, Owns
<1>2. ASSUME NEW p \in BeatProcs, CallRegister(p) PROVE PidIsOwner'
  BY <1>2, EmptyAssumption DEF HTypeOK, PidIsOwner, Owns, CallRegister
<1>3. ASSUME NEW p \in BeatProcs, RegisterClaim(p) PROVE PidIsOwner'
  BY <1>3, EmptyAssumption DEF HTypeOK, PidIsOwner, Owns, RegisterClaim
<1>4. ASSUME NEW p \in BeatProcs, Bump(p, "r_odd", "r_load") \/ Bump(p, "r_even", "in") PROVE PidIsOwner'
  BY <1>4, EmptyAssumption DEF HTypeOK, PidIsOwner, Owns, Bump
<1>5. ASSUME NEW p \in BeatProcs, Bump(p, "u_odd", "u_bits") \/ Bump(p, "u_even", "out") PROVE PidIsOwner'
  BY <1>5, EmptyAssumption DEF HTypeOK, PidIsOwner, Owns, Bump
<1>6. ASSUME NEW p \in BeatProcs, LoadBeatEpoch(p, "r_load", "r_store") \/ LoadBeatEpoch(p, "in", "b_store") PROVE PidIsOwner'
  BY <1>6, EmptyAssumption DEF HTypeOK, PidIsOwner, Owns, LoadBeatEpoch
<1>7. ASSUME NEW p \in BeatProcs, StoreEpoch(p, "r_store", "r_bits") \/ StoreEpoch(p, "b_store", "in") PROVE PidIsOwner'
  BY <1>7, EmptyAssumption DEF HTypeOK, PidIsOwner, Owns, StoreEpoch
<1>8. ASSUME NEW p \in BeatProcs, ClearBits(p, "r_bits", "r_even") \/ ClearBits(p, "u_bits", "u_pid") PROVE PidIsOwner'
  BY <1>8, EmptyAssumption DEF HTypeOK, PidIsOwner, Owns, ClearBits
<1>9. ASSUME NEW p \in BeatProcs, MarkInFlight(p) PROVE PidIsOwner'
  BY <1>9, EmptyAssumption DEF HTypeOK, PidIsOwner, Owns, MarkInFlight
<1>10. ASSUME NEW p \in BeatProcs, ClearInFlight(p) PROVE PidIsOwner'
  BY <1>10, EmptyAssumption DEF HTypeOK, PidIsOwner, Owns, ClearInFlight
<1>11. ASSUME NEW p \in BeatProcs, CallUnregister(p) PROVE PidIsOwner'
  BY <1>11, EmptyAssumption DEF HTypeOK, PidIsOwner, Owns, CallUnregister
<1>12. ASSUME NEW p \in BeatProcs, UnregisterPid(p) PROVE PidIsOwner'
  BY <1>12, EmptyAssumption DEF HTypeOK, PidIsOwner, Owns, UnregisterPid
<1>13. ASSUME NEW p \in BeatProcs, Die(p) PROVE PidIsOwner'
  BY <1>13, EmptyAssumption DEF HTypeOK, PidIsOwner, Owns, Die
<1>14. CASE Tick
  BY <1>14, EmptyAssumption DEF HTypeOK, PidIsOwner, Owns, Tick, OlderBeat, BeatsInTime
<1>15. CASE SnapVersion
  BY <1>15, EmptyAssumption DEF HTypeOK, PidIsOwner, Owns, SnapVersion
<1>16. CASE SnapPid
  BY <1>16, EmptyAssumption DEF HTypeOK, PidIsOwner, Owns, SnapPid, SnapField
<1>17. CASE SnapLast
  BY <1>17, EmptyAssumption DEF HTypeOK, PidIsOwner, Owns, SnapLast, SnapField
<1>18. CASE SnapBits
  BY <1>18, EmptyAssumption DEF HTypeOK, PidIsOwner, Owns, SnapBits, SnapField
<1>19. CASE SnapRecheck
  BY <1>19, EmptyAssumption DEF HTypeOK, PidIsOwner, Owns, SnapRecheck, Judge, Onward, NoSnap
<1>20. ASSUME NEW r \in dead_slots, ClearDeadBitmap(r) PROVE PidIsOwner'
  BY <1>20, EmptyAssumption DEF HTypeOK, PidIsOwner, Owns, ClearDeadBitmap
<1>21. CASE ScanDone
  BY <1>21, EmptyAssumption DEF HTypeOK, PidIsOwner, Owns, ScanDone
<1> QED
  BY <1>1, <1>2, <1>3, <1>4, <1>5, <1>6, <1>7, <1>8, <1>9, <1>10, <1>11, <1>12, <1>13,
     <1>14, <1>15, <1>16, <1>17, <1>18, <1>19, <1>20, <1>21
     DEF HNext, RegisterSlot, Beat, UnregisterSlot, Scan

(* Only a slot's owner marks work in it, and clears it before leaving.      *)
LEMMA HNextWorkIsOwners == HTypeOK /\ PidIsOwner /\ WorkIsOwners /\ [HNext]_hvars => WorkIsOwners'
<1> SUFFICES ASSUME HTypeOK, PidIsOwner, WorkIsOwners, [HNext]_hvars PROVE WorkIsOwners'
  OBVIOUS
<1> USE DEF slots, procs, watchdog, hghosts, hvars, HGo, HAt
<1>1. CASE UNCHANGED hvars
  BY <1>1 DEF WorkIsOwners, PidIsOwner, Owns
<1>2. ASSUME NEW p \in BeatProcs, CallRegister(p) PROVE WorkIsOwners'
  BY <1>2, EmptyAssumption DEF HTypeOK, WorkIsOwners, PidIsOwner, Owns, CallRegister
<1>3. ASSUME NEW p \in BeatProcs, RegisterClaim(p) PROVE WorkIsOwners'
  BY <1>3, EmptyAssumption DEF HTypeOK, WorkIsOwners, PidIsOwner, Owns, RegisterClaim
<1>4. ASSUME NEW p \in BeatProcs, Bump(p, "r_odd", "r_load") \/ Bump(p, "r_even", "in") PROVE WorkIsOwners'
  BY <1>4, EmptyAssumption DEF HTypeOK, WorkIsOwners, PidIsOwner, Owns, Bump
<1>5. ASSUME NEW p \in BeatProcs, Bump(p, "u_odd", "u_bits") \/ Bump(p, "u_even", "out") PROVE WorkIsOwners'
  BY <1>5, EmptyAssumption DEF HTypeOK, WorkIsOwners, PidIsOwner, Owns, Bump
<1>6. ASSUME NEW p \in BeatProcs, LoadBeatEpoch(p, "r_load", "r_store") \/ LoadBeatEpoch(p, "in", "b_store") PROVE WorkIsOwners'
  BY <1>6, EmptyAssumption DEF HTypeOK, WorkIsOwners, PidIsOwner, Owns, LoadBeatEpoch
<1>7. ASSUME NEW p \in BeatProcs, StoreEpoch(p, "r_store", "r_bits") \/ StoreEpoch(p, "b_store", "in") PROVE WorkIsOwners'
  BY <1>7, EmptyAssumption DEF HTypeOK, WorkIsOwners, PidIsOwner, Owns, StoreEpoch
<1>8. ASSUME NEW p \in BeatProcs, ClearBits(p, "r_bits", "r_even") \/ ClearBits(p, "u_bits", "u_pid") PROVE WorkIsOwners'
  BY <1>8, EmptyAssumption DEF HTypeOK, WorkIsOwners, PidIsOwner, Owns, ClearBits
<1>9. ASSUME NEW p \in BeatProcs, MarkInFlight(p) PROVE WorkIsOwners'
  BY <1>9, EmptyAssumption DEF HTypeOK, WorkIsOwners, PidIsOwner, Owns, MarkInFlight
<1>10. ASSUME NEW p \in BeatProcs, ClearInFlight(p) PROVE WorkIsOwners'
  BY <1>10, EmptyAssumption DEF HTypeOK, WorkIsOwners, PidIsOwner, Owns, ClearInFlight
<1>11. ASSUME NEW p \in BeatProcs, CallUnregister(p) PROVE WorkIsOwners'
  BY <1>11, EmptyAssumption DEF HTypeOK, WorkIsOwners, PidIsOwner, Owns, CallUnregister
<1>12. ASSUME NEW p \in BeatProcs, UnregisterPid(p) PROVE WorkIsOwners'
  BY <1>12, EmptyAssumption DEF HTypeOK, WorkIsOwners, PidIsOwner, Owns, UnregisterPid
<1>13. ASSUME NEW p \in BeatProcs, Die(p) PROVE WorkIsOwners'
  BY <1>13, EmptyAssumption DEF HTypeOK, WorkIsOwners, PidIsOwner, Owns, Die
<1>14. CASE Tick
  BY <1>14, EmptyAssumption DEF HTypeOK, WorkIsOwners, PidIsOwner, Owns, Tick, OlderBeat, BeatsInTime
<1>15. CASE SnapVersion
  BY <1>15, EmptyAssumption DEF HTypeOK, WorkIsOwners, PidIsOwner, Owns, SnapVersion
<1>16. CASE SnapPid
  BY <1>16, EmptyAssumption DEF HTypeOK, WorkIsOwners, PidIsOwner, Owns, SnapPid, SnapField
<1>17. CASE SnapLast
  BY <1>17, EmptyAssumption DEF HTypeOK, WorkIsOwners, PidIsOwner, Owns, SnapLast, SnapField
<1>18. CASE SnapBits
  BY <1>18, EmptyAssumption DEF HTypeOK, WorkIsOwners, PidIsOwner, Owns, SnapBits, SnapField
<1>19. CASE SnapRecheck
  BY <1>19, EmptyAssumption DEF HTypeOK, WorkIsOwners, PidIsOwner, Owns, SnapRecheck, Judge, Onward, NoSnap
<1>20. ASSUME NEW r \in dead_slots, ClearDeadBitmap(r) PROVE WorkIsOwners'
  BY <1>20, EmptyAssumption DEF HTypeOK, WorkIsOwners, PidIsOwner, Owns, ClearDeadBitmap
<1>21. CASE ScanDone
  BY <1>21, EmptyAssumption DEF HTypeOK, WorkIsOwners, PidIsOwner, Owns, ScanDone
<1> QED
  BY <1>1, <1>2, <1>3, <1>4, <1>5, <1>6, <1>7, <1>8, <1>9, <1>10, <1>11, <1>12, <1>13,
     <1>14, <1>15, <1>16, <1>17, <1>18, <1>19, <1>20, <1>21
     DEF HNext, RegisterSlot, Beat, UnregisterSlot, Scan

(* Two owners' marks have a bump of the version between them.               *)
LEMMA HNextSnapshotAgrees == HTypeOK /\ PidIsOwner /\ WorkIsOwners /\ SnapshotAgrees /\ [HNext]_hvars => SnapshotAgrees'
<1> SUFFICES ASSUME HTypeOK, PidIsOwner, WorkIsOwners, SnapshotAgrees, [HNext]_hvars PROVE SnapshotAgrees'
  OBVIOUS
<1> USE DEF slots, procs, watchdog, hghosts, hvars, HGo, HAt
<1>1. CASE UNCHANGED hvars
  BY <1>1 DEF SnapshotAgrees
<1>2. ASSUME NEW p \in BeatProcs, CallRegister(p) PROVE SnapshotAgrees'
  BY <1>2, EmptyAssumption DEF HTypeOK, SnapshotAgrees, CallRegister
<1>3. ASSUME NEW p \in BeatProcs, RegisterClaim(p) PROVE SnapshotAgrees'
  BY <1>3, EmptyAssumption DEF HTypeOK, SnapshotAgrees, RegisterClaim
<1>4. ASSUME NEW p \in BeatProcs, Bump(p, "r_odd", "r_load") \/ Bump(p, "r_even", "in") PROVE SnapshotAgrees'
  <2>1. slot_version[at] \in Nat /\ v1 \in Nat
    BY DEF HTypeOK
  <2>2. CASE idx[p] = at
    <3>1. slot_version'[at] = slot_version[at] + 1
      BY <1>4, <2>2 DEF HTypeOK, Bump
    <3>2. wpc \in {"pid", "last", "bits", "v2"} => v1 < slot_version[at] + 1
      BY <2>1, SMTT(30) DEF SnapshotAgrees
    <3> QED
      BY <1>4, <2>1, <3>1, <3>2 DEF SnapshotAgrees, Bump
  <2>3. CASE idx[p] # at
    <3>1. slot_version'[at] = slot_version[at]
      BY <1>4, <2>3 DEF HTypeOK, Bump
    <3>2. \A q \in BeatProcs : pid[at] = q /\ hpc[q] = "r_odd" => hpc'[q] = "r_odd"
      BY <1>4, <2>3 DEF HTypeOK, PidIsOwner, Owns, Bump
    <3> QED
      BY <1>4, <3>1, <3>2 DEF SnapshotAgrees, Bump
  <2> QED
    BY <2>2, <2>3
<1>5. ASSUME NEW p \in BeatProcs, Bump(p, "u_odd", "u_bits") \/ Bump(p, "u_even", "out") PROVE SnapshotAgrees'
  <2>1. slot_version[at] \in Nat /\ v1 \in Nat
    BY DEF HTypeOK
  <2>2. CASE idx[p] = at
    <3>1. slot_version'[at] = slot_version[at] + 1
      BY <1>5, <2>2 DEF HTypeOK, Bump
    <3>2. wpc \in {"pid", "last", "bits", "v2"} => v1 < slot_version[at] + 1
      BY <2>1, SMTT(30) DEF SnapshotAgrees
    <3> QED
      BY <1>5, <2>1, <3>1, <3>2 DEF SnapshotAgrees, Bump
  <2>3. CASE idx[p] # at
    <3>1. slot_version'[at] = slot_version[at]
      BY <1>5, <2>3 DEF HTypeOK, Bump
    <3>2. \A q \in BeatProcs : pid[at] = q /\ hpc[q] = "r_odd" => hpc'[q] = "r_odd"
      BY <1>5, <2>3 DEF HTypeOK, PidIsOwner, Owns, Bump
    <3> QED
      BY <1>5, <3>1, <3>2 DEF SnapshotAgrees, Bump
  <2> QED
    BY <2>2, <2>3
<1>6. ASSUME NEW p \in BeatProcs, LoadBeatEpoch(p, "r_load", "r_store") \/ LoadBeatEpoch(p, "in", "b_store") PROVE SnapshotAgrees'
  BY <1>6, EmptyAssumption DEF HTypeOK, SnapshotAgrees, LoadBeatEpoch
<1>7. ASSUME NEW p \in BeatProcs, StoreEpoch(p, "r_store", "r_bits") \/ StoreEpoch(p, "b_store", "in") PROVE SnapshotAgrees'
  BY <1>7, EmptyAssumption DEF HTypeOK, SnapshotAgrees, StoreEpoch
<1>8. ASSUME NEW p \in BeatProcs, ClearBits(p, "r_bits", "r_even") \/ ClearBits(p, "u_bits", "u_pid") PROVE SnapshotAgrees'
  BY <1>8, EmptyAssumption DEF HTypeOK, SnapshotAgrees, ClearBits
<1>9. ASSUME NEW p \in BeatProcs, MarkInFlight(p) PROVE SnapshotAgrees'
  BY <1>9, EmptyAssumption DEF HTypeOK, SnapshotAgrees, MarkInFlight
<1>10. ASSUME NEW p \in BeatProcs, ClearInFlight(p) PROVE SnapshotAgrees'
  BY <1>10, EmptyAssumption DEF HTypeOK, SnapshotAgrees, ClearInFlight
<1>11. ASSUME NEW p \in BeatProcs, CallUnregister(p) PROVE SnapshotAgrees'
  BY <1>11, EmptyAssumption DEF HTypeOK, SnapshotAgrees, CallUnregister
<1>12. ASSUME NEW p \in BeatProcs, UnregisterPid(p) PROVE SnapshotAgrees'
  BY <1>12, EmptyAssumption DEF HTypeOK, SnapshotAgrees, UnregisterPid
<1>13. ASSUME NEW p \in BeatProcs, Die(p) PROVE SnapshotAgrees'
  BY <1>13, EmptyAssumption DEF HTypeOK, SnapshotAgrees, Die
<1>14. CASE Tick
  BY <1>14, EmptyAssumption DEF HTypeOK, SnapshotAgrees, Tick, OlderBeat, BeatsInTime
<1>15. CASE SnapVersion
  BY <1>15, EmptyAssumption DEF HTypeOK, SnapshotAgrees, SnapVersion
<1>16. CASE SnapPid
  BY <1>16, EmptyAssumption DEF HTypeOK, SnapshotAgrees, SnapPid, SnapField
<1>17. CASE SnapLast
  BY <1>17, EmptyAssumption DEF HTypeOK, SnapshotAgrees, SnapLast, SnapField
<1>18. CASE SnapBits
  <2>1. /\ wpc = "bits" /\ wpc' = "v2" /\ snap'.bits = in_flight[at] /\ snap'.pid = snap.pid
        /\ UNCHANGED <<slots, at, v1>>
    BY <1>18 DEF HTypeOK, Snapshots, SnapBits, SnapField
  <2>2. ASSUME slot_version[at] = v1 PROVE in_flight[at] \subseteq {snap.pid}
    <3>1. CASE pid[at] = snap.pid
      BY <3>1 DEF WorkIsOwners, HTypeOK
    <3>2. CASE pid[at] = EMPTY_PID
      BY <3>2, EmptyAssumption DEF WorkIsOwners, HTypeOK
    <3>3. CASE \E q \in BeatProcs : pid[at] = q /\ hpc[q] = "r_odd"
      <4>1. PICK q \in BeatProcs : pid[at] = q /\ hpc[q] = "r_odd"
        BY <3>3
      <4>2. idx[q] = at
        BY <4>1 DEF PidIsOwner, Owns, HTypeOK
      <4> QED
        BY <4>1, <4>2 DEF WorkIsOwners
    <3> QED
      BY <2>1, <2>2, <3>1, <3>2, <3>3 DEF SnapshotAgrees
  <2> QED
    BY <2>1, <2>2 DEF SnapshotAgrees
<1>19. CASE SnapRecheck
  BY <1>19, EmptyAssumption DEF HTypeOK, SnapshotAgrees, SnapRecheck, Judge, Onward, NoSnap
<1>20. ASSUME NEW r \in dead_slots, ClearDeadBitmap(r) PROVE SnapshotAgrees'
  BY <1>20, EmptyAssumption DEF HTypeOK, SnapshotAgrees, ClearDeadBitmap
<1>21. CASE ScanDone
  BY <1>21, EmptyAssumption DEF HTypeOK, SnapshotAgrees, ScanDone
<1> QED
  BY <1>1, <1>2, <1>3, <1>4, <1>5, <1>6, <1>7, <1>8, <1>9, <1>10, <1>11, <1>12, <1>13,
     <1>14, <1>15, <1>16, <1>17, <1>18, <1>19, <1>20, <1>21
     DEF HNext, RegisterSlot, Beat, UnregisterSlot, Scan

(* What passes the second look at the version is one process's.             *)
LEMMA HNextReports == HInv /\ [HNext]_hvars => ReportsOwnWork'
<1> SUFFICES ASSUME HInv, [HNext]_hvars PROVE ReportsOwnWork'
  OBVIOUS
<1> USE DEF slots, procs, watchdog, hghosts, hvars, HGo, HAt
<1>1. CASE UNCHANGED hvars
  BY <1>1, Zenon DEF ReportsOwnWork, HInv, SnapshotAgrees
<1>2. ASSUME NEW p \in BeatProcs, CallRegister(p) PROVE ReportsOwnWork'
  BY <1>2 DEF HTypeOK, ReportsOwnWork, HInv, SnapshotAgrees, CallRegister
<1>3. ASSUME NEW p \in BeatProcs, RegisterClaim(p) PROVE ReportsOwnWork'
  BY <1>3 DEF HTypeOK, ReportsOwnWork, HInv, SnapshotAgrees, RegisterClaim
<1>4. ASSUME NEW p \in BeatProcs, Bump(p, "r_odd", "r_load") \/ Bump(p, "r_even", "in") PROVE ReportsOwnWork'
  BY <1>4 DEF HTypeOK, ReportsOwnWork, HInv, SnapshotAgrees, Bump
<1>5. ASSUME NEW p \in BeatProcs, Bump(p, "u_odd", "u_bits") \/ Bump(p, "u_even", "out") PROVE ReportsOwnWork'
  BY <1>5 DEF HTypeOK, ReportsOwnWork, HInv, SnapshotAgrees, Bump
<1>6. ASSUME NEW p \in BeatProcs, LoadBeatEpoch(p, "r_load", "r_store") \/ LoadBeatEpoch(p, "in", "b_store") PROVE ReportsOwnWork'
  BY <1>6 DEF HTypeOK, ReportsOwnWork, HInv, SnapshotAgrees, LoadBeatEpoch
<1>7. ASSUME NEW p \in BeatProcs, StoreEpoch(p, "r_store", "r_bits") \/ StoreEpoch(p, "b_store", "in") PROVE ReportsOwnWork'
  BY <1>7 DEF HTypeOK, ReportsOwnWork, HInv, SnapshotAgrees, StoreEpoch
<1>8. ASSUME NEW p \in BeatProcs, ClearBits(p, "r_bits", "r_even") \/ ClearBits(p, "u_bits", "u_pid") PROVE ReportsOwnWork'
  BY <1>8 DEF HTypeOK, ReportsOwnWork, HInv, SnapshotAgrees, ClearBits
<1>9. ASSUME NEW p \in BeatProcs, MarkInFlight(p) PROVE ReportsOwnWork'
  BY <1>9 DEF HTypeOK, ReportsOwnWork, HInv, SnapshotAgrees, MarkInFlight
<1>10. ASSUME NEW p \in BeatProcs, ClearInFlight(p) PROVE ReportsOwnWork'
  BY <1>10 DEF HTypeOK, ReportsOwnWork, HInv, SnapshotAgrees, ClearInFlight
<1>11. ASSUME NEW p \in BeatProcs, CallUnregister(p) PROVE ReportsOwnWork'
  BY <1>11 DEF HTypeOK, ReportsOwnWork, HInv, SnapshotAgrees, CallUnregister
<1>12. ASSUME NEW p \in BeatProcs, UnregisterPid(p) PROVE ReportsOwnWork'
  BY <1>12 DEF HTypeOK, ReportsOwnWork, HInv, SnapshotAgrees, UnregisterPid
<1>13. ASSUME NEW p \in BeatProcs, Die(p) PROVE ReportsOwnWork'
  BY <1>13 DEF HTypeOK, ReportsOwnWork, HInv, SnapshotAgrees, Die
<1>14. CASE Tick
  BY <1>14 DEF HTypeOK, ReportsOwnWork, HInv, SnapshotAgrees, Tick, OlderBeat, BeatsInTime
<1>15. CASE SnapVersion
  BY <1>15 DEF HTypeOK, ReportsOwnWork, HInv, SnapshotAgrees, SnapVersion
<1>16. CASE SnapPid
  BY <1>16 DEF HTypeOK, ReportsOwnWork, HInv, SnapshotAgrees, SnapPid, SnapField
<1>17. CASE SnapLast
  BY <1>17 DEF HTypeOK, ReportsOwnWork, HInv, SnapshotAgrees, SnapLast, SnapField
<1>18. CASE SnapBits
  BY <1>18 DEF HTypeOK, ReportsOwnWork, HInv, SnapshotAgrees, SnapBits, SnapField
<1>19. CASE SnapRecheck
  BY <1>19 DEF HTypeOK, ReportsOwnWork, HInv, SnapshotAgrees, SnapRecheck, Judge, Onward, NoSnap
<1>20. ASSUME NEW r \in dead_slots, ClearDeadBitmap(r) PROVE ReportsOwnWork'
  BY <1>20 DEF HTypeOK, ReportsOwnWork, HInv, SnapshotAgrees, ClearDeadBitmap
<1>21. CASE ScanDone
  BY <1>21 DEF HTypeOK, ReportsOwnWork, HInv, SnapshotAgrees, ScanDone
<1> QED
  BY <1>1, <1>2, <1>3, <1>4, <1>5, <1>6, <1>7, <1>8, <1>9, <1>10, <1>11, <1>12, <1>13,
     <1>14, <1>15, <1>16, <1>17, <1>18, <1>19, <1>20, <1>21
     DEF HNext, RegisterSlot, Beat, UnregisterSlot, Scan

(* The invariant holds in every behaviour.                                  *)
THEOREM HeartbeatInductive == HSpec => []HInv
<1>1. HInv /\ [HNext]_hvars => HInv'
  BY HNextTypeOK, HNextPidIsOwner, HNextWorkIsOwners, HNextSnapshotAgrees, HNextReports DEF HInv
<1> QED
  BY <1>1, HInitInv, PTL DEF HSpec

(* A slot has one owner from its CAS in register until unregister stores    *)
(* the empty pid, and its pid names the owner.                              *)
THEOREM HeartbeatSlotHasOneOwner == HSpec => []SlotHasOneOwner
<1>1. HInv => SlotHasOneOwner
  <2> SUFFICES ASSUME HInv, NEW i \in Slots
               PROVE  {p \in BeatProcs : Owns(p, i)} = {pid[i]} \ {EMPTY_PID}
    BY DEF SlotHasOneOwner
  <2>1. pid[i] \in BeatProcs \cup {EMPTY_PID} /\ \A p \in BeatProcs : Owns(p, i) <=> pid[i] = p
    BY DEF HInv, HTypeOK, PidIsOwner
  <2> QED
    BY <2>1, EmptyAssumption
<1> QED
  BY <1>1, HeartbeatInductive, PTL

(* A report never lays one process's work at another's door, wherever a     *)
(* process dies: the version tells the watchdog's snapshot of every change  *)
(* of owner that could have marked work.                                    *)
THEOREM HeartbeatReportsOwnWork == HSpec => []ReportsOwnWork
<1>1. HInv => ReportsOwnWork
  BY DEF HInv
<1> QED
  BY <1>1, HeartbeatInductive, PTL

-----------------------------------------------------------------------------
INSTANCE FiniteSetTheorems

(* SharedRWLock *)

RLabels == {"reading", "rel_load", "rel_cas"}
GLabels == {"g_load", "g_cas"}
WLabels == {"writing"}

(* The sets of threads that the word counts are finite.                     *)
LEMMA HoldersFinite ==
    /\ IsFiniteSet(ReadHolders) /\ Cardinality(ReadHolders) \in Nat
    /\ IsFiniteSet(Registered) /\ Cardinality(Registered) \in Nat
BY ThreadsAssumption, FS_Subset, FS_CardinalityType DEF ReadHolders, Registered

(* Removing an element of a finite set.                                     *)
LEMMA CardRemove ==
    ASSUME NEW S, IsFiniteSet(S), NEW x \in S
    PROVE  Cardinality(S \ {x}) = Cardinality(S) - 1 /\ Cardinality(S) > 0
<1>1. Cardinality(S) \in Nat /\ Cardinality(S) # 0
  BY FS_CardinalityType, FS_EmptySet
<1> QED
  BY <1>1, FS_RemoveElement

(* No thread holds or is registered in the beginning.                       *)
LEMMA InitInductive == Init => Inductive
<1> SUFFICES ASSUME Init PROVE Inductive
  OBVIOUS
<1>1. ReadHolders = {} /\ WriteHolders = {} /\ Registered = {}
  BY DEF Init, ReadHolders, WriteHolders, Registered
<1>2. Cardinality({}) = 0
  BY FS_EmptySet
<1>3. TypeOK
  BY DEF Init, TypeOK, Words, Idle, States
<1> QED
  BY <1>1, <1>2, <1>3 DEF Init, Inductive, WordIsAccurate, Exclusion, Idle

(* No reader counted means no reader.                                       *)
LEMMA NoReaders ==
    ASSUME TypeOK, WordIsAccurate, word.readers = 0
    PROVE  ReadHolders = {}
BY HoldersFinite, FS_EmptySet, Zenon DEF WordIsAccurate

(* The parts of Inductive about what the loops have loaded survive a step   *)
(* of t that leaves the others' loaded words and labels alone.              *)
SeenOK(f, see, t) ==
    /\ f[t] = "r_cas" => ~see[t].writer /\ see[t].waiting = 0
    /\ f[t] = "rel_cas" => see[t].readers > 0
    /\ f[t] \in {"w_cas", "g_cas"} => ~see[t].writer /\ see[t].readers = 0

(* The inductive invariant, with what pending CASes remember by thread.     *)
LEMMA InductiveIs ==
    Inductive <=> TypeOK /\ WordIsAccurate /\ Exclusion /\ \A t \in Threads : SeenOK(pc, seen, t)
BY DEF Inductive, SeenOK

(* Every step preserves the invariant.  The steps that take or give back    *)
(* the lock or a registration move the stepping thread between the sets     *)
(* the word counts; the others move it within them.                         *)
LEMMA NextInductive == Inductive /\ [Next]_vars => Inductive'
<1> SUFFICES ASSUME Inductive, [Next]_vars PROVE Inductive'
  OBVIOUS
<1> USE DEF SeenOK
<1>0. TypeOK /\ WordIsAccurate /\ Exclusion /\ \A t \in Threads : SeenOK(pc, seen, t)
  BY InductiveIs
<1>1. CASE UNCHANGED vars
  BY <1>0, <1>1 DEF vars, Inductive, TypeOK, WordIsAccurate, Exclusion,
                    ReadHolders, WriteHolders, Registered
<1>2. ASSUME NEW t \in Threads, NEW s \in States, Go(t, s),
             UNCHANGED word, seen' = seen \/ See(t),
             \/ pc[t] \in RLabels /\ s \in RLabels
             \/ pc[t] \in GLabels /\ s \in GLabels
             \/ pc[t] \notin (RLabels \cup GLabels \cup WLabels)
                  /\ s \notin (RLabels \cup GLabels \cup WLabels),
             SeenOK(pc', seen', t)
      PROVE  Inductive'
  <2>1. TypeOK'
    BY <1>0, <1>2 DEF TypeOK, Go, See
  <2>2. ReadHolders' = ReadHolders /\ WriteHolders' = WriteHolders /\ Registered' = Registered
    BY <1>0, <1>2 DEF ReadHolders, WriteHolders, Registered, RLabels, GLabels, WLabels, Go, TypeOK
  <2>3. WordIsAccurate' /\ Exclusion'
    BY <1>0, <1>2, <2>2 DEF WordIsAccurate, Exclusion
  <2>4. \A u \in Threads : SeenOK(pc', seen', u)
    BY <1>0, <1>2 DEF Go, See, TypeOK
  <2> QED
    BY <2>1, <2>3, <2>4 DEF Inductive
<1> DEFINE Quiet(t, s) ==
             /\ Go(t, s) /\ UNCHANGED word /\ (seen' = seen \/ See(t))
             /\ \/ pc[t] \in RLabels /\ s \in RLabels
                \/ pc[t] \in GLabels /\ s \in GLabels
                \/ pc[t] \notin (RLabels \cup GLabels \cup WLabels)
                     /\ s \notin (RLabels \cup GLabels \cup WLabels)
             /\ SeenOK(pc', seen', t)
<1>3. ASSUME NEW t \in Threads, NEW s \in States, Quiet(t, s) PROVE Inductive'
  BY <1>2, <1>3
<1> HIDE DEF SeenOK
<1>4. ASSUME NEW t \in Threads, CallRead(t) PROVE Inductive'
  <2>1. Quiet(t, "r_load")
    BY <1>0, <1>4 DEF CallRead, Go, See, SeenOK, TypeOK, Words, RLabels, GLabels, WLabels
  <2> QED
    BY <1>3, <2>1 DEF States
<1>5. ASSUME NEW t \in Threads, ReadLoad(t) PROVE Inductive'
  <2>1. CASE word.writer \/ word.waiting > 0
    <3>1. Quiet(t, "idle")
      BY <1>0, <1>5, <2>1, Zenon DEF ReadLoad, Go, See, SeenOK, TypeOK, Words, RLabels, GLabels, WLabels
    <3> QED
      BY <1>3, <3>1 DEF States
  <2>2. CASE ~(word.writer \/ word.waiting > 0)
    <3>1. Quiet(t, "r_cas")
      BY <1>0, <1>5, <2>2 DEF ReadLoad, Go, See, SeenOK, TypeOK, Words, RLabels, GLabels, WLabels
    <3> QED
      BY <1>3, <3>1 DEF States
  <2> QED
    BY <2>1, <2>2
<1>6. ASSUME NEW t \in Threads, DropReadGuard(t) PROVE Inductive'
  <2>1. Quiet(t, "rel_load")
    BY <1>0, <1>6 DEF DropReadGuard, Go, See, SeenOK, TypeOK, Words, RLabels, GLabels, WLabels
  <2> QED
    BY <1>3, <2>1 DEF States
<1>7. ASSUME NEW t \in Threads, CallTryWrite(t) PROVE Inductive'
  <2>1. Quiet(t, "w_load")
    BY <1>0, <1>7 DEF CallTryWrite, Go, See, SeenOK, TypeOK, Words, RLabels, GLabels, WLabels
  <2> QED
    BY <1>3, <2>1 DEF States
<1>8. ASSUME NEW t \in Threads, WriteLoad(t) PROVE Inductive'
  <2>1. CASE Held
    <3>1. Quiet(t, "idle")
      BY <1>0, <1>8, <2>1, Zenon DEF WriteLoad, Go, See, SeenOK, TypeOK, Words, RLabels, GLabels, WLabels, Held
    <3> QED
      BY <1>3, <3>1 DEF States
  <2>2. CASE ~(Held)
    <3>1. Quiet(t, "w_cas")
      BY <1>0, <1>8, <2>2 DEF WriteLoad, Go, See, SeenOK, TypeOK, Words, RLabels, GLabels, WLabels, Held
    <3> QED
      BY <1>3, <3>1 DEF States
  <2> QED
    BY <2>1, <2>2
<1>9. ASSUME NEW t \in Threads, RegisteredLoad(t) PROVE Inductive'
  <2>1. Quiet(t, "g_cas")
    BY <1>0, <1>9 DEF RegisteredLoad, Go, See, SeenOK, TypeOK, Words, RLabels, GLabels, WLabels, Held
  <2> QED
    BY <1>3, <2>1 DEF States
<1>10. ASSUME NEW t \in Threads, NEW s \in {"idle", "reading", "writing", "g_load"}, Go(t, s),
              UNCHANGED seen, word' \in Words, WordIsAccurate', Exclusion'
       PROVE  Inductive'
  <2>1. TypeOK'
    BY <1>0, <1>10 DEF TypeOK, Go, States
  <2>2. \A u \in Threads : SeenOK(pc', seen', u)
    BY <1>0, <1>10 DEF Go, TypeOK, SeenOK
  <2> QED
    BY <1>10, <2>1, <2>2 DEF Inductive, SeenOK
<1>11. ASSUME NEW t \in Threads, ReadCas(t) PROVE Inductive'
  <2>1. CASE word # seen[t]
    <3>1. Quiet(t, "r_load")
      BY <1>0, <1>11, <2>1 DEF ReadCas, Cas, Go, See, SeenOK, TypeOK, Words, RLabels, GLabels, WLabels
    <3> QED
      BY <1>3, <3>1 DEF States
  <2>2. CASE word = seen[t]
    <3>1. /\ pc[t] = "r_cas" /\ Go(t, "reading") /\ UNCHANGED seen
          /\ word' = [word EXCEPT !.readers = @ + 1]
      BY <1>0, <1>11, <2>2 DEF ReadCas, Cas, Go
    <3>2. /\ ReadHolders' = ReadHolders \cup {t}
          /\ WriteHolders' = WriteHolders
          /\ Registered' = Registered
          /\ t \notin ReadHolders
      BY <1>0, <3>1 DEF Go, TypeOK, ReadHolders, WriteHolders, Registered
    <3>3. Cardinality(ReadHolders') = Cardinality(ReadHolders) + 1
      BY <3>2, HoldersFinite, FS_AddElement, CardRemove
    <3>4. /\ Cardinality(ReadHolders) \in Nat /\ Cardinality(Registered) \in Nat
          /\ word \in Words
      BY <1>0 DEF TypeOK, WordIsAccurate, Words
    <3>5. word' \in Words
      BY <1>0, <3>1, <3>4 DEF Words, WordIsAccurate
    <3>7. WordIsAccurate'
      BY <1>0, <3>1, <3>2, <3>3, <3>4 DEF WordIsAccurate, Words, Exclusion
    <3>8. Exclusion'
      BY <1>0, <3>1, <3>2, <3>4, NoReaders, <2>2 DEF Exclusion, WordIsAccurate, SeenOK, Words
    <3> QED
      BY <1>10, <3>1, <3>5, <3>7, <3>8
  <2> QED
    BY <2>1, <2>2
<1>12. ASSUME NEW t \in Threads, ReleaseCas(t) PROVE Inductive'
  <2>1. CASE word # seen[t]
    <3>1. Quiet(t, "rel_load")
      BY <1>0, <1>12, <2>1 DEF ReleaseCas, Cas, Go, See, SeenOK, TypeOK, Words, RLabels, GLabels, WLabels
    <3> QED
      BY <1>3, <3>1 DEF States
  <2>2. CASE word = seen[t]
    <3>1. /\ pc[t] = "rel_cas" /\ Go(t, "idle") /\ UNCHANGED seen
          /\ word' = [word EXCEPT !.readers = @ - 1]
      BY <1>0, <1>12, <2>2 DEF ReleaseCas, Cas, Go
    <3>2. /\ ReadHolders' = ReadHolders \ {t}
          /\ WriteHolders' = WriteHolders
          /\ Registered' = Registered
          /\ t \in ReadHolders
      BY <1>0, <3>1 DEF Go, TypeOK, ReadHolders, WriteHolders, Registered
    <3>3. Cardinality(ReadHolders') = Cardinality(ReadHolders) - 1
      BY <3>2, HoldersFinite, FS_AddElement, CardRemove
    <3>4. /\ Cardinality(ReadHolders) \in Nat /\ Cardinality(Registered) \in Nat
          /\ word \in Words
      BY <1>0 DEF TypeOK, WordIsAccurate, Words
    <3>6. Cardinality(ReadHolders) > 0
      BY <3>2, HoldersFinite, FS_AddElement, CardRemove
    <3>5. word' \in Words
      BY <1>0, <3>1, <3>4, <3>6 DEF Words, WordIsAccurate
    <3>7. WordIsAccurate'
      BY <1>0, <3>1, <3>2, <3>3, <3>4 DEF WordIsAccurate, Words, Exclusion
    <3>8. Exclusion'
      BY <1>0, <3>1, <3>2, <3>4, NoReaders DEF Exclusion, WordIsAccurate, SeenOK, Words
    <3> QED
      BY <1>10, <3>1, <3>5, <3>7, <3>8
  <2> QED
    BY <2>1, <2>2
<1>13. ASSUME NEW t \in Threads, WriteCas(t) PROVE Inductive'
  <2>1. CASE word # seen[t]
    <3>1. Quiet(t, "w_load")
      BY <1>0, <1>13, <2>1 DEF WriteCas, Cas, Go, See, SeenOK, TypeOK, Words, RLabels, GLabels, WLabels
    <3> QED
      BY <1>3, <3>1 DEF States
  <2>2. CASE word = seen[t]
    <3>1. /\ pc[t] = "w_cas" /\ Go(t, "writing") /\ UNCHANGED seen
          /\ word' = [word EXCEPT !.writer = TRUE]
      BY <1>0, <1>13, <2>2 DEF WriteCas, Cas, Go
    <3>2. /\ ReadHolders' = ReadHolders
          /\ WriteHolders' = WriteHolders \cup {t}
          /\ Registered' = Registered
          /\ t \notin WriteHolders
      BY <1>0, <3>1 DEF Go, TypeOK, ReadHolders, WriteHolders, Registered
    <3>4. /\ Cardinality(ReadHolders) \in Nat /\ Cardinality(Registered) \in Nat
          /\ word \in Words
      BY <1>0 DEF TypeOK, WordIsAccurate, Words
    <3>5. word' \in Words
      BY <1>0, <3>1, <3>4, Zenon DEF Words, WordIsAccurate
    <3>7. WordIsAccurate'
      BY <1>0, <3>1, <3>2, <3>4 DEF WordIsAccurate, Words, Exclusion
    <3>8. Exclusion'
      BY <1>0, <3>1, <3>2, <3>4, NoReaders, <2>2 DEF Exclusion, WordIsAccurate, SeenOK, Words
    <3> QED
      BY <1>10, <3>1, <3>5, <3>7, <3>8
  <2> QED
    BY <2>1, <2>2
<1>14. ASSUME NEW t \in Threads, RegisteredCas(t) PROVE Inductive'
  <2>1. CASE word # seen[t]
    <3>1. Quiet(t, "g_load")
      BY <1>0, <1>14, <2>1 DEF RegisteredCas, Cas, Go, See, SeenOK, TypeOK, Words, RLabels, GLabels, WLabels
    <3> QED
      BY <1>3, <3>1 DEF States
  <2>2. CASE word = seen[t]
    <3>1. /\ pc[t] = "g_cas" /\ Go(t, "writing") /\ UNCHANGED seen
          /\ word' = [word EXCEPT !.writer = TRUE, !.waiting = @ - 1]
      BY <1>0, <1>14, <2>2 DEF RegisteredCas, Cas, Go
    <3>2. /\ ReadHolders' = ReadHolders
          /\ WriteHolders' = WriteHolders \cup {t}
          /\ Registered' = Registered \ {t}
          /\ t \notin WriteHolders /\ t \in Registered
      BY <1>0, <3>1 DEF Go, TypeOK, ReadHolders, WriteHolders, Registered
    <3>3. Cardinality(Registered') = Cardinality(Registered) - 1
      BY <3>2, HoldersFinite, FS_AddElement, CardRemove
    <3>4. /\ Cardinality(ReadHolders) \in Nat /\ Cardinality(Registered) \in Nat
          /\ word \in Words
      BY <1>0 DEF TypeOK, WordIsAccurate, Words
    <3>6. Cardinality(Registered) > 0
      BY <3>2, HoldersFinite, FS_AddElement, CardRemove
    <3>5. word' \in Words
      <4>1. word.waiting - 1 \in Nat /\ word.readers \in Nat
        BY <1>0, <3>4, <3>6 DEF Words, WordIsAccurate
      <4>2. word' = [writer |-> TRUE, waiting |-> word.waiting - 1, readers |-> word.readers]
        BY <3>1, <3>4, Zenon DEF Words
      <4> QED
        BY <4>1, <4>2 DEF Words
    <3>7. WordIsAccurate'
      BY <1>0, <3>1, <3>2, <3>3, <3>4 DEF WordIsAccurate, Words, Exclusion
    <3>8. Exclusion'
      BY <1>0, <3>1, <3>2, <3>4, NoReaders, <2>2 DEF Exclusion, WordIsAccurate, SeenOK, Words
    <3> QED
      BY <1>10, <3>1, <3>5, <3>7, <3>8
  <2> QED
    BY <2>1, <2>2
<1>15. ASSUME NEW t \in Threads, Register(t) PROVE Inductive'
  <2>1. /\ pc[t] = "idle" /\ Go(t, "g_load") /\ UNCHANGED seen
        /\ word' = [word EXCEPT !.waiting = @ + 1]
    BY <1>0, <1>15 DEF Register, Go
  <2>2. /\ ReadHolders' = ReadHolders
        /\ WriteHolders' = WriteHolders
        /\ Registered' = Registered \cup {t}
        /\ t \notin Registered
    BY <1>0, <2>1 DEF Go, TypeOK, ReadHolders, WriteHolders, Registered
  <2>3. Cardinality(Registered') = Cardinality(Registered) + 1
    BY <2>2, HoldersFinite, FS_AddElement, CardRemove
  <2>4. /\ Cardinality(ReadHolders) \in Nat /\ Cardinality(Registered) \in Nat
        /\ word \in Words
    BY <1>0 DEF TypeOK, WordIsAccurate, Words
  <2>5. word' \in Words
    BY <1>0, <2>1, <2>4 DEF Words, WordIsAccurate
  <2>7. WordIsAccurate'
    BY <1>0, <2>1, <2>2, <2>3, <2>4 DEF WordIsAccurate, Words, Exclusion
  <2>8. Exclusion'
    BY <1>0, <2>1, <2>2, <2>4, NoReaders DEF Exclusion, WordIsAccurate, SeenOK, Words
  <2> QED
    BY <1>10, <2>1, <2>5, <2>7, <2>8
<1>16. ASSUME NEW t \in Threads, Unregister(t) PROVE Inductive'
  <2>1. /\ pc[t] = "g_load" /\ Go(t, "idle") /\ UNCHANGED seen
        /\ word' = [word EXCEPT !.waiting = @ - 1]
    BY <1>0, <1>16 DEF Unregister, Go
  <2>2. /\ ReadHolders' = ReadHolders
        /\ WriteHolders' = WriteHolders
        /\ Registered' = Registered \ {t}
        /\ t \in Registered
    BY <1>0, <2>1 DEF Go, TypeOK, ReadHolders, WriteHolders, Registered
  <2>3. Cardinality(Registered') = Cardinality(Registered) - 1
    BY <2>2, HoldersFinite, FS_AddElement, CardRemove
  <2>4. /\ Cardinality(ReadHolders) \in Nat /\ Cardinality(Registered) \in Nat
        /\ word \in Words
    BY <1>0 DEF TypeOK, WordIsAccurate, Words
  <2>6. Cardinality(Registered) > 0
    BY <2>2, HoldersFinite, FS_AddElement, CardRemove
  <2>5. word' \in Words
    BY <1>0, <2>1, <2>4, <2>6 DEF Words, WordIsAccurate
  <2>7. WordIsAccurate'
    BY <1>0, <2>1, <2>2, <2>3, <2>4 DEF WordIsAccurate, Words, Exclusion
  <2>8. Exclusion'
    BY <1>0, <2>1, <2>2, <2>4, NoReaders DEF Exclusion, WordIsAccurate, SeenOK, Words
  <2> QED
    BY <1>10, <2>1, <2>5, <2>7, <2>8
<1>17. ASSUME NEW t \in Threads, ReleaseWrite(t) PROVE Inductive'
  <2>1. /\ pc[t] = "writing" /\ Go(t, "idle") /\ UNCHANGED seen
        /\ word' = [word EXCEPT !.writer = FALSE]
    BY <1>0, <1>17 DEF ReleaseWrite, Go
  <2>2. /\ ReadHolders' = ReadHolders
        /\ WriteHolders' = WriteHolders \ {t}
        /\ Registered' = Registered
        /\ t \in WriteHolders
    BY <1>0, <2>1 DEF Go, TypeOK, ReadHolders, WriteHolders, Registered
  <2>4. /\ Cardinality(ReadHolders) \in Nat /\ Cardinality(Registered) \in Nat
        /\ word \in Words
    BY <1>0 DEF TypeOK, WordIsAccurate, Words
  <2>5. word' \in Words
    BY <1>0, <2>1, <2>4, Zenon DEF Words, WordIsAccurate
  <2>7. WordIsAccurate'
    BY <1>0, <2>1, <2>2, <2>4 DEF WordIsAccurate, Words, Exclusion
  <2>8. Exclusion'
    BY <1>0, <2>1, <2>2, <2>4, NoReaders DEF Exclusion, WordIsAccurate, SeenOK, Words
  <2> QED
    BY <1>10, <2>1, <2>5, <2>7, <2>8
<1>18. ASSUME NEW t \in Threads, ReleaseLoad(t) PROVE Inductive'
  <2>1. word \in Words /\ word.readers # 0 /\ word.readers > 0
    <3>1. t \in ReadHolders
      BY <1>18 DEF ReleaseLoad, ReadHolders
    <3> QED
      BY <1>0, <3>1, NoReaders DEF TypeOK, Words
  <2>2. Quiet(t, "rel_cas")
    BY <1>0, <1>18, <2>1 DEF ReleaseLoad, Go, See, SeenOK, TypeOK, RLabels, GLabels, WLabels
  <2> QED
    BY <1>3, <2>2 DEF States
<1> QED
  BY <1>1, <1>4, <1>5, <1>6, <1>7, <1>8, <1>9, <1>11, <1>12, <1>13, <1>14, <1>15, <1>16,
     <1>17, <1>18 DEF Next, Read, Write, Release

(* The invariant holds always, whatever the threads do.                     *)
THEOREM RWLockInductive == Spec => []Inductive
BY InitInductive, NextInductive, PTL DEF Spec

(* Readers and writers exclude each other as the module promises.           *)
THEOREM RWLockExclusion == Spec => []Exclusion
<1>1. Inductive => Exclusion
  BY DEF Inductive
<1> QED
  BY <1>1, RWLockInductive, PTL

(* The state word counts the guards and registrations that exist.           *)
THEOREM RWLockWordIsAccurate == Spec => []WordIsAccurate
<1>1. Inductive => WordIsAccurate
  BY DEF Inductive
<1> QED
  BY <1>1, RWLockInductive, PTL

(* Only ReadCas admits a reader, and it finds the word it has loaded, in    *)
(* which no writer is waiting: nobody is registered at that moment.         *)
LEMMA NextPriority ==
    ASSUME Inductive, [Next]_vars
    PROVE  \A t \in Threads : t \notin ReadHolders /\ t \in ReadHolders' => Registered = {}
<1> SUFFICES ASSUME NEW t \in Threads, t \notin ReadHolders, t \in ReadHolders'
             PROVE  Registered = {}
  OBVIOUS
<1>1. pc[t] \notin RLabels /\ pc'[t] \in RLabels
  BY DEF ReadHolders, RLabels
<1>2. pc \in [Threads -> States]
  BY DEF Inductive, TypeOK
<1>3. pc[t] = "r_cas" /\ word = seen[t]
  BY <1>1, <1>2, Zenon DEF Next, vars, Read, Write, Release, CallRead, ReadLoad, ReadCas, DropReadGuard,
      ReleaseLoad, ReleaseCas, CallTryWrite, WriteLoad, WriteCas, Register, RegisteredLoad,
      RegisteredCas, Unregister, ReleaseWrite, Cas, Go, RLabels
<1>4. word.waiting = 0
  BY <1>3 DEF Inductive
<1>5. Cardinality(Registered) = 0
  BY <1>4 DEF Inductive, WordIsAccurate
<1> QED
  BY <1>5, HoldersFinite, FS_EmptySet

(* Writer priority: a waiting writer holds new readers off.                 *)
THEOREM RWLockWriterPriority == Spec => WriterPriority
<1>1. Inductive /\ [Next]_vars
        => [\A t \in Threads : t \notin ReadHolders /\ t \in ReadHolders' => Registered = {}]_vars
  BY NextPriority
<1> QED
  BY <1>1, RWLockInductive, PTL DEF Spec, WriterPriority
=============================================================================
