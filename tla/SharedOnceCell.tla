--------------------------- MODULE SharedOnceCell ---------------------------
(***************************************************************************)
(* SharedOnceCellDyn (shared_once_cell.rs): a cell whose value is claimed, *)
(* produced and published by one process and waited for by the others.  A  *)
(* claim carries the pid of its process, so that the claim of a process    *)
(* that has died can be broken by reclaim.                                 *)
(*                                                                         *)
(* Every atomic access of claim, publish, try_get and reclaim is a step,   *)
(* and so is publish's copy of the value, which is named by the process    *)
(* that produced it.  A process may die at any step.  process_alive is     *)
(* taken to be exact: pids are not reused.                                 *)
(***************************************************************************)
EXTENDS Naturals, FiniteSets

CONSTANTS Procs,
          Reclaimers,     \* processes that call reclaim
          MaxDeaths,      \* bound: processes that die
          NoPid, NoValue

ASSUME ReclaimersAssumption == Reclaimers \subseteq Procs
ASSUME MaxDeathsAssumption == MaxDeaths \in Nat
ASSUME FreshAssumption == NoPid \notin Procs /\ NoValue \notin Procs

VARIABLES state, claimant_pid, payload,
          opc,
          got,        \* per process: the value try_get has given it
          dead

cell == <<state, claimant_pid, payload>>
ovars == <<cell, opc, got, dead>>

(* The processes that believe they are to produce the value.                *)
Producing == {p \in Procs \ dead :
                opc[p] \in {"stamp", "produce", "check_state", "check_pid", "copy",
                           "unstamp", "store"}}

(* create: the zeroed region *)
OInit ==
    /\ state = "EMPTY" /\ claimant_pid = NoPid /\ payload = NoValue
    /\ opc = [p \in Procs |-> "idle"]
    /\ got = [p \in Procs |-> NoValue]
    /\ dead = {}

At(p, s) == opc[p] = s /\ p \notin dead
OGo(p, s) == opc' = [opc EXCEPT ![p] = s]

-----------------------------------------------------------------------------

(* claim: the CAS; the loser goes to wait for the winner's value.           *)
Claim(p) ==
    /\ At(p, "idle")
    /\ \/ state = "EMPTY" /\ state' = "INITIALIZING" /\ OGo(p, "stamp")
       \/ state # "EMPTY" /\ OGo(p, "wait") /\ UNCHANGED state
    /\ UNCHANGED <<claimant_pid, payload, got, dead>>

Stamp(p) ==
    /\ At(p, "stamp")
    /\ claimant_pid' = p
    /\ OGo(p, "produce")
    /\ UNCHANGED <<state, payload, got, dead>>

(* The caller produces the value and calls publish.                         *)
CallPublish(p) ==
    /\ At(p, "produce")
    /\ OGo(p, "check_state")
    /\ UNCHANGED <<cell, got, dead>>

PublishCheckState(p) ==
    /\ At(p, "check_state")
    /\ OGo(p, IF state = "INITIALIZING" THEN "check_pid" ELSE "refused")
    /\ UNCHANGED <<cell, got, dead>>

PublishCheckPid(p) ==
    /\ At(p, "check_pid")
    /\ OGo(p, IF claimant_pid = p THEN "copy" ELSE "refused")
    /\ UNCHANGED <<cell, got, dead>>

PublishCopy(p) ==
    /\ At(p, "copy")
    /\ payload' = p
    /\ OGo(p, "unstamp")
    /\ UNCHANGED <<state, claimant_pid, got, dead>>

PublishUnstamp(p) ==
    /\ At(p, "unstamp")
    /\ claimant_pid' = NoPid
    /\ OGo(p, "store")
    /\ UNCHANGED <<state, payload, got, dead>>

PublishStore(p) ==
    /\ At(p, "store")
    /\ state' = "INITIALIZED"
    /\ OGo(p, "wait")
    /\ UNCHANGED <<claimant_pid, payload, got, dead>>

-----------------------------------------------------------------------------
(* wait: try_get until it has the value.  Where the claimant is gone, wait  *)
(* says so and a caller that reclaims does; where it is not, the caller     *)
(* asks again.                                                              *)
TryGet(p) ==
    /\ At(p, "wait") /\ state = "INITIALIZED"
    /\ OGo(p, "read")
    /\ UNCHANGED <<cell, got, dead>>

TryGetCopy(p) ==
    /\ At(p, "read")
    /\ got' = [got EXCEPT ![p] = payload]
    /\ OGo(p, "wait")
    /\ UNCHANGED <<cell, dead>>

(* The claim was broken: the caller starts over.                            *)
ClaimAgain(p) ==
    /\ At(p, "wait") /\ state = "EMPTY"
    /\ OGo(p, "idle")
    /\ UNCHANGED <<cell, got, dead>>

(* reclaim: the state, the pid and whether it is alive, the CAS, the pid    *)
(* again.                                                                   *)
ReclaimState(p) ==
    /\ At(p, "wait") /\ p \in Reclaimers /\ state = "INITIALIZING"
    /\ OGo(p, "found")
    /\ UNCHANGED <<cell, got, dead>>

(* As ReclaimPid would be if it did not ask whether the process is alive.   *)
ReclaimPidAlive(p) ==
    /\ At(p, "found")
    /\ OGo(p, IF claimant_pid # NoPid THEN "break" ELSE "wait")
    /\ UNCHANGED <<cell, got, dead>>

ReclaimPid(p) ==
    /\ At(p, "found")
    /\ OGo(p, IF claimant_pid \in dead THEN "break" ELSE "wait")
    /\ UNCHANGED <<cell, got, dead>>

(* As ReclaimBreak would be if the exchange left the claim in place.        *)
ReclaimBreakKept(p) ==
    /\ At(p, "break")
    /\ OGo(p, IF state = "INITIALIZING" THEN "wipe" ELSE "wait")
    /\ UNCHANGED <<cell, got, dead>>

ReclaimBreak(p) ==
    /\ At(p, "break")
    /\ IF state = "INITIALIZING" THEN state' = "EMPTY" /\ OGo(p, "wipe")
                                 ELSE OGo(p, "wait") /\ UNCHANGED state
    /\ UNCHANGED <<claimant_pid, payload, got, dead>>

ReclaimWipe(p) ==
    /\ At(p, "wipe")
    /\ claimant_pid' = NoPid
    /\ OGo(p, "wait")
    /\ UNCHANGED <<state, payload, got, dead>>

Die(p) ==
    /\ p \notin dead /\ Cardinality(dead) < MaxDeaths
    /\ dead' = dead \cup {p}
    /\ UNCHANGED <<cell, opc, got>>

-----------------------------------------------------------------------------
Publish(p) == \/ Stamp(p) \/ CallPublish(p) \/ PublishCheckState(p) \/ PublishCheckPid(p)
              \/ PublishCopy(p) \/ PublishUnstamp(p) \/ PublishStore(p)
Wait(p) == TryGet(p) \/ TryGetCopy(p) \/ ClaimAgain(p)
Reclaim(p) == ReclaimState(p) \/ ReclaimPid(p) \/ ReclaimBreak(p) \/ ReclaimWipe(p)

ONext == \E p \in Procs : Claim(p) \/ Publish(p) \/ Wait(p) \/ Reclaim(p) \/ Die(p)

(* Live processes produce what they have claimed, ask until they have the   *)
(* value, and, those that reclaim, call reclaim while it does not come.     *)
OFairness ==
    \A p \in Procs :
        /\ WF_ovars(Claim(p)) /\ WF_ovars(Publish(p)) /\ WF_ovars(Wait(p))
        /\ WF_ovars(Reclaim(p))

OSpec == OInit /\ [][ONext]_ovars
OFairSpec == OSpec /\ OFairness

-----------------------------------------------------------------------------
(* "The value is produced once however many processes ask at once": no two  *)
(* live processes are producing it at the same time.                        *)
OneProducer == Cardinality(Producing) <= 1

(* A claim nobody can break: its process died before it had signed it or    *)
(* after it had taken the signature back (DeadClaimIsSeen), or was refused  *)
(* although it lives (StandingClaimPublishes).                              *)
LostClaim == \/ \E p \in dead : opc[p] \in {"stamp", "store"}
             \/ \E p \in Procs \ dead : opc[p] = "refused"

(* "`wait` answers `ClaimantGone` when that process is gone, and `reclaim`  *)
(* returns the cell to empty": a producer that dies does not keep the       *)
(* others waiting.  In the end every live process that asks has the value,  *)
(* unless the claim is lost, or the dead claimant was all there was to      *)
(* reclaim.                                                                 *)
AllServed ==
    <>[](\/ \A p \in Procs \ dead : opc[p] = "idle" \/ got[p] # NoValue
         \/ LostClaim
         \/ claimant_pid \in dead /\ Reclaimers \subseteq dead)

(* publish answers "`false` unless that claim is the one standing": the     *)
(* only claimant, whose claim nobody has broken, is not refused.            *)
StandingClaimPublishes ==
    \A p \in Procs : opc[p] = "refused" => state # "INITIALIZING" \/ Producing # {}

(* "`wait` answers `ClaimantGone` when that process is gone, and `reclaim`  *)
(* returns the cell to empty": the claim of a process that has died before  *)
(* it published carries that process's pid, by which both know it.          *)
DeadClaimIsSeen ==
    \A p \in dead : opc[p] \in {"stamp", "produce", "check_state", "check_pid", "copy", "unstamp",
                          "store"}
        /\ state = "INITIALIZING" /\ Producing = {} => claimant_pid = p

-----------------------------------------------------------------------------
(* What the proofs carry along *)

OTypeOK ==
    /\ state \in {"EMPTY", "INITIALIZING", "INITIALIZED"} /\ claimant_pid \in Procs \cup {NoPid}
    /\ opc \in [Procs -> {"idle", "stamp", "produce", "check_state", "check_pid", "copy", "unstamp",
                          "store", "refused", "wait", "read", "found", "break", "wipe"}]
    /\ dead \in SUBSET Procs

(* A reclaim is about to wipe the pid of the claim that it broke.           *)
Wiping == \E r \in Reclaimers : opc[r] = "wipe"

OInv ==
    /\ OTypeOK
    /\ \A p, q \in Producing : p = q
    /\ state # "INITIALIZING" => Producing = {}
    /\ \A p \in Procs : opc[p] \in {"found", "break", "wipe"} => p \in Reclaimers
    /\ \A r \in Reclaimers : opc[r] \in {"found", "break"} => state # "EMPTY"
    /\ state = "EMPTY" => claimant_pid = NoPid \/ Wiping
    /\ \A p \in Producing : claimant_pid \in {NoPid, p} \/ Wiping
    /\ \A r \in Reclaimers : opc[r] = "break" /\ state = "INITIALIZING" => Producing = {}
=============================================================================
