------------------------------ MODULE Failover ------------------------------
(***************************************************************************)
(* FailoverWatchdog (failover.rs) over a HeartbeatTable and one watched    *)
(* SharedRing: producers beat, the watchdog ticks the global epoch, looks  *)
(* for a process that has missed its grace, and heals the slots it has     *)
(* found stuck on two scans in a row.                                      *)
(*                                                                         *)
(* Of the epochs only a process's lag behind the global epoch matters, and *)
(* of the lag only whether it exceeds the grace, so the lag is counted up  *)
(* to Grace + 1.  The watchdog is the only one to tick, so the snapshots   *)
(* it takes of the slots one by one find some process lapsed exactly if    *)
(* one look at all of them, at one of those moments, does.                 *)
(***************************************************************************)
EXTENDS SharedRing

CONSTANTS Grace,          \* grace_epochs
          SlowPublish     \* may a live producer stay between its claim and
                          \* its publish over a whole scan interval

ASSUME GraceAssumption == Grace \in Nat
ASSUME SlowPublishAssumption == SlowPublish \in BOOLEAN

VARIABLES
    lag,        \* per producer: global epoch - last_seen_epoch, saturated
    wpc,        \* watchdog: "idle", "snapshot", "find", "probe", "window", "cas"
    lapsed,     \* this scan saw a process beyond its grace
    from,       \* the position next_stuck_slot is asked to start from
    probe, end, \* the position next_stuck_slot looks at, the producer_seq it loaded
    suspects,   \* positions the previous scan found stuck
    still       \* positions this scan leaves as suspects

watchdog == <<wpc, lapsed, from, probe, end, suspects, still>>
fvars == <<vars, lag, watchdog>>

FInit ==
    /\ Init
    /\ lag = [p \in Producers |-> 0]
    /\ wpc = "idle" /\ lapsed = FALSE
    /\ from = 0 /\ probe = 0 /\ end = 0
    /\ suspects = {} /\ still = {}

-----------------------------------------------------------------------------
(* HeartbeatTable::beat *)
Beat(p) ==
    /\ p \notin dead
    /\ lag' = [lag EXCEPT ![p] = 0]
    /\ UNCHANGED <<vars, watchdog>>

(* "A publish takes nanoseconds, so a live producer is not mid-publish      *)
(* across a whole scan interval": unless SlowPublish, the next scan starts  *)
(* only when the live producers the last one caught have published.         *)
PublishesInTime ==
    SlowPublish \/ \A pos \in suspects : Claimants(pos) \subseteq dead

(* scan: tick_global_epoch, then the snapshots, then heal_watched.          *)
Tick ==
    /\ wpc = "idle" /\ PublishesInTime
    /\ lag' = [p \in Producers |-> IF lag[p] > Grace THEN lag[p] ELSE lag[p] + 1]
    /\ wpc' = "snapshot"
    /\ UNCHANGED <<vars, lapsed, from, probe, end, suspects, still>>

(* As Snapshot would be if every process had to lapse, not one.             *)
SnapshotAll ==
    /\ wpc = "snapshot"
    /\ lapsed' = \A p \in Producers : lag[p] > Grace
    /\ wpc' = "find"
    /\ UNCHANGED <<vars, lag, from, probe, end, suspects, still>>

Snapshot ==
    /\ wpc = "snapshot"
    /\ lapsed' = \E p \in Producers : lag[p] > Grace
    /\ wpc' = "find"
    /\ UNCHANGED <<vars, lag, from, probe, end, suspects, still>>

(* next_stuck_slot(from): load the counters, then look at the cells.        *)
Find ==
    /\ wpc = "find"
    /\ end' = producer_seq
    /\ probe' = IF from > consumer_seq THEN from ELSE consumer_seq
    /\ wpc' = "probe"
    /\ UNCHANGED <<vars, lag, lapsed, from, suspects, still>>

MustWaitOneScan(pos) == ~lapsed
MustWait(pos) == ~lapsed \/ pos \notin suspects

(* A cell that is not stuck is passed over; a stuck one that must wait is a *)
(* suspect for the next scan; the rest go to heal_stuck_slot; past the last *)
(* claimed position the scan is over.                                       *)
Probe ==
    /\ wpc = "probe"
    /\ \/ /\ probe >= end
          /\ suspects' = still /\ wpc' = "idle"
          /\ from' = 0 /\ probe' = 0 /\ end' = 0 /\ still' = {} /\ lapsed' = FALSE
       \/ /\ probe < end /\ sequence[Cell(probe)] # probe
          /\ probe' = probe + 1
          /\ UNCHANGED <<wpc, from, end, suspects, still, lapsed>>
       \/ /\ probe < end /\ sequence[Cell(probe)] = probe
          /\ from' = probe + 1
          /\ \/ MustWait(probe) /\ still' = still \cup {probe} /\ wpc' = "find"
             \/ ~MustWait(probe) /\ wpc' = "window" /\ UNCHANGED still
          /\ UNCHANGED <<probe, end, suspects, lapsed>>
    /\ UNCHANGED <<vars, lag>>

WatchdogHealCheck ==
    /\ wpc = "window"
    /\ IF InWindow(probe) THEN HealCheck(probe) /\ wpc' = "cas"
                          ELSE wpc' = "find" /\ UNCHANGED vars
    /\ UNCHANGED <<lag, lapsed, from, probe, end, suspects, still>>

WatchdogHealCas ==
    /\ wpc = "cas"
    /\ HealCas
    /\ wpc' = "find"
    /\ UNCHANGED <<lag, lapsed, from, probe, end, suspects, still>>

-----------------------------------------------------------------------------
Scan == Tick \/ Snapshot \/ Find \/ Probe \/ WatchdogHealCheck \/ WatchdogHealCas

RingStep == (\E p \in Producers : Push(p) \/ Crash(p)) \/ (\E c \in Consumers : Pop(c))

FNext == \/ RingStep /\ UNCHANGED <<lag, watchdog>>
         \/ \E p \in Producers : Beat(p)
         \/ Scan

(* Live producers finish what they have claimed, consumers poll, and the    *)
(* watchdog scans for ever; nothing obliges a producer to beat.             *)
FFairness ==
    /\ \A p \in Producers : WF_fvars((PushCopy(p) \/ PushPublish(p)) /\ UNCHANGED <<lag, watchdog>>)
    /\ \A c \in Consumers : WF_fvars(Pop(c) /\ UNCHANGED <<lag, watchdog>>)
    /\ WF_fvars(Scan)

FSpec == FInit /\ [][FNext]_fvars
FFairSpec == FSpec /\ FFairness

-----------------------------------------------------------------------------
(* heal_stuck_slot's contract is kept by the watchdog that calls it: what   *)
(* it is about to heal, if still stuck, was claimed by a dead producer.     *)
WatchdogKeepsContract ==
    wpc = "cas" /\ sequence[Cell(healing)] = healing => HealContract(healing)

=============================================================================
