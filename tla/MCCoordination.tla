--------------------------- MODULE MCCoordination ---------------------------
(* The election and the heartbeat table share no state; side by side, a     *)
(* behaviour picks one of them and runs it.                                 *)
EXTENDS LeaderElection, HeartbeatTable

CONSTANTS a, b, c

VARIABLE subject    \* the component this behaviour runs

PidOf == [t \in Claimants |-> CASE t = a -> 1 [] t = b -> 2 [] t = c -> 3]

CoordinationInit ==
    /\ ElectionInit /\ HInit
    /\ subject \in {"election", "heartbeat"}

CoordinationNext ==
    /\ \/ subject = "election" /\ ElectionNext /\ UNCHANGED hvars
       \/ subject = "heartbeat" /\ HNext /\ UNCHANGED elvars
    /\ UNCHANGED subject

(* ElectionFairness and HFairness, of the component that runs.              *)
CoordinationFairness ==
    /\ \A t \in Claimants : WF_elvars(subject = "election" /\ Claim(t))
    /\ WF_elvars(subject = "election" /\ TickEpoch)
    /\ \A p \in BeatProcs : /\ WF_hvars(subject = "heartbeat" /\ RegisterSlot(p))
                            /\ WF_hvars(subject = "heartbeat" /\ Beat(p))
                            /\ WF_hvars(subject = "heartbeat" /\ UnregisterSlot(p) /\ hpc[p] # "in")
    /\ WF_hvars(subject = "heartbeat" /\ Scan)

CoordinationSpec ==
    /\ CoordinationInit /\ [][CoordinationNext]_<<elvars, hvars, subject>>
    /\ CoordinationFairness
=============================================================================
