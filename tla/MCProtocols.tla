----------------------------- MODULE MCProtocols -----------------------------
(* The UDP transport, the epoch barrier and the once cell share no state;   *)
(* side by side, a behaviour picks one of them and runs it.                 *)
EXTENDS ReliableUdp, EpochBarrier, SharedOnceCell

VARIABLE subject    \* the component this behaviour runs

PlanSets ==
    {[items |-> <<3, 0>>, parities |-> {0}, loss |-> 1, dup |-> 0, skip |-> 0],
     [items |-> <<2, 0>>, parities |-> {0, 1}, loss |-> 1, dup |-> 0, skip |-> 1],
     [items |-> <<2, 0>>, parities |-> {1}, loss |-> 2, dup |-> 0, skip |-> 0],
     [items |-> <<2, 1>>, parities |-> {0}, loss |-> 0, dup |-> 0, skip |-> 0],
     [items |-> <<1, 1>>, parities |-> {0}, loss |-> 1, dup |-> 1, skip |-> 0]}

ProtocolsInit ==
    /\ UInit /\ EInit /\ OInit
    /\ subject \in {"udp", "barrier", "once"}
    /\ subject # "udp" => plan.items = <<3, 0>>
    /\ subject # "barrier" => quorum = 0

ProtocolsNext ==
    /\ \/ subject = "udp" /\ UNext /\ UNCHANGED <<evars, ovars>>
       \/ subject = "barrier" /\ ENext /\ UNCHANGED <<uvars, ovars>>
       \/ subject = "once" /\ ONext /\ UNCHANGED <<uvars, evars>>
    /\ UNCHANGED subject

(* UFairness, EFairness and OFairness, of the component that runs.          *)
ProtocolsFairness ==
    /\ WF_uvars(subject = "udp" /\ Fair(\E d \in data : d.epoch = session /\ News(d) /\ DataArrives(d, FALSE)))
    /\ WF_uvars(subject = "udp" /\ Fair(\E f \in control : FeedbackArrives(f, FALSE)))
    /\ SF_uvars(subject = "udp" /\ Fair(Service(session, TRUE, NAK_NONE)))
    /\ SF_uvars(subject = "udp" /\ Fair(\E b \in BlockIds : Service(session, TRUE, b)))
    /\ WF_uvars(subject = "udp" /\ Fair(ProbeOldest))
    /\ WF_uvars(subject = "udp" /\ Fair(Admit(session)))
    /\ \A p \in Peers : WF_evars(subject = "barrier" /\ Waiting(p)) /\ WF_evars(subject = "barrier" /\ Lapse(p))
    /\ \A p \in Procs : /\ WF_ovars(subject = "once" /\ Claim(p))
                        /\ WF_ovars(subject = "once" /\ Publish(p))
                        /\ WF_ovars(subject = "once" /\ Wait(p))
                        /\ WF_ovars(subject = "once" /\ Reclaim(p))

ProtocolsSpec ==
    /\ ProtocolsInit /\ [][ProtocolsNext]_<<uvars, evars, ovars, subject>>
    /\ ProtocolsFairness
=============================================================================
