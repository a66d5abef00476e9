---------------------------- MODULE MCStructures ----------------------------
(* Seven structures that share no state, side by side: a behaviour picks    *)
(* one of them and runs it.                                                 *)
EXTENDS SpscRing, SharedDeque, SharedTreiberStack, SharedBroadcastRing, SwapCell,
        CapacityRing, OwnerLease

VARIABLE subject    \* the structure this behaviour runs

GuardLimits == [t \in SwapThreads |-> IF t = "r" THEN 2 ELSE 1]
PidOf == [t \in Claimants |-> IF t = "a" THEN 1 ELSE 2]
TeamSets ==
    {[p |-> 2, c |-> 0, m |-> 3],           \* a sender, the receiver and a morpher
     [p |-> 1, q |-> 1, m |-> 2],           \* two senders register across a morph
     [p |-> 1, m |-> 3, n |-> 3],           \* two morphers race
     [k |-> 0, m |-> 4, n |-> 4],           \* a pin across morphs
     [p |-> 1, c |-> 0, m |-> 3, w |-> 0]}  \* morphs that find a warm backing

StructuresInit ==
    /\ SpscInit /\ DInit /\ TInit /\ BInit /\ SwInit /\ CrInit /\ LInit
    /\ subject \in {"spsc", "deque", "stack", "broadcast", "swap", "capacity", "lease"}
    /\ \A c \in SwapCells : ptr[c] = 1    \* the addresses are interchangeable
    /\ subject # "capacity" => DOMAIN team = {"p", "q", "m"}

StructuresNext ==
    /\ \/ subject = "spsc" /\ SpscNext /\ UNCHANGED <<dvars, tvars, bvars, scvars, crvars, lvars>>
       \/ subject = "deque" /\ DNext /\ UNCHANGED <<spscVars, tvars, bvars, scvars, crvars, lvars>>
       \/ subject = "stack" /\ TNext /\ UNCHANGED <<spscVars, dvars, bvars, scvars, crvars, lvars>>
       \/ subject = "broadcast" /\ BNext /\ UNCHANGED <<spscVars, dvars, tvars, scvars, crvars, lvars>>
       \/ subject = "swap" /\ SwNext /\ UNCHANGED <<spscVars, dvars, tvars, bvars, crvars, lvars>>
       \/ subject = "capacity" /\ CrNext /\ UNCHANGED <<spscVars, dvars, tvars, bvars, scvars, lvars>>
       \/ subject = "lease" /\ LNext /\ UNCHANGED <<spscVars, dvars, tvars, bvars, scvars, crvars>>
    /\ UNCHANGED subject

StructuresSpec ==
    /\ StructuresInit
    /\ [][StructuresNext]_<<spscVars, dvars, tvars, bvars, scvars, crvars, lvars, subject>>
=============================================================================
