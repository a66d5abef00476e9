----------------------------- MODULE OwnerLease -----------------------------
(***************************************************************************)
(* OwnerLease<T> (owner_lease.rs): a value in shared memory that its owner *)
(* reads and writes.  Ownership is claimed, refreshed and given up by the  *)
(* protocol of LeaderElection, with owner_pid, lease_term and              *)
(* heartbeat_epoch in place of the leader's words.                         *)
(*                                                                         *)
(* The users add one to the value: with_lease in one call, or, for the     *)
(* threads in Guarded, try_acquire, read_as_owner, write_as_owner and      *)
(* release.  The beaters refresh the heartbeat of their process.           *)
(***************************************************************************)
EXTENDS LeaderElection

CONSTANTS Beaters, Guarded,
          MaxWrites       \* bound: values written

Users == Claimants \ Beaters

(* The lease is a process's: one thread of a process uses it.               *)
ASSUME UsersAssumption ==
    /\ Beaters \subseteq Claimants /\ Guarded \subseteq Users /\ MaxWrites \in Nat
    /\ \A t, u \in Users : Pid[t] = Pid[u] => t = u

VARIABLES
    seq_version,    \* modulo 2
    lease_value,    \* the value: how often it has been added to
    read_value,     \* per thread: the value its call has read
    written,        \* ghost: writes finished
    taken           \* ghost: somebody's lease has been taken over

lease == <<seq_version, lease_value, read_value, written>>
lvars == <<elvars, lease, taken>>

NO_OWNER == NO_LEADER

LInit ==
    /\ ElectionInit
    /\ seq_version = 0 /\ lease_value = 0
    /\ read_value = [t \in Claimants |-> 0]
    /\ written = 0 /\ taken = FALSE

-----------------------------------------------------------------------------
Acquired(t) == IF t \in Beaters THEN "idle" ELSE IF t \in Guarded THEN "read_check" ELSE "read"

TryAcquire(t) ==
    /\ t \in Users /\ (elpc[t] = "idle" => written < MaxWrites)
    /\ \/ ClaimLoad(t, Acquired(t)) \/ ClaimBeat(t) \/ ClaimJudge(t) \/ ClaimCas(t) \/ ClaimTerm(t)
    /\ taken' = (taken \/ (current_leader_pid # NO_OWNER
                             /\ current_leader_pid' # current_leader_pid))
    /\ UNCHANGED lease

(* beat, and the stores that end try_acquire and beat.                      *)
LeaseBeat(t) ==
    /\ \/ t \in Beaters /\ BeatAsLeader(t)
       \/ LoadEpoch(t) \/ StoreBeat(t, Acquired(t))
    /\ UNCHANGED <<lease, taken>>

(* am_i_owner, at the head of read_as_owner and write_as_owner; a user that *)
(* is refused gives up its call.                                            *)
CheckOwner(t, from, to) ==
    /\ At(t, from)
    /\ Goes(t, IF current_leader_pid = Pid[t] THEN to ELSE "idle")
    /\ UNCHANGED <<election, cur, loaded, crashed, ghosts, lease, taken>>

ReadPayload(t) ==
    /\ At(t, "read")
    /\ read_value' = [read_value EXCEPT ![t] = lease_value]
    /\ Goes(t, IF t \in Guarded THEN "write_check" ELSE "seq_odd")
    /\ UNCHANGED <<election, cur, loaded, crashed, ghosts, seq_version, lease_value, written, taken>>

BumpSeq(t, from, to) ==
    /\ At(t, from)
    /\ seq_version' = 1 - seq_version
    /\ Goes(t, to)
    /\ UNCHANGED <<election, cur, loaded, crashed, ghosts, lease_value, read_value, written, taken>>

WritePayload(t) ==
    /\ At(t, "write")
    /\ lease_value' = read_value[t] + 1
    /\ read_value' = [read_value EXCEPT ![t] = 0]
    /\ written' = written + 1
    /\ Goes(t, "seq_even")
    /\ UNCHANGED <<election, cur, loaded, crashed, ghosts, seq_version, taken>>

ReleaseLease(t) == StepDown(t, "release") /\ UNCHANGED <<lease, taken>>

UseLease(t) == \/ CheckOwner(t, "read_check", "read") \/ ReadPayload(t)
               \/ CheckOwner(t, "write_check", "seq_odd")
               \/ BumpSeq(t, "seq_odd", "write") \/ WritePayload(t)
               \/ BumpSeq(t, "seq_even", "release") \/ ReleaseLease(t)

LNext == \/ \E t \in Claimants : TryAcquire(t) \/ LeaseBeat(t) \/ UseLease(t)
         \/ ((\E t \in Claimants : Crash(t)) \/ TickEpoch) /\ UNCHANGED <<lease, taken>>

LSpec == LInit /\ [][LNext]_lvars

-----------------------------------------------------------------------------
Updated == lease_value = written
SeqTells == seq_version = 1 <=> \E t \in Claimants : elpc[t] \in {"write", "seq_even"}

(* As long as nobody's lease has been taken over, with_lease and the        *)
(* guarded calls exclude each other: no addition is lost, and seq_version   *)
(* is odd exactly while one of them is writing.                             *)
ExclusiveUntilTaken == ~taken => Updated /\ SeqTells

(* Why: nobody else's claim succeeds while a user is between its own and    *)
(* its release, so there is one such user, and the value it has read is     *)
(* still the value.                                                         *)
Holding == {"term", "epoch", "store", "read_check", "read", "write_check", "seq_odd", "write",
            "seq_even", "release"}

LeaseTypeOK ==
    /\ elpc \in [Claimants -> Holding \cup {"idle", "load", "beat", "judge", "cas"}]
    /\ \A t \in Beaters : elpc[t] \in {"idle", "epoch", "store"}
    /\ lease_value \in Nat /\ written \in Nat /\ seq_version \in {0, 1}
    /\ read_value \in [Claimants -> Nat] /\ taken \in BOOLEAN

HolderOwns == \A t \in Users : elpc[t] \in Holding => current_leader_pid = Pid[t]
ReadIsCurrent ==
    \A t \in Users : elpc[t] \in {"write_check", "seq_odd", "write"} => read_value[t] = lease_value

LeaseInv == LeaseTypeOK /\ (~taken => HolderOwns /\ ReadIsCurrent /\ Updated /\ SeqTells)

(* "Provides Mutex-like exclusive access to a shared value T": no addition  *)
(* that a user has made under its lease is lost.                            *)
NoLostUpdate == Updated
=============================================================================
