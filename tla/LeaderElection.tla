--------------------------- MODULE LeaderElection ---------------------------
(***************************************************************************)
(* SharedLeaderElection (shared_leader_election.rs): the leader's pid in a *)
(* shared word, taken by CAS by the lowest pid, or by anyone once the      *)
(* leader's heartbeat is more than grace_epochs behind the global epoch.   *)
(*                                                                         *)
(* Every atomic access of try_claim_leadership, beat_as_leader, step_down  *)
(* and tick_epoch is a step.  Of the epochs only distances to the global   *)
(* epoch matter, and of those only whether they exceed the grace, so the   *)
(* heartbeat and the epochs a call has loaded are kept as ages, counted    *)
(* up to Grace + 1: a tick ages them all.                                  *)
(***************************************************************************)
EXTENDS Integers, FiniteSets

CONSTANTS Claimants,
          Pid,            \* the pid of each thread's process
          Grace,          \* grace_epochs
          MaxCrashes,     \* bound: threads that die with their process
          TermWrap,       \* the term counts modulo TermWrap (2^32 in the code)
          LeaderTicks     \* tick_epoch is called by a live leader only

ASSUME PidAssumption == IsFiniteSet(Claimants) /\ Pid \in [Claimants -> Nat \ {0}]
ASSUME GraceAssumption == Grace \in Nat /\ MaxCrashes \in Nat
ASSUME TermAssumption == TermWrap \in Nat \ {0, 1}
ASSUME TicksAssumption == LeaderTicks \in BOOLEAN

VARIABLES
    current_leader_pid, election_term,
    heartbeat,      \* age of leader_heartbeat
    elpc,
    cur,            \* per thread: the leader its claim has loaded
    loaded,         \* per thread: age of the epoch its call has loaded
    crashed,
    handovers,      \* ghost: successful claims, modulo TermWrap
    silence         \* ghost: ticks since the leader last claimed or beat

election == <<current_leader_pid, election_term, heartbeat>>
ghosts == <<handovers, silence>>
elvars == <<election, elpc, cur, loaded, crashed, ghosts>>

NO_LEADER == 0
Pids == {Pid[t] : t \in Claimants}
Older(age) == IF age > Grace THEN age ELSE age + 1
IsStale(age) == age > Grace

(* reset: the zeroed header *)
ElectionInit ==
    /\ current_leader_pid = NO_LEADER /\ election_term = 0
    /\ heartbeat = 0
    /\ elpc = [t \in Claimants |-> "idle"]
    /\ cur = [t \in Claimants |-> NO_LEADER] /\ loaded = [t \in Claimants |-> 0]
    /\ crashed = {}
    /\ handovers = 0 /\ silence = 0

At(t, s) == elpc[t] = s /\ t \notin crashed
Goes(t, s) == elpc' = [elpc EXCEPT ![t] = s]
(* What a call has loaded is gone when it has been used.                    *)
Forgets(t) == cur' = [cur EXCEPT ![t] = NO_LEADER] /\ loaded' = [loaded EXCEPT ![t] = 0]

-----------------------------------------------------------------------------
(* try_claim_leadership.  done is where its caller goes on with true.       *)

ClaimLoad(t, done) ==
    /\ elpc[t] \in {"idle", "load"} /\ t \notin crashed
    /\ cur' = [cur EXCEPT ![t] = IF current_leader_pid = Pid[t] THEN NO_LEADER
                                ELSE current_leader_pid]
    /\ Goes(t, CASE current_leader_pid = Pid[t] -> done
               [] current_leader_pid = NO_LEADER \/ Pid[t] < current_leader_pid -> "cas"
               [] OTHER -> "beat")
    /\ UNCHANGED <<election, loaded, crashed, ghosts>>

ClaimBeat(t) ==
    /\ At(t, "beat")
    /\ loaded' = [loaded EXCEPT ![t] = heartbeat]
    /\ Goes(t, "judge")
    /\ UNCHANGED <<election, cur, crashed, ghosts>>

(* As ClaimJudge would be if it never found a leader stale.                 *)
ClaimJudgeNever(t) ==
    /\ At(t, "judge")
    /\ Goes(t, "idle") /\ Forgets(t)
    /\ UNCHANGED <<election, crashed, ghosts>>

ClaimJudge(t) ==
    /\ At(t, "judge")
    /\ \/ /\ IsStale(loaded[t]) /\ Goes(t, "cas")
          /\ loaded' = [loaded EXCEPT ![t] = 0] /\ UNCHANGED cur
       \/ ~IsStale(loaded[t]) /\ Goes(t, "idle") /\ Forgets(t)
    /\ UNCHANGED <<election, crashed, ghosts>>

(* As ClaimCas would be if it went on when the CAS fails.                   *)
ClaimCasIgnored(t) ==
    /\ At(t, "cas")
    /\ \/ /\ current_leader_pid = cur[t]
          /\ current_leader_pid' = Pid[t]
          /\ handovers' = (handovers + 1) % TermWrap /\ silence' = 0
       \/ current_leader_pid # cur[t] /\ UNCHANGED <<current_leader_pid, ghosts>>
    /\ Goes(t, "term") /\ Forgets(t)
    /\ UNCHANGED <<election_term, heartbeat, crashed>>

(* The CAS; when it fails the claim starts over.                            *)
ClaimCas(t) ==
    /\ At(t, "cas")
    /\ \/ /\ current_leader_pid = cur[t]
          /\ current_leader_pid' = Pid[t] /\ Goes(t, "term")
          /\ handovers' = (handovers + 1) % TermWrap /\ silence' = 0
       \/ /\ current_leader_pid # cur[t]
          /\ Goes(t, "load") /\ UNCHANGED <<current_leader_pid, ghosts>>
    /\ Forgets(t)
    /\ UNCHANGED <<election_term, heartbeat, crashed>>

ClaimTerm(t) ==
    /\ At(t, "term")
    /\ election_term' = (election_term + 1) % TermWrap
    /\ Goes(t, "epoch")
    /\ UNCHANGED <<current_leader_pid, heartbeat, cur, loaded, crashed, ghosts>>

(* The end of try_claim_leadership and of beat_as_leader: load the global   *)
(* epoch, store it as the heartbeat.                                        *)
LoadEpoch(t) ==
    /\ At(t, "epoch")
    /\ loaded' = [loaded EXCEPT ![t] = 0]
    /\ Goes(t, "store")
    /\ UNCHANGED <<election, cur, crashed, ghosts>>

StoreBeat(t, done) ==
    /\ At(t, "store")
    /\ heartbeat' = loaded[t]
    /\ silence' = IF current_leader_pid = Pid[t] THEN loaded[t] ELSE silence
    /\ Goes(t, done) /\ Forgets(t)
    /\ UNCHANGED <<current_leader_pid, election_term, crashed, handovers>>

(* beat_as_leader: false, and nothing, for a thread that does not lead.     *)
BeatAsLeader(t) ==
    /\ At(t, "idle") /\ current_leader_pid = Pid[t]
    /\ Goes(t, "epoch")
    /\ UNCHANGED <<election, cur, loaded, crashed, ghosts>>

(* step_down's CAS changes nothing for a thread that does not lead.         *)
StepDown(t, from) ==
    /\ At(t, from)
    /\ current_leader_pid' = IF current_leader_pid = Pid[t] THEN NO_LEADER ELSE current_leader_pid
    /\ Goes(t, "idle")
    /\ UNCHANGED <<election_term, heartbeat, cur, loaded, crashed, ghosts>>

LeaderLives == \E t \in Claimants \ crashed : Pid[t] = current_leader_pid

(* tick_epoch *)
TickEpoch ==
    /\ LeaderTicks => LeaderLives
    /\ heartbeat' = Older(heartbeat) /\ silence' = Older(silence)
    /\ loaded' = [t \in Claimants |-> IF elpc[t] \in {"judge", "store"} THEN Older(loaded[t])
                                     ELSE loaded[t]]
    /\ UNCHANGED <<current_leader_pid, election_term, elpc, cur, crashed, handovers>>

(* A process dies with all its threads.                                     *)
Crash(t) ==
    LET lost == {u \in Claimants \ crashed : Pid[u] = Pid[t]} IN
    /\ lost # {} /\ Cardinality(crashed \cup lost) <= MaxCrashes
    /\ crashed' = crashed \cup lost
    /\ UNCHANGED <<election, elpc, cur, loaded, ghosts>>

-----------------------------------------------------------------------------
Claim(t) == \/ ClaimLoad(t, "idle") \/ ClaimBeat(t) \/ ClaimJudge(t) \/ ClaimCas(t)
            \/ ClaimTerm(t) \/ LoadEpoch(t) \/ StoreBeat(t, "idle")

ElectionNext ==
    \/ \E t \in Claimants : Claim(t) \/ BeatAsLeader(t) \/ StepDown(t, "idle") \/ Crash(t)
    \/ TickEpoch

(* Every live process keeps trying, and the epoch keeps advancing.          *)
ElectionFairness == (\A t \in Claimants : WF_elvars(Claim(t))) /\ WF_elvars(TickEpoch)

ElectionSpec == ElectionInit /\ [][ElectionNext]_elvars
ElectionFairSpec == ElectionSpec /\ ElectionFairness

-----------------------------------------------------------------------------
Counting == {t \in Claimants : elpc[t] = "term"}

(* "Election term increments on each handover": the term lags the           *)
(* successful claims by those that stand between the CAS and the            *)
(* increment, claimants that died there included, and by nothing else.      *)
TermCountsHandovers == handovers = (election_term + Cardinality(Counting)) % TermWrap

(* A leader that has died does not stay leader: once its heartbeat has gone *)
(* stale, somebody who tries takes over.                                    *)
DeadLeaderReplaced ==
    (Claimants \ crashed # {} /\ current_leader_pid \in Pids /\ ~LeaderLives)
        ~> (LeaderLives \/ Claimants \ crashed = {})

(* try_claim_leadership is "`false` if the current leader is alive and has  *)
(* a lower or equal PID", and presumes it dead only when its heartbeat is   *)
(* more than grace_epochs behind: a leader that has claimed or beaten       *)
(* within the grace does not lose its place to a higher pid.                *)
FreshLeaderKept ==
    [][current_leader_pid # NO_LEADER /\ current_leader_pid' > current_leader_pid
         => IsStale(silence)]_elvars

-----------------------------------------------------------------------------
TermInv == /\ elpc \in [Claimants -> {"idle", "load", "beat", "judge", "cas", "term", "epoch", "store"}]
           /\ election_term \in Nat
           /\ TermCountsHandovers
=============================================================================
