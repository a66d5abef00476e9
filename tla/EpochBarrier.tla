---------------------------- MODULE EpochBarrier ----------------------------
(***************************************************************************)
(* EpochBarrier (epoch_barrier.rs): a barrier whose number of participants *)
(* is the number of peers the heartbeat table shows alive.  One word holds *)
(* the epoch and the number of arrivals; arriving and releasing are each   *)
(* a CAS of it.                                                            *)
(*                                                                         *)
(* The heartbeat table is what HeartbeatTable models; here a peer is alive,*)
(* dead but still within its grace, or lapsed, and live peers beat in time.*)
(* Peers only leave, so a scan of the table that takes a while returns a   *)
(* count the table had at some moment of the scan: it is one step.         *)
(***************************************************************************)
EXTENDS Integers, FiniteSets

CONSTANTS Peers,
          Quorums,         \* thresholds of the calls: 0 is wait, q > 0 is wait_quorum(q)
          MaxEpoch,        \* bound: epochs waited for
          MaxTimeouts,     \* bound: waits that time out
          MaxPeerDeaths    \* bound: peers that die

ASSUME BarrierAssumption ==
    /\ IsFiniteSet(Peers) /\ Quorums \subseteq Nat
    /\ MaxEpoch \in Nat /\ MaxTimeouts \in Nat /\ MaxPeerDeaths \in Nat

VARIABLES
    epoch, arrived,     \* the packed state
    quorum,
    beat,               \* per peer: "alive", "dead", "lapsed"
    epc,
    my_epoch,           \* per peer: the epoch it waits for, or will wait for next
    loaded_word,        \* per peer: the state it has loaded
    timeouts,
    here,               \* ghost: the peers that have arrived in this epoch
    tainted             \* ghost: one of them has died, or timed out, since

evars == <<epoch, arrived, quorum, beat, epc, my_epoch, loaded_word, timeouts, here, tainted>>

NoWord == <<0, 0>>
Live == {p \in Peers : beat[p] # "lapsed"}

EInit ==
    /\ epoch = 0 /\ arrived = 0 /\ quorum \in Quorums
    /\ beat = [p \in Peers |-> "alive"] /\ epc = [p \in Peers |-> "idle"]
    /\ my_epoch = [p \in Peers |-> 0]
    /\ loaded_word = [p \in Peers |-> NoWord]
    /\ timeouts = 0 /\ here = {} /\ tainted = FALSE

Move(p, from, to) == beat[p] = "alive" /\ epc[p] = from /\ epc' = [epc EXCEPT ![p] = to]
Load(p) == loaded_word' = [loaded_word EXCEPT ![p] = <<epoch, arrived>>]

-----------------------------------------------------------------------------
(* The registration loop: return when the epoch has passed, spin when it is *)
(* early, arrive by CAS.                                                    *)
Passed(p) ==
    /\ Move(p, "idle", "idle") /\ my_epoch[p] <= MaxEpoch /\ epoch > my_epoch[p]
    /\ my_epoch' = [my_epoch EXCEPT ![p] = @ + 1]
    /\ UNCHANGED <<epoch, arrived, quorum, beat, loaded_word, timeouts, here, tainted>>

ArriveLoad(p) ==
    /\ Move(p, "idle", "arrive") /\ my_epoch[p] <= MaxEpoch /\ epoch = my_epoch[p]
    /\ Load(p)
    /\ UNCHANGED <<epoch, arrived, quorum, beat, my_epoch, timeouts, here, tainted>>

ArriveCas(p) ==
    LET won == loaded_word[p] = <<epoch, arrived>> IN
    /\ Move(p, "arrive", IF won THEN "waiting" ELSE "idle")
    /\ arrived' = IF won THEN arrived + 1 ELSE arrived
    /\ here' = IF won THEN here \cup {p} ELSE here
    /\ loaded_word' = [loaded_word EXCEPT ![p] = NoWord]
    /\ UNCHANGED <<epoch, quorum, beat, my_epoch, timeouts, tainted>>

-----------------------------------------------------------------------------
(* The release loop.                                                        *)
WaitLoad(p) ==
    LET passed == epoch > my_epoch[p] IN
    /\ Move(p, "waiting", IF passed THEN "idle" ELSE "count")
    /\ my_epoch' = [my_epoch EXCEPT ![p] = IF passed THEN @ + 1 ELSE @]
    /\ IF passed THEN UNCHANGED loaded_word ELSE Load(p)
    /\ UNCHANGED <<epoch, arrived, quorum, beat, timeouts, here, tainted>>

(* As Count would be if it left out a peer that has not come yet.           *)
CountOneLess(p) ==
    LET reached == loaded_word[p][2] + 1 >= IF quorum > 0 THEN quorum ELSE Cardinality(Live) IN
    /\ Move(p, "count", IF reached THEN "release" ELSE "waiting")
    /\ loaded_word' = [loaded_word EXCEPT ![p] = IF reached THEN @ ELSE NoWord]
    /\ UNCHANGED <<epoch, arrived, quorum, beat, my_epoch, timeouts, here, tainted>>

(* As Count would be if it counted every peer that ever joined.             *)
CountEveryone(p) ==
    LET reached == loaded_word[p][2] >= IF quorum > 0 THEN quorum ELSE Cardinality(Peers) IN
    /\ Move(p, "count", IF reached THEN "release" ELSE "waiting")
    /\ loaded_word' = [loaded_word EXCEPT ![p] = IF reached THEN @ ELSE NoWord]
    /\ UNCHANGED <<epoch, arrived, quorum, beat, my_epoch, timeouts, here, tainted>>

(* The threshold, against the arrivals loaded before.  The caller is in the *)
(* table, alive and beating, so that live_peer_count is at least 1 and      *)
(* NoLivePeers is not returned.                                             *)
Count(p) ==
    LET reached == loaded_word[p][2] >= IF quorum > 0 THEN quorum ELSE Cardinality(Live) IN
    /\ Move(p, "count", IF reached THEN "release" ELSE "waiting")
    /\ loaded_word' = [loaded_word EXCEPT ![p] = IF reached THEN @ ELSE NoWord]
    /\ UNCHANGED <<epoch, arrived, quorum, beat, my_epoch, timeouts, here, tainted>>

OpenEpoch(p) ==
    LET won == loaded_word[p] = <<epoch, arrived>> IN
    /\ Move(p, "release", IF won THEN "idle" ELSE "waiting")
    /\ epoch' = IF won THEN epoch + 1 ELSE epoch
    /\ arrived' = IF won THEN 0 ELSE arrived
    /\ my_epoch' = [my_epoch EXCEPT ![p] = IF won THEN @ + 1 ELSE @]
    /\ loaded_word' = [loaded_word EXCEPT ![p] = NoWord]
    /\ here' = IF won THEN {} ELSE here
    /\ tainted' = (tainted /\ ~won)
    /\ UNCHANGED <<quorum, beat, timeouts>>

(* wait_timeout ends at the head of either loop, before the arrival or      *)
(* after it, which then stays counted.  The peer calls wait again.          *)
Timeout(p) ==
    /\ Move(p, epc[p], "idle") /\ epc[p] \in {"idle", "waiting"} /\ my_epoch[p] <= MaxEpoch
    /\ timeouts < MaxTimeouts
    /\ timeouts' = timeouts + 1
    /\ tainted' = (tainted \/ p \in here)
    /\ UNCHANGED <<epoch, arrived, quorum, beat, my_epoch, loaded_word, here>>

-----------------------------------------------------------------------------
(* A peer dies, and later its heartbeat lapses.                             *)
PeerDies(p) ==
    /\ beat[p] = "alive" /\ Cardinality({q \in Peers : beat[q] # "alive"}) < MaxPeerDeaths
    /\ beat' = [beat EXCEPT ![p] = "dead"]
    /\ tainted' = (tainted \/ p \in here)
    /\ epc' = [epc EXCEPT ![p] = "idle"] /\ loaded_word' = [loaded_word EXCEPT ![p] = NoWord]
    /\ UNCHANGED <<epoch, arrived, quorum, my_epoch, timeouts, here>>

Lapse(p) ==
    /\ beat[p] = "dead" /\ beat' = [beat EXCEPT ![p] = "lapsed"]
    /\ UNCHANGED <<epoch, arrived, quorum, epc, my_epoch, loaded_word, timeouts, here, tainted>>

-----------------------------------------------------------------------------
Waiting(p) == \/ Passed(p) \/ ArriveLoad(p) \/ ArriveCas(p)
              \/ WaitLoad(p) \/ Count(p) \/ OpenEpoch(p)

ENext == \E p \in Peers : Waiting(p) \/ Timeout(p) \/ PeerDies(p) \/ Lapse(p)

(* Live peers keep calling wait, and run; a dead peer's heartbeat lapses.   *)
EFairness == \A p \in Peers : WF_evars(Waiting(p)) /\ WF_evars(Lapse(p))
ESpec == EInit /\ [][ENext]_evars /\ EFairness

-----------------------------------------------------------------------------
(* The barrier opens when every live peer has arrived, or the quorum has.   *)
OpensWhenAllArrived ==
    [][epoch' # epoch => IF quorum = 0 THEN Live \subseteq here
                         ELSE Cardinality(here) >= quorum]_evars

(* ... as long as nobody who arrived has died or timed out and is counted   *)
(* all the same: a peer that arrives while another's CAS is on its way, or  *)
(* dies before it arrives, does not open the barrier early.                 *)
OpensWhenAllArrivedAndStay ==
    [][epoch' # epoch /\ ~tainted => IF quorum = 0 THEN Live \subseteq here
                                     ELSE Cardinality(here) >= quorum]_evars

(* "one crashed process and the whole barrier deadlocks" does not happen:   *)
(* in the end no peer is left waiting at wait (wait_quorum may lack its     *)
(* quorum), whoever has died, arrived or not, and whoever has timed out.    *)
SurvivorsPass == <>[](quorum = 0 => \A p \in Peers : epc[p] # "waiting")

-----------------------------------------------------------------------------
(* Why: untainted, the counter counts the peers that have arrived, who all  *)
(* wait, alive, for this epoch; and who means to open the barrier has       *)
(* loaded a count that reaches the threshold, which only falls.             *)
Threshold == IF quorum > 0 THEN quorum ELSE Cardinality(Live)

BarrierTypeOK ==
    /\ epoch \in Nat /\ arrived \in Nat /\ quorum \in Nat
    /\ beat \in [Peers -> {"alive", "dead", "lapsed"}]
    /\ epc \in [Peers -> {"idle", "arrive", "waiting", "count", "release"}]
    /\ my_epoch \in [Peers -> Nat] /\ loaded_word \in [Peers -> Nat \X Nat]
    /\ here \subseteq Peers /\ tainted \in BOOLEAN

ArrivedWait ==
    ~tainted =>
        /\ arrived = Cardinality(here)
        /\ \A p \in here : /\ beat[p] = "alive" /\ my_epoch[p] = epoch
                           /\ epc[p] \in {"waiting", "count", "release"}

OpenersCounted ==
    \A p \in Peers : /\ epc[p] = "arrive" => loaded_word[p][1] = my_epoch[p]
                     /\ epc[p] = "release" => loaded_word[p][2] >= Threshold

BarrierInv == BarrierTypeOK /\ ArrivedWait /\ OpenersCounted
=============================================================================
