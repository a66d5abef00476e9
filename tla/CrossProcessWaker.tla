-------------------------- MODULE CrossProcessWaker --------------------------
(***************************************************************************)
(* CrossProcessWaker (cross_process_waker.rs): slots in shared memory that *)
(* threads park on, and the scans that wake them.  Every atomic access of  *)
(* try_park, wait, release, wake_up_to, wake_one_up_to and wake_all is a   *)
(* step.  A thread asleep in the kernel's wait is at "wait" and can go on  *)
(* once its slot's state is not STATE_PARKED: the state word, not the      *)
(* system call, decides, and every claimed wake is followed by the call.   *)
(*                                                                         *)
(* The clients are those of SharedCondvar (shared_condvar.rs), which the   *)
(* blocking rings, semaphore and lock follow: a notifier publishes a new   *)
(* sequence and scans; a waiter whose predicate does not hold loads the    *)
(* published sequence, parks for the next one, checks its predicate once   *)
(* more, and waits.  The predicate of a parker is that the sequence it is  *)
(* after (goal) has been published.  A caller that gets Full calls again.  *)
(***************************************************************************)
EXTENDS Integers, FiniteSets

CONSTANTS Parkers, Wakers,
          Capacity,      \* slots
          Masked,        \* scans follow parked_mask (capacity <= 64)
          Timed,         \* parkers that wait with a timeout
          Scans,         \* the wake calls in use: "upto", "one", "all"
          MaxSeq         \* bound: sequences published

ASSUME CapacityAssumption == Capacity \in Nat \ {0}
ASSUME MaskedAssumption == Masked \in BOOLEAN
ASSUME RolesAssumption == Parkers \cap Wakers = {}
ASSUME TimedAssumption == Timed \subseteq Parkers
ASSUME ScansAssumption == Scans \subseteq {"upto", "one", "all"}
ASSUME MaxSeqAssumption == MaxSeq \in Nat

VARIABLES
    state, target_seq,   \* per slot
    parked_mask,         \* the set of slots whose bit is set
    published,           \* what the parkers wait for: the last sequence published
    pc,
    goal,                \* per parker: the sequence its predicate is about
    want,                \* per parker: the target it gives try_park
    token,               \* per parker: the slot it tries or holds
    got,                 \* per parker: its re-check found what it waits for
    scan, seq, kind,     \* per waker: candidates left, the seq and the sort of the call
    at,                  \* per waker: the slot it looks at
    woke_one             \* ghost: wake_one_up_to has been called

slots == <<state, target_seq, parked_mask>>
parker == <<goal, want, token, got>>
waker == <<scan, seq, kind, at, woke_one>>
vars == <<slots, published, pc, parker, waker>>

Slots == 0..(Capacity - 1)
(* The parker's token is a slot it has reserved and not given back.         *)
Holds(p, i) ==
    token[p] = i /\ pc[p] \in {"target", "publish", "maskset", "recheck", "wait", "free"}

(* init_waker_layout_raw *)
Init ==
    /\ state = [i \in Slots |-> "FREE"] /\ target_seq = [i \in Slots |-> 0]
    /\ parked_mask = {}
    /\ published = 0
    /\ pc = [t \in Parkers \cup Wakers |-> IF t \in Parkers THEN "try" ELSE "idle"]
    /\ goal = [p \in Parkers |-> 1] /\ want = [p \in Parkers |-> 0]
    /\ token = [p \in Parkers |-> 0]
    /\ got = [p \in Parkers |-> FALSE]
    /\ scan = [w \in Wakers |-> {}] /\ seq = [w \in Wakers |-> 0]
    /\ kind = [w \in Wakers |-> "upto"] /\ at = [w \in Wakers |-> 0]
    /\ woke_one = FALSE

Go(t, s) == pc' = [pc EXCEPT ![t] = s]

-----------------------------------------------------------------------------
(* A parker                                                                 *)

Ready(p) == goal[p] <= published

(* The fast check succeeds and the consumer moves on to the next sequence.  *)
Take(p) ==
    /\ pc[p] = "try" /\ Ready(p)
    /\ goal' = [goal EXCEPT ![p] = @ + 1]
    /\ UNCHANGED <<slots, published, pc, want, token, got, waker>>

(* It fails: the published sequence is loaded, and try_park called with the *)
(* next one.  By then what the parker is after may have been published.     *)
CallPark(p) ==
    /\ pc[p] = "try" /\ ~Ready(p) /\ goal[p] <= MaxSeq
    /\ Go(p, "load")
    /\ UNCHANGED <<slots, published, parker, waker>>

LoadTarget(p) ==
    /\ pc[p] = "load"
    /\ want' = [want EXCEPT ![p] = published + 1]
    /\ token' = [token EXCEPT ![p] = 0]
    /\ Go(p, "reserve")
    /\ UNCHANGED <<slots, published, goal, got, waker>>

SetState(i, s) == state' = [state EXCEPT ![i] = s]

(* As ParkReserve would be with a load and a store in place of the CAS,     *)
(* taking a slot that another parker has reserved in between.               *)
ParkReserveUnchecked(p) ==
    /\ pc[p] = "reserve"
    /\ state[token[p]] \in {"FREE", "RESERVED"}
    /\ SetState(token[p], "RESERVED") /\ Go(p, "target")
    /\ UNCHANGED <<target_seq, parked_mask, published, goal, want, token, got, waker>>

(* The CAS of one slot from FREE to RESERVED; the next slot when it fails;  *)
(* Full, and back to spinning, when there is none.                          *)
ParkReserve(p) ==
    /\ pc[p] = "reserve"
    /\ \/ /\ state[token[p]] = "FREE"
          /\ SetState(token[p], "RESERVED") /\ Go(p, "target")
          /\ UNCHANGED token
       \/ /\ state[token[p]] # "FREE"
          /\ IF token[p] + 1 \in Slots
             THEN token' = [token EXCEPT ![p] = @ + 1] /\ UNCHANGED pc
             ELSE Go(p, "try") /\ UNCHANGED token
          /\ UNCHANGED state
    /\ UNCHANGED <<target_seq, parked_mask, published, goal, want, got, waker>>

ParkTarget(p) ==
    /\ pc[p] = "target"
    /\ target_seq' = [target_seq EXCEPT ![token[p]] = want[p]]
    /\ Go(p, "publish")
    /\ UNCHANGED <<state, parked_mask, published, parker, waker>>

ParkPublish(p) ==
    /\ pc[p] = "publish"
    /\ SetState(token[p], "PARKED") /\ Go(p, "maskset")
    /\ UNCHANGED <<target_seq, parked_mask, published, parker, waker>>

MaskSet(p) ==
    /\ pc[p] = "maskset"
    /\ parked_mask' = parked_mask \cup {token[p]}
    /\ Go(p, "recheck")
    /\ UNCHANGED <<state, target_seq, published, parker, waker>>

(* As Recheck would be if the wrapper waited without checking again.        *)
RecheckDropped(p) ==
    /\ pc[p] = "recheck"
    /\ got' = [got EXCEPT ![p] = FALSE] /\ Go(p, "wait")
    /\ UNCHANGED <<slots, published, goal, want, token, waker>>

(* The wrapper's second check: release the token, or wait.                  *)
Recheck(p) ==
    /\ pc[p] = "recheck"
    /\ got' = [got EXCEPT ![p] = Ready(p)]
    /\ Go(p, IF Ready(p) THEN "free" ELSE "wait")
    /\ UNCHANGED <<slots, published, goal, want, token, waker>>

(* wait_with_plan returns when the state has left PARKED or, for a timed    *)
(* wait, at any moment.                                                     *)
Wait(p) ==
    /\ pc[p] = "wait"
    /\ state[token[p]] # "PARKED" \/ p \in Timed
    /\ Go(p, "free")
    /\ UNCHANGED <<slots, published, parker, waker>>

(* The end of wait and the whole of release: FREE first, then the mask bit. *)
Free(p) ==
    /\ pc[p] = "free"
    /\ SetState(token[p], "FREE") /\ Go(p, "maskclear")
    /\ UNCHANGED <<target_seq, parked_mask, published, parker, waker>>

MaskClear(p) ==
    /\ pc[p] = "maskclear"
    /\ parked_mask' = parked_mask \ {token[p]}
    /\ goal' = IF got[p] THEN [goal EXCEPT ![p] = @ + 1] ELSE goal
    /\ got' = [got EXCEPT ![p] = FALSE]
    /\ Go(p, "try")
    /\ want' = [want EXCEPT ![p] = 0]
    /\ UNCHANGED <<state, target_seq, published, token, waker>>

-----------------------------------------------------------------------------
(* A waker                                                                  *)

Publish(w) ==
    /\ pc[w] = "idle" /\ published < MaxSeq
    /\ published' = published + 1
    /\ seq' = [seq EXCEPT ![w] = published + 1]
    /\ \E k \in Scans : kind' = [kind EXCEPT ![w] = k] /\ woke_one' = (woke_one \/ k = "one")
    /\ Go(w, "candidates")
    /\ UNCHANGED <<slots, parker, scan, at>>

(* wake_candidates *)
WakeCandidates(w) ==
    /\ pc[w] = "candidates"
    /\ scan' = [scan EXCEPT ![w] = IF Masked THEN parked_mask ELSE Slots]
    /\ Go(w, "look")
    /\ UNCHANGED <<slots, published, parker, seq, kind, at, woke_one>>

(* The next candidate: past a slot that is not PARKED; wake_all goes        *)
(* straight to its CAS.                                                     *)
Look(w) ==
    /\ pc[w] = "look"
    /\ \E i \in scan[w] :
         /\ \A j \in scan[w] : i <= j
         /\ scan' = [scan EXCEPT ![w] = @ \ {i}]
         /\ at' = [at EXCEPT ![w] = i]
         /\ Go(w, IF kind[w] = "all" THEN "claim"
                  ELSE IF state[i] = "PARKED" THEN "compare" ELSE "look")
    /\ UNCHANGED <<slots, published, parker, seq, kind, woke_one>>

(* As Compare would be if a target had to be passed, not reached.           *)
CompareStrict(w) ==
    /\ pc[w] = "compare"
    /\ Go(w, IF seq[w] <= target_seq[at[w]] THEN "look" ELSE "claim")
    /\ UNCHANGED <<slots, published, parker, waker>>

Compare(w) ==
    /\ pc[w] = "compare"
    /\ Go(w, IF seq[w] < target_seq[at[w]] THEN "look" ELSE "claim")
    /\ UNCHANGED <<slots, published, parker, waker>>

(* The call returns, and nothing of it is left.                             *)
Return(w) ==
    /\ scan' = [scan EXCEPT ![w] = {}] /\ seq' = [seq EXCEPT ![w] = 0]
    /\ kind' = [kind EXCEPT ![w] = "upto"] /\ at' = [at EXCEPT ![w] = 0]
    /\ Go(w, "idle")
    /\ UNCHANGED woke_one

(* The CAS from PARKED to WOKEN; wake_one_up_to returns after its first.    *)
WakeClaim(w) ==
    /\ pc[w] = "claim"
    /\ \/ /\ state[at[w]] = "PARKED"
          /\ SetState(at[w], "WOKEN")
          /\ IF kind[w] = "one" THEN Return(w) ELSE Go(w, "look") /\ UNCHANGED waker
       \/ state[at[w]] # "PARKED" /\ Go(w, "look") /\ UNCHANGED <<state, waker>>
    /\ UNCHANGED <<target_seq, parked_mask, published, parker>>

WakeDone(w) ==
    /\ pc[w] = "look" /\ scan[w] = {}
    /\ Return(w)
    /\ UNCHANGED <<slots, published, parker>>

-----------------------------------------------------------------------------
Park(p) == \/ Take(p) \/ CallPark(p) \/ LoadTarget(p) \/ ParkReserve(p) \/ ParkTarget(p) \/ ParkPublish(p)
           \/ MaskSet(p) \/ Recheck(p) \/ Wait(p) \/ Free(p) \/ MaskClear(p)

Wake(w) == WakeCandidates(w) \/ Look(w) \/ Compare(w) \/ WakeClaim(w) \/ WakeDone(w)

(* Everything has been published and taken.                                 *)
Done == /\ \A p \in Parkers : pc[p] = "try" /\ goal[p] = MaxSeq + 1
        /\ \A w \in Wakers : pc[w] = "idle"
        /\ UNCHANGED vars

Next == \/ \E p \in Parkers : Park(p)
        \/ \E w \in Wakers : Publish(w) \/ Wake(w)
        \/ Done

(* Threads run: a call that is under way goes on.  Nobody has to publish.   *)
Fairness == /\ \A p \in Parkers : WF_vars(Park(p))
            /\ \A w \in Wakers : WF_vars(Wake(w))

Spec == Init /\ [][Next]_vars
FairSpec == Spec /\ Fairness

-----------------------------------------------------------------------------
(* try_park hands a slot to one parker: a slot is in somebody's hands       *)
(* exactly while it is not FREE, and never in two.                          *)
OneHolder ==
    \A i \in Slots :
        /\ Cardinality({p \in Parkers : Holds(p, i)}) <= 1
        /\ state[i] # "FREE" <=> \E p \in Parkers : Holds(p, i)

Asleep(p) == pc[p] = "wait" /\ state[token[p]] = "PARKED"

(* The wake-before-park race is closed: when no wake call is under way,     *)
(* and none was for one parker only (notify_one, whose callers answer for   *)
(* those it leaves asleep), nobody is left asleep waiting for a             *)
(* sequence that has been published.  "A bit a scan does not see yet is     *)
(* covered by the parker's pre-wait double-check" (WakerHeader.parked_mask).*)
NoLostWakeup ==
    (~woke_one /\ \A w \in Wakers : pc[w] = "idle")
        => \A p \in Parkers : Asleep(p) => goal[p] > published

(* Nobody stays asleep, or keeps trying, once the sequence they are after   *)
(* has been published, if the wake calls are wake_up_to and wake_all.  (The *)
(* sequences are bounded, so that in every behaviour they come to an end.)  *)
PublishedIsTaken == <>[](woke_one \/ \A p \in Parkers : goal[p] > published)

-----------------------------------------------------------------------------
(* What the proofs carry along *)

TypeOK ==
    /\ state \in [Slots -> {"FREE", "RESERVED", "PARKED", "WOKEN"}] /\ target_seq \in [Slots -> Nat]
    /\ parked_mask \in SUBSET Slots /\ published \in Nat
    /\ pc \in [Parkers \cup Wakers ->
                {"try", "load", "reserve", "target", "publish", "maskset", "recheck", "wait", "free",
                 "maskclear", "idle", "candidates", "look", "compare", "claim"}]
    /\ goal \in [Parkers -> Nat] /\ want \in [Parkers -> Nat] /\ token \in [Parkers -> Slots]
    /\ got \in [Parkers -> BOOLEAN]
    /\ scan \in [Wakers -> SUBSET Slots] /\ seq \in [Wakers -> Nat]
    /\ kind \in [Wakers -> {"upto", "one", "all"}] /\ at \in [Wakers -> Slots]
    /\ woke_one \in BOOLEAN

(* Two parkers never hold one slot, and it is not FREE while one does.      *)
Held ==
    /\ \A p, q \in Parkers : \A i \in Slots : Holds(p, i) /\ Holds(q, i) => p = q
    /\ \A i \in Slots : state[i] # "FREE" <=> \E p \in Parkers : Holds(p, i)

(* The target a slot was published with is reached by the next sequence.    *)
Targets ==
    \A p \in Parkers :
        /\ want[p] <= published + 1
        /\ pc[p] \in {"publish", "maskset", "recheck", "wait"} => target_seq[token[p]] = want[p]

(* The call of waker w will still come to the slot that p sleeps on, and    *)
(* its sequence reaches p's target.                                         *)
Covers(w, p) ==
    /\ seq[w] >= target_seq[token[p]]
    /\ \/ pc[w] = "candidates"
       \/ pc[w] \in {"look", "compare", "claim"} /\ token[p] \in scan[w]
       \/ pc[w] \in {"compare", "claim"} /\ at[w] = token[p]

Covered ==
    /\ woke_one \/ \A w \in Wakers : kind[w] # "one"
    /\ \A p \in Parkers : Asleep(p) /\ goal[p] <= published => woke_one \/ \E w \in Wakers : Covers(w, p)

Inductive == TypeOK /\ Held /\ Targets /\ Covered
=============================================================================
