--------------------------- MODULE SharedSemaphore ---------------------------
(***************************************************************************)
(* SharedSemaphore (shared_semaphore.rs): a permit count, a wakeup         *)
(* generation and a waiter count in shared memory.  try_acquire, acquire   *)
(* and acquire_timeout share one loop and differ in what they do at a      *)
(* count of zero: WouldBlock, register and spin, or give up in time.       *)
(*                                                                         *)
(* Permits come back by Permit::drop and by bare calls of release, which   *)
(* a holder makes in place of a forgotten Permit and anybody may make to   *)
(* add a permit.  The count is a u32: it wraps at CountMod.                *)
(***************************************************************************)
EXTENDS Integers, FiniteSets

CONSTANTS Threads,
          InitPermits, MaxPermits,
          MaxBare,      \* bound: releases by threads that hold no permit
          CountMod,     \* 2^32 in the code
          MaxCalls      \* bound: acquire calls of each thread

ASSUME ThreadsAssumption == IsFiniteSet(Threads)
ASSUME PermitsAssumption ==
    /\ InitPermits \in Nat /\ MaxPermits \in Nat /\ InitPermits <= MaxPermits
    /\ CountMod \in Nat /\ MaxPermits + 1 < CountMod
ASSUME BoundsAssumption == MaxBare \in Nat /\ MaxCalls \in Nat

VARIABLES count, wakeup, waiters,
          pc,
          seen,         \* per thread: the count its loop has loaded
          snapshot,     \* per thread: the generation it waits to change
          calls,        \* per thread: acquire calls so far
          bare,         \* bare releases so far
          added, lost   \* ghosts: bare releases accepted, dropped permits refused

sem == <<count, wakeup, waiters>>
ghosts == <<bare, added, lost>>
vars == <<sem, pc, seen, snapshot, calls, ghosts>>

States == {"idle", "load", "cas", "enter", "snap", "recheck", "spin", "leave", "hold",
           "drop", "drop_back", "bare", "bare_back", "waiters", "bump"}
Holders == {t \in Threads : pc[t] \in {"hold", "drop"}}
RollingBack == {t \in Threads : pc[t] \in {"drop_back", "bare_back"}}
Waiting == {t \in Threads : pc[t] \in {"snap", "recheck", "spin", "leave"}}

TypeOK ==
    /\ count \in 0..(CountMod - 1) /\ wakeup \in Nat /\ waiters \in Nat
    /\ pc \in [Threads -> States]
    /\ seen \in [Threads -> 0..(CountMod - 1)] /\ snapshot \in [Threads -> Nat]
    /\ calls \in [Threads -> Nat]
    /\ bare \in 0..MaxBare /\ added \in Nat /\ lost \in Nat

(* create *)
Init ==
    /\ count = InitPermits /\ wakeup = 0 /\ waiters = 0
    /\ pc = [t \in Threads |-> "idle"]
    /\ seen = [t \in Threads |-> 0] /\ snapshot = [t \in Threads |-> 0]
    /\ calls = [t \in Threads |-> 0]
    /\ bare = 0 /\ added = 0 /\ lost = 0

Go(t, s) == pc' = [pc EXCEPT ![t] = s]

-----------------------------------------------------------------------------
(* try_acquire, acquire, acquire_timeout *)

Call(t) ==
    /\ pc[t] = "idle" /\ calls[t] < MaxCalls
    /\ calls' = [calls EXCEPT ![t] = @ + 1]
    /\ Go(t, "load")
    /\ UNCHANGED <<sem, seen, snapshot, ghosts>>

(* A count of zero: WouldBlock or Timeout ends the call, or it goes to wait. *)
Load(t) ==
    /\ pc[t] = "load"
    /\ seen' = [seen EXCEPT ![t] = count]
    /\ IF count > 0 THEN Go(t, "cas") ELSE Go(t, "idle") \/ Go(t, "enter")
    /\ UNCHANGED <<sem, snapshot, calls, ghosts>>

(* As Cas would be with a store of the decremented loaded count.            *)
CasUnchecked(t) ==
    /\ pc[t] = "cas"
    /\ count' = seen[t] - 1 /\ Go(t, "hold")
    /\ UNCHANGED <<wakeup, waiters, seen, snapshot, calls, ghosts>>

Cas(t) ==
    /\ pc[t] = "cas"
    /\ \/ count = seen[t] /\ count' = seen[t] - 1 /\ Go(t, "hold")
       \/ count # seen[t] /\ Go(t, "load") /\ UNCHANGED count
    /\ seen' = [seen EXCEPT ![t] = 0]
    /\ UNCHANGED <<wakeup, waiters, snapshot, calls, ghosts>>

Enter(t) ==
    /\ pc[t] = "enter"
    /\ waiters' = waiters + 1
    /\ Go(t, "snap")
    /\ UNCHANGED <<count, wakeup, seen, snapshot, calls, ghosts>>

Snap(t) ==
    /\ pc[t] = "snap"
    /\ snapshot' = [snapshot EXCEPT ![t] = wakeup]
    /\ Go(t, "recheck")
    /\ UNCHANGED <<sem, seen, calls, ghosts>>

Recheck(t) ==
    /\ pc[t] = "recheck"
    /\ Go(t, IF count > 0 THEN "leave" ELSE "spin")
    /\ UNCHANGED <<sem, seen, snapshot, calls, ghosts>>

(* One round of the spin loop.  The loads of count and wakeup are one step: *)
(* what the round decides would be decided by a round at one of the two.    *)
Spin(t) ==
    /\ pc[t] = "spin"
    /\ count > 0 \/ wakeup # snapshot[t]
    /\ Go(t, "leave")
    /\ UNCHANGED <<sem, seen, snapshot, calls, ghosts>>

(* Deregister and start over, or return Timeout from the spin loop.         *)
Leave(t) ==
    /\ pc[t] = "leave" \/ pc[t] = "spin"
    /\ waiters' = waiters - 1
    /\ IF pc[t] = "spin" THEN Go(t, "idle") ELSE Go(t, "load")
    /\ snapshot' = [snapshot EXCEPT ![t] = 0]
    /\ UNCHANGED <<count, wakeup, seen, calls, ghosts>>

-----------------------------------------------------------------------------
(* release, by Permit::drop and by bare calls *)

Drop(t) ==
    /\ pc[t] = "hold"
    /\ Go(t, "drop")
    /\ UNCHANGED <<sem, seen, snapshot, calls, ghosts>>

CallRelease(t) ==
    /\ pc[t] = "idle" /\ bare < MaxBare
    /\ bare' = bare + 1
    /\ Go(t, "bare")
    /\ UNCHANGED <<sem, seen, snapshot, calls, added, lost>>

(* count.fetch_add(1); at max_permits or above the release is refused.      *)
ReleaseAdd(t) ==
    /\ pc[t] \in {"drop", "bare"}
    /\ count' = (count + 1) % CountMod
    /\ \/ /\ count >= MaxPermits
          /\ Go(t, IF pc[t] = "drop" THEN "drop_back" ELSE "bare_back")
          /\ lost' = IF pc[t] = "drop" THEN lost + 1 ELSE lost
          /\ UNCHANGED added
       \/ /\ count < MaxPermits
          /\ Go(t, "waiters")
          /\ added' = IF pc[t] = "bare" THEN added + 1 ELSE added
          /\ UNCHANGED lost
    /\ UNCHANGED <<wakeup, waiters, seen, snapshot, calls, bare>>

(* As Rollback would be if a refused release kept what it added.            *)
RollbackKept(t) ==
    /\ pc[t] \in {"drop_back", "bare_back"}
    /\ Go(t, "idle")
    /\ UNCHANGED <<sem, seen, snapshot, calls, ghosts>>

(* The refused release takes back what it added: count.fetch_sub(1).        *)
Rollback(t) ==
    /\ pc[t] \in {"drop_back", "bare_back"}
    /\ count' = (count + CountMod - 1) % CountMod
    /\ Go(t, "idle")
    /\ UNCHANGED <<wakeup, waiters, seen, snapshot, calls, ghosts>>

ReadWaiters(t) ==
    /\ pc[t] = "waiters"
    /\ Go(t, IF waiters > 0 THEN "bump" ELSE "idle")
    /\ UNCHANGED <<sem, seen, snapshot, calls, ghosts>>

Bump(t) ==
    /\ pc[t] = "bump"
    /\ wakeup' = wakeup + 1
    /\ Go(t, "idle")
    /\ UNCHANGED <<count, waiters, seen, snapshot, calls, ghosts>>

-----------------------------------------------------------------------------
Next == \E t \in Threads :
    \/ Call(t) \/ Load(t) \/ Cas(t) \/ Enter(t) \/ Snap(t) \/ Recheck(t) \/ Spin(t) \/ Leave(t)
    \/ Drop(t) \/ CallRelease(t) \/ ReleaseAdd(t) \/ Rollback(t) \/ ReadWaiters(t) \/ Bump(t)

Spec == Init /\ [][Next]_vars

-----------------------------------------------------------------------------
(* Whoever over-releases and whenever, no permit appears or disappears      *)
(* unaccounted: what the count and the holders have together is what the    *)
(* semaphore began with and was given, less what was refused, and a refused *)
(* release's own permit until it is rolled back.                            *)
PermitsAccountedFor ==
    (count + Cardinality(Holders)) % CountMod
        = (InitPermits + added + Cardinality(RollingBack) - lost) % CountMod

(* The waiter count that release consults to decide on the wakeup bump is   *)
(* the number of threads that wait.                                         *)
WaitersBalanced == waiters = Cardinality(Waiting)

(* The semaphore's purpose: no more than max_permits hold a permit, as long *)
(* as no more bare releases were made than create left room for.            *)
AtMostMaxPermits == InitPermits + bare <= MaxPermits => Cardinality(Holders) <= MaxPermits

(* "The rollback inside `release` keeps the count bounded by max_permits":  *)
(* when every refused release has rolled back, the count is in bounds.      *)
CountBounded == RollingBack = {} => count <= MaxPermits

(* What the proofs carry along.  The books balance throughout; as long as   *)
(* callers have added no more permits than there is room for, they balance  *)
(* without a wrap, and no release is refused.                               *)
BareCalls == {t \in Threads : pc[t] = "bare"}
Inductive ==
    /\ TypeOK
    /\ WaitersBalanced
    /\ PermitsAccountedFor
    /\ added + Cardinality(BareCalls) <= bare
    /\ InitPermits + bare <= MaxPermits =>
         RollingBack = {} /\ count + Cardinality(Holders) = InitPermits + added
    /\ \A t \in Threads : pc[t] = "cas" => seen[t] > 0
=============================================================================
