---------------------------- MODULE SharedRWLock ----------------------------
(***************************************************************************)
(* SharedRWLock (shared_rw_lock.rs): a reader-writer lock in one word that *)
(* packs the writer bit, the count of waiting writers and the count of     *)
(* readers.  The loads and the compare_exchanges of the acquire and        *)
(* release loops are separate steps; register_waiting_writer,              *)
(* unregister_waiting_writer and release_write are single read-modify-     *)
(* writes of the word.                                                     *)
(*                                                                         *)
(* try_read_lock and read_lock differ in what their caller does after      *)
(* WouldBlock: give up, or call again.  The callers of the registered      *)
(* claim are write_lock, which tries for ever, and the threads in          *)
(* Deadline, which may give their registration back.                       *)
(***************************************************************************)
EXTENDS Integers, FiniteSets

CONSTANTS Threads, Readers, Writers, Deadline

ASSUME ThreadsAssumption ==
    IsFiniteSet(Threads) /\ Readers \subseteq Threads /\ Writers \subseteq Threads
ASSUME DeadlineAssumption == Deadline \subseteq Threads

VARIABLES word,     \* [writer, waiting, readers]: the three fields of the state word
          pc,
          seen      \* per thread: the word its loop has loaded

vars == <<word, pc, seen>>

Words == [writer : BOOLEAN, waiting : Nat, readers : Nat]
Idle == [writer |-> FALSE, waiting |-> 0, readers |-> 0]
States == {"idle", "r_load", "r_cas", "reading", "rel_load", "rel_cas",
           "w_load", "w_cas", "g_load", "g_cas", "writing"}

TypeOK == /\ word \in Words
          /\ pc \in [Threads -> States]
          /\ seen \in [Threads -> Words]

(* reset *)
Init == /\ word = Idle
        /\ pc = [t \in Threads |-> "idle"]
        /\ seen = [t \in Threads |-> Idle]

Go(t, s) == pc' = [pc EXCEPT ![t] = s]
See(t) == seen' = [seen EXCEPT ![t] = word]

-----------------------------------------------------------------------------
(* try_read_lock_inner *)

CallRead(t) ==
    /\ pc[t] = "idle" /\ t \in Readers
    /\ Go(t, "r_load")
    /\ UNCHANGED <<word, seen>>

(* As ReadLoad would be if readers only looked at the writer bit.           *)
ReadLoadNoPriority(t) ==
    /\ pc[t] = "r_load"
    /\ See(t)
    /\ Go(t, IF word.writer THEN "idle" ELSE "r_cas")
    /\ UNCHANGED word

ReadLoad(t) ==
    /\ pc[t] = "r_load"
    /\ See(t)
    /\ Go(t, IF word.writer \/ word.waiting > 0 THEN "idle" ELSE "r_cas")
    /\ UNCHANGED word

(* A compare_exchange of the loaded word; the loop goes on when it fails.   *)
Cas(t, new, success, failure) ==
    \/ word = seen[t] /\ word' = new /\ Go(t, success) /\ UNCHANGED seen
    \/ word # seen[t] /\ Go(t, failure) /\ UNCHANGED <<word, seen>>

ReadCas(t) ==
    /\ pc[t] = "r_cas"
    /\ Cas(t, [seen[t] EXCEPT !.readers = @ + 1], "reading", "r_load")

-----------------------------------------------------------------------------
(* release_read, by ReadGuard::drop *)

DropReadGuard(t) ==
    /\ pc[t] = "reading"
    /\ Go(t, "rel_load")
    /\ UNCHANGED <<word, seen>>

(* "Silently no-ops to avoid underflow" when there is no reader.            *)
ReleaseLoad(t) ==
    /\ pc[t] = "rel_load"
    /\ See(t)
    /\ Go(t, IF word.readers = 0 THEN "idle" ELSE "rel_cas")
    /\ UNCHANGED word

ReleaseCas(t) ==
    /\ pc[t] = "rel_cas"
    /\ Cas(t, [seen[t] EXCEPT !.readers = @ - 1], "idle", "rel_load")

-----------------------------------------------------------------------------
(* try_write_lock_inner and the registered claim *)

CallTryWrite(t) ==
    /\ pc[t] = "idle" /\ t \in Writers
    /\ Go(t, "w_load")
    /\ UNCHANGED <<word, seen>>

HeldByWriter == word.writer
Held == word.writer \/ word.readers > 0

WriteLoad(t) ==
    /\ pc[t] = "w_load"
    /\ See(t)
    /\ Go(t, IF Held THEN "idle" ELSE "w_cas")
    /\ UNCHANGED word

WriteCas(t) ==
    /\ pc[t] = "w_cas"
    /\ Cas(t, [seen[t] EXCEPT !.writer = TRUE], "writing", "w_load")

(* register_waiting_writer, and into the loop of try_write_lock_registered  *)
Register(t) ==
    /\ pc[t] = "idle" /\ t \in Writers
    /\ word' = [word EXCEPT !.waiting = @ + 1]
    /\ Go(t, "g_load")
    /\ UNCHANGED seen

RegisteredLoad(t) ==
    /\ pc[t] = "g_load"
    /\ ~Held
    /\ See(t)
    /\ Go(t, "g_cas")
    /\ UNCHANGED word

RegisteredCas(t) ==
    /\ pc[t] = "g_cas"
    /\ Cas(t, [seen[t] EXCEPT !.writer = TRUE, !.waiting = @ - 1], "writing", "g_load")

(* WouldBlock, and the caller stops: unregister_waiting_writer              *)
Unregister(t) ==
    /\ pc[t] = "g_load" /\ t \in Deadline
    /\ Held
    /\ word' = [word EXCEPT !.waiting = @ - 1]
    /\ Go(t, "idle")
    /\ UNCHANGED seen

(* release_write, by WriteGuard::drop *)
ReleaseWrite(t) ==
    /\ pc[t] = "writing"
    /\ word' = [word EXCEPT !.writer = FALSE]
    /\ Go(t, "idle")
    /\ UNCHANGED seen

-----------------------------------------------------------------------------
Read(t) == ReadLoad(t) \/ ReadCas(t)
Write(t) == WriteLoad(t) \/ WriteCas(t) \/ RegisteredLoad(t) \/ RegisteredCas(t)
Release(t) == DropReadGuard(t) \/ ReleaseLoad(t) \/ ReleaseCas(t) \/ ReleaseWrite(t)

Next == \E t \in Threads :
            CallRead(t) \/ CallTryWrite(t) \/ Register(t) \/ Unregister(t)
              \/ Read(t) \/ Write(t) \/ Release(t)

(* A call that is under way goes on, and guards are dropped in the end.     *)
Fairness == \A t \in Threads : WF_vars(Read(t)) /\ WF_vars(Write(t)) /\ WF_vars(Release(t))

Spec == Init /\ [][Next]_vars
FairSpec == Spec /\ Fairness

-----------------------------------------------------------------------------
ReadHolders == {t \in Threads : pc[t] \in {"reading", "rel_load", "rel_cas"}}
WriteHolders == {t \in Threads : pc[t] = "writing"}
Registered == {t \in Threads : pc[t] \in {"g_load", "g_cas"}}

(* "Multiple concurrent readers or exactly one writer."                     *)
Exclusion ==
    \A t \in WriteHolders : ReadHolders = {} /\ WriteHolders = {t}

(* The word tells the truth: its fields are the counts of the guards and of *)
(* the registrations that exist, so that a lock all have let go of is free  *)
(* again and nobody is shut out by a registration that was given back.      *)
WordIsAccurate ==
    /\ word.readers = Cardinality(ReadHolders)
    /\ word.waiting = Cardinality(Registered)
    /\ word.writer <=> WriteHolders # {}

(* "When a writer is waiting, new readers block": no step admits a reader   *)
(* while a writer is registered.                                            *)
WriterPriority ==
    [][\A t \in Threads : t \notin ReadHolders /\ t \in ReadHolders' => Registered = {}]_vars

(* "... to prevent writer starvation": while a writer waits in write_lock,  *)
(* some writer gets the lock, however many readers come and go.  Only       *)
(* writers that register and give up again for ever can prevent it, by      *)
(* changing the word between every load and CAS.                            *)
WriterNotStarved ==
    \/ []<><<\E t \in Threads : Unregister(t)>>_vars
    \/ \A t \in Threads \ Deadline : t \in Registered ~> WriteHolders # {}

(* What the proofs carry along: Exclusion as the word and the loops' loaded *)
(* words give it.                                                           *)
Inductive ==
    /\ TypeOK
    /\ WordIsAccurate
    /\ Exclusion
    /\ \A t \in Threads :
         /\ pc[t] = "r_cas" => ~seen[t].writer /\ seen[t].waiting = 0
         /\ pc[t] = "rel_cas" => seen[t].readers > 0
         /\ pc[t] \in {"w_cas", "g_cas"} => ~seen[t].writer /\ seen[t].readers = 0
=============================================================================
