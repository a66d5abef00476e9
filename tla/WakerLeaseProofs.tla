-------------------------- MODULE WakerLeaseProofs --------------------------
(***************************************************************************)
(* CrossProcessWaker for any sets of parkers and wakers and any number of  *)
(* slots: a slot is in one parker's hands, and a scan over all the slots   *)
(* leaves nobody asleep whose sequence has been published.  LeaderElection *)
(* and OwnerLease for every set of processes and threads, every grace and  *)
(* any number of crashes and writes.                                       *)
(***************************************************************************)
EXTENDS CrossProcessWaker, OwnerLease, TLAPS

-----------------------------------------------------------------------------
(* CrossProcessWaker *)

(* The invariant *)

(* Nobody holds a slot in a new layout.                                     *)
LEMMA InitInductive == Init => Inductive
<1> SUFFICES ASSUME Init PROVE Inductive
  OBVIOUS
<1>0. 0 \in Slots
  BY CapacityAssumption DEF Slots
<1>1. TypeOK
  BY <1>0, Zenon DEF Init, TypeOK
<1>2. \A p \in Parkers : pc[p] = "try"
  BY DEF Init
<1>3. Held /\ Covered
  BY <1>2 DEF Init, Held, Covered, Holds, Asleep
<1>4. Targets
  BY <1>2 DEF Init, Targets
<1> QED
  BY <1>1, <1>3, <1>4 DEF Inductive

(* Every step keeps the types.                                              *)
LEMMA NextTypeOK == TypeOK /\ [Next]_vars => TypeOK'
<1> SUFFICES ASSUME TypeOK, [Next]_vars PROVE TypeOK'
  OBVIOUS
<1> USE DEF slots, parker, waker, vars, Go, SetState
<1>0. 0 \in Slots
  BY CapacityAssumption DEF Slots
<1>1. CASE UNCHANGED vars
  BY <1>1 DEF TypeOK
<1>2. ASSUME NEW p \in Parkers, Take(p) PROVE TypeOK'
  BY <1>2 DEF TypeOK, Take
<1>3. ASSUME NEW p \in Parkers, CallPark(p) PROVE TypeOK'
  BY <1>3 DEF TypeOK, CallPark
<1>4. ASSUME NEW p \in Parkers, LoadTarget(p) PROVE TypeOK'
  BY <1>0, <1>4 DEF TypeOK, LoadTarget
<1>5. ASSUME NEW p \in Parkers, ParkReserve(p) PROVE TypeOK'
  BY <1>5, SMTT(30) DEF TypeOK, ParkReserve
<1>6. ASSUME NEW p \in Parkers, ParkTarget(p) PROVE TypeOK'
  BY <1>6 DEF TypeOK, ParkTarget
<1>7. ASSUME NEW p \in Parkers, ParkPublish(p) PROVE TypeOK'
  BY <1>7 DEF TypeOK, ParkPublish
<1>8. ASSUME NEW p \in Parkers, MaskSet(p) PROVE TypeOK'
  BY <1>8 DEF TypeOK, MaskSet
<1>9. ASSUME NEW p \in Parkers, Recheck(p) PROVE TypeOK'
  <2>1. Ready(p) \in BOOLEAN
    BY DEF Ready
  <2> QED
    BY <1>9, <2>1 DEF TypeOK, Recheck
<1>10. ASSUME NEW p \in Parkers, Wait(p) PROVE TypeOK'
  BY <1>10 DEF TypeOK, Wait
<1>11. ASSUME NEW p \in Parkers, Free(p) PROVE TypeOK'
  BY <1>11 DEF TypeOK, Free
<1>12. ASSUME NEW p \in Parkers, MaskClear(p) PROVE TypeOK'
  BY <1>12 DEF TypeOK, MaskClear
<1>13. ASSUME NEW w \in Wakers, Publish(w) PROVE TypeOK'
  <2>1. PICK k \in Scans : kind' = [kind EXCEPT ![w] = k] /\ woke_one' = (woke_one \/ k = "one")
    BY <1>13, Zenon DEF Publish
  <2> QED
    BY <1>13, <2>1, ScansAssumption DEF TypeOK, Publish
<1>14. ASSUME NEW w \in Wakers, WakeCandidates(w) PROVE TypeOK'
  BY <1>14 DEF TypeOK, WakeCandidates
<1>15. ASSUME NEW w \in Wakers, Look(w) PROVE TypeOK'
  BY <1>15 DEF TypeOK, Look
<1>16. ASSUME NEW w \in Wakers, Compare(w) PROVE TypeOK'
  BY <1>16 DEF TypeOK, Compare
<1>17. ASSUME NEW w \in Wakers, WakeClaim(w) PROVE TypeOK'
  BY <1>0, <1>17, SMTT(30) DEF TypeOK, WakeClaim, Return
<1>18. ASSUME NEW w \in Wakers, WakeDone(w) PROVE TypeOK'
  BY <1>0, <1>18 DEF TypeOK, WakeDone, Return
<1> QED
  BY <1>1, <1>2, <1>3, <1>4, <1>5, <1>6, <1>7, <1>8, <1>9, <1>10, <1>11, <1>12, <1>13, <1>14, <1>15,
     <1>16, <1>17, <1>18 DEF Next, Park, Wake, Done

(* A slot passes from hand to hand through FREE only. *)
LEMMA NextHeld == TypeOK /\ Held /\ [Next]_vars => Held'
<1> SUFFICES ASSUME TypeOK, Held, [Next]_vars PROVE Held'
  OBVIOUS
<1> USE DEF slots, parker, waker, vars, Go, SetState
<1>1. CASE UNCHANGED vars
  BY <1>1 DEF Held, Holds
<1>2. ASSUME NEW p \in Parkers, Take(p) PROVE Held'
  BY <1>2 DEF TypeOK, Held, Holds, Take
<1>3. ASSUME NEW p \in Parkers, CallPark(p) PROVE Held'
  BY <1>3 DEF TypeOK, Held, Holds, CallPark
<1>4. ASSUME NEW p \in Parkers, LoadTarget(p) PROVE Held'
  BY <1>4 DEF TypeOK, Held, Holds, LoadTarget
<1>5. ASSUME NEW p \in Parkers, ParkReserve(p) PROVE Held'
  BY <1>5, SMTT(30) DEF TypeOK, Held, Holds, ParkReserve
<1>6. ASSUME NEW p \in Parkers, ParkTarget(p) PROVE Held'
  BY <1>6 DEF TypeOK, Held, Holds, ParkTarget
<1>7. ASSUME NEW p \in Parkers, ParkPublish(p) PROVE Held'
  BY <1>7 DEF TypeOK, Held, Holds, ParkPublish
<1>8. ASSUME NEW p \in Parkers, MaskSet(p) PROVE Held'
  BY <1>8 DEF TypeOK, Held, Holds, MaskSet
<1>9. ASSUME NEW p \in Parkers, Recheck(p) PROVE Held'
  BY <1>9 DEF TypeOK, Held, Holds, Recheck
<1>10. ASSUME NEW p \in Parkers, Wait(p) PROVE Held'
  BY <1>10 DEF TypeOK, Held, Holds, Wait
<1>11. ASSUME NEW p \in Parkers, Free(p) PROVE Held'
  BY <1>11 DEF TypeOK, Held, Holds, Free
<1>12. ASSUME NEW p \in Parkers, MaskClear(p) PROVE Held'
  BY <1>12 DEF TypeOK, Held, Holds, MaskClear
<1>13. ASSUME NEW w \in Wakers, Publish(w) PROVE Held'
  BY <1>13, RolesAssumption DEF TypeOK, Held, Holds, Publish
<1>14. ASSUME NEW w \in Wakers, WakeCandidates(w) PROVE Held'
  BY <1>14, RolesAssumption DEF TypeOK, Held, Holds, WakeCandidates
<1>15. ASSUME NEW w \in Wakers, Look(w) PROVE Held'
  BY <1>15, RolesAssumption DEF TypeOK, Held, Holds, Look
<1>16. ASSUME NEW w \in Wakers, Compare(w) PROVE Held'
  BY <1>16, RolesAssumption DEF TypeOK, Held, Holds, Compare
<1>17. ASSUME NEW w \in Wakers, WakeClaim(w) PROVE Held'
  BY <1>17, RolesAssumption DEF TypeOK, Held, Holds, WakeClaim, Return
<1>18. ASSUME NEW w \in Wakers, WakeDone(w) PROVE Held'
  BY <1>18, RolesAssumption DEF TypeOK, Held, Holds, WakeDone, Return
<1> QED
  BY <1>1, <1>2, <1>3, <1>4, <1>5, <1>6, <1>7, <1>8, <1>9, <1>10, <1>11, <1>12, <1>13, <1>14,
     <1>15, <1>16, <1>17, <1>18 DEF Next, Park, Wake, Done

(* No other parker writes the target of a slot that is held. *)
LEMMA NextTargets == TypeOK /\ Held /\ Targets /\ [Next]_vars => Targets'
<1> SUFFICES ASSUME TypeOK, Held, Targets, [Next]_vars PROVE Targets'
  OBVIOUS
<1> USE DEF slots, parker, waker, vars, Go, SetState
<1>1. CASE UNCHANGED vars
  BY <1>1 DEF Targets, Held, Holds
<1>2. ASSUME NEW p \in Parkers, Take(p) PROVE Targets'
  BY <1>2 DEF TypeOK, Targets, Held, Holds, Take
<1>3. ASSUME NEW p \in Parkers, CallPark(p) PROVE Targets'
  BY <1>3 DEF TypeOK, Targets, Held, Holds, CallPark
<1>4. ASSUME NEW p \in Parkers, LoadTarget(p) PROVE Targets'
  BY <1>4 DEF TypeOK, Targets, Held, Holds, LoadTarget
<1>5. ASSUME NEW p \in Parkers, ParkReserve(p) PROVE Targets'
  BY <1>5 DEF TypeOK, Targets, Held, Holds, ParkReserve
<1>6. ASSUME NEW p \in Parkers, ParkTarget(p) PROVE Targets'
  BY <1>6 DEF TypeOK, Targets, Held, Holds, ParkTarget
<1>7. ASSUME NEW p \in Parkers, ParkPublish(p) PROVE Targets'
  BY <1>7 DEF TypeOK, Targets, Held, Holds, ParkPublish
<1>8. ASSUME NEW p \in Parkers, MaskSet(p) PROVE Targets'
  BY <1>8 DEF TypeOK, Targets, Held, Holds, MaskSet
<1>9. ASSUME NEW p \in Parkers, Recheck(p) PROVE Targets'
  BY <1>9 DEF TypeOK, Targets, Held, Holds, Recheck
<1>10. ASSUME NEW p \in Parkers, Wait(p) PROVE Targets'
  BY <1>10 DEF TypeOK, Targets, Held, Holds, Wait
<1>11. ASSUME NEW p \in Parkers, Free(p) PROVE Targets'
  BY <1>11 DEF TypeOK, Targets, Held, Holds, Free
<1>12. ASSUME NEW p \in Parkers, MaskClear(p) PROVE Targets'
  BY <1>12 DEF TypeOK, Targets, Held, Holds, MaskClear
<1>13. ASSUME NEW w \in Wakers, Publish(w) PROVE Targets'
  BY <1>13, RolesAssumption DEF TypeOK, Targets, Held, Holds, Publish
<1>14. ASSUME NEW w \in Wakers, WakeCandidates(w) PROVE Targets'
  BY <1>14, RolesAssumption DEF TypeOK, Targets, Held, Holds, WakeCandidates
<1>15. ASSUME NEW w \in Wakers, Look(w) PROVE Targets'
  BY <1>15, RolesAssumption DEF TypeOK, Targets, Held, Holds, Look
<1>16. ASSUME NEW w \in Wakers, Compare(w) PROVE Targets'
  BY <1>16, RolesAssumption DEF TypeOK, Targets, Held, Holds, Compare
<1>17. ASSUME NEW w \in Wakers, WakeClaim(w) PROVE Targets'
  BY <1>17, RolesAssumption DEF TypeOK, Targets, Held, Holds, WakeClaim, Return
<1>18. ASSUME NEW w \in Wakers, WakeDone(w) PROVE Targets'
  BY <1>18, RolesAssumption DEF TypeOK, Targets, Held, Holds, WakeDone, Return
<1> QED
  BY <1>1, <1>2, <1>3, <1>4, <1>5, <1>6, <1>7, <1>8, <1>9, <1>10, <1>11, <1>12, <1>13, <1>14,
     <1>15, <1>16, <1>17, <1>18 DEF Next, Park, Wake, Done

(* Whoever sleeps past what was published has a call on its way to them.   *)
LEMMA NextCovered == ~Masked /\ Inductive /\ [Next]_vars => Covered'
<1> SUFFICES ASSUME ~Masked, Inductive, [Next]_vars PROVE Covered'
  OBVIOUS
<1> USE DEF slots, parker, waker, vars, Go, SetState
<1>0. TypeOK /\ Held /\ Targets /\ Covered
  BY DEF Inductive
<1>1. CASE UNCHANGED vars
  BY <1>0, <1>1 DEF Covered, Covers, Asleep, Ready
<1>2. ASSUME NEW p \in Parkers, Take(p) PROVE Covered'
  BY <1>0, <1>2 DEF TypeOK, Covered, Covers, Asleep, Ready, Take
<1>3. ASSUME NEW p \in Parkers, CallPark(p) PROVE Covered'
  BY <1>0, <1>3 DEF TypeOK, Covered, Covers, Asleep, Ready, CallPark
<1>4. ASSUME NEW p \in Parkers, LoadTarget(p) PROVE Covered'
  BY <1>0, <1>4 DEF TypeOK, Covered, Covers, Asleep, Ready, LoadTarget
<1>5. ASSUME NEW p \in Parkers, ParkReserve(p) PROVE Covered'
  BY <1>0, <1>5 DEF TypeOK, Covered, Covers, Asleep, Ready, ParkReserve
<1>6. ASSUME NEW p \in Parkers, ParkTarget(p) PROVE Covered'
  <2>1. \A q \in Parkers : Asleep(q)' => q # p /\ token[q] # token[p]
    BY <1>0, <1>6 DEF TypeOK, Asleep, Held, Holds, ParkTarget
  <2>2. \A q \in Parkers : Asleep(q)' => Asleep(q) /\ target_seq'[token[q]] = target_seq[token[q]]
    BY <1>0, <1>6, <2>1 DEF TypeOK, Asleep, ParkTarget
  <2>3. \A w \in Wakers : \A q \in Parkers : Asleep(q)' /\ Covers(w, q) => Covers(w, q)'
    BY <1>0, <1>6, <2>2, RolesAssumption DEF TypeOK, Covers, ParkTarget
  <2> QED
    BY <1>0, <1>6, <2>2, <2>3 DEF Covered, ParkTarget
<1>7. ASSUME NEW p \in Parkers, ParkPublish(p) PROVE Covered'
  <2>1. \A q \in Parkers : Asleep(q)' => q # p /\ token[q] # token[p]
    BY <1>0, <1>7 DEF TypeOK, Asleep, Held, Holds, ParkPublish
  <2>2. \A q \in Parkers : Asleep(q)' => Asleep(q) /\ target_seq'[token[q]] = target_seq[token[q]]
    BY <1>0, <1>7, <2>1 DEF TypeOK, Asleep, ParkPublish
  <2>3. \A w \in Wakers : \A q \in Parkers : Asleep(q)' /\ Covers(w, q) => Covers(w, q)'
    BY <1>0, <1>7, <2>2, RolesAssumption DEF TypeOK, Covers, ParkPublish
  <2> QED
    BY <1>0, <1>7, <2>2, <2>3 DEF Covered, ParkPublish
<1>8. ASSUME NEW p \in Parkers, MaskSet(p) PROVE Covered'
  BY <1>0, <1>8 DEF TypeOK, Covered, Covers, Asleep, Ready, MaskSet
<1>9. ASSUME NEW p \in Parkers, Recheck(p) PROVE Covered'
  BY <1>0, <1>9 DEF TypeOK, Covered, Covers, Asleep, Ready, Recheck
<1>10. ASSUME NEW p \in Parkers, Wait(p) PROVE Covered'
  BY <1>0, <1>10 DEF TypeOK, Covered, Covers, Asleep, Ready, Wait
<1>11. ASSUME NEW p \in Parkers, Free(p) PROVE Covered'
  BY <1>0, <1>11 DEF TypeOK, Covered, Covers, Asleep, Ready, Free
<1>12. ASSUME NEW p \in Parkers, MaskClear(p) PROVE Covered'
  BY <1>0, <1>12 DEF TypeOK, Covered, Covers, Asleep, Ready, MaskClear
<1>13. ASSUME NEW w \in Wakers, Publish(w) PROVE Covered'
  <2>1. PICK k \in Scans : kind' = [kind EXCEPT ![w] = k] /\ woke_one' = (woke_one \/ k = "one")
    BY <1>13, Zenon DEF Publish
  <2>2. woke_one' \/ \A v \in Wakers : kind'[v] # "one"
    BY <1>0, <2>1, Zenon DEF Covered, TypeOK
  <2>3. \A q \in Parkers : Asleep(q)' => Asleep(q)
    BY <1>0, <1>13, RolesAssumption DEF TypeOK, Asleep, Publish
  <2>4. \A v \in Wakers : \A q \in Parkers : Covers(v, q) => Covers(v, q)'
    BY <1>0, <1>13 DEF TypeOK, Covers, Publish
  <2>5. ASSUME NEW q \in Parkers, Asleep(q), goal[q] > published PROVE Covers(w, q)'
    <3>1. target_seq[token[q]] <= published + 1
      BY <1>0, <2>5 DEF Targets, Asleep
    <3> QED
      BY <1>0, <1>13, <3>1 DEF TypeOK, Covers, Publish
  <2>6. \A q \in Parkers : goal[q] > published \/ goal[q] <= published
    BY <1>0 DEF TypeOK
  <2> QED
    BY <1>0, <1>13, <2>1, <2>2, <2>3, <2>4, <2>5, <2>6, Zenon DEF Covered, Publish
<1>14. ASSUME NEW w \in Wakers, WakeCandidates(w) PROVE Covered'
  BY <1>0, <1>14, RolesAssumption DEF TypeOK, Covered, Covers, Asleep, Ready, WakeCandidates
<1>15. ASSUME NEW w \in Wakers, Look(w) PROVE Covered'
  BY <1>0, <1>15, RolesAssumption DEF TypeOK, Covered, Covers, Asleep, Ready, Look
<1>16. ASSUME NEW w \in Wakers, Compare(w) PROVE Covered'
  BY <1>0, <1>16, RolesAssumption DEF TypeOK, Covered, Covers, Asleep, Ready, Compare
<1>17. ASSUME NEW w \in Wakers, WakeClaim(w) PROVE Covered'
  BY <1>0, <1>17, RolesAssumption DEF TypeOK, Covered, Covers, Asleep, Ready, WakeClaim, Return
<1>18. ASSUME NEW w \in Wakers, WakeDone(w) PROVE Covered'
  BY <1>0, <1>18, RolesAssumption DEF TypeOK, Covered, Covers, Asleep, Ready, WakeDone, Return
<1> QED
  BY <1>1, <1>2, <1>3, <1>4, <1>5, <1>6, <1>7, <1>8, <1>9, <1>10, <1>11, <1>12, <1>13, <1>14,
     Zenon, <1>15, <1>16, <1>17, <1>18 DEF Next, Park, Wake, Done

-----------------------------------------------------------------------------
INSTANCE FiniteSetTheorems

(* The results *)

(* The holding of slots: one parker has a slot from its CAS from FREE to    *)
(* RESERVED until its store of FREE, whatever the wakers do to the state.   *)
THEOREM WakerOneHolder == Spec => []OneHolder
<1> DEFINE IInv == TypeOK /\ Held
<1>1. Init => IInv
  BY InitInductive DEF Inductive
<1>2. IInv /\ [Next]_vars => IInv'
  BY NextTypeOK, NextHeld
<1>3. IInv => OneHolder
  <2> SUFFICES ASSUME Held, NEW i \in Slots
               PROVE  Cardinality({p \in Parkers : Holds(p, i)}) <= 1
    BY DEF OneHolder, Held
  <2> DEFINE S == {p \in Parkers : Holds(p, i)}
  <2>1. \A p, q \in S : p = q
    BY DEF Held
  <2>2. CASE S = {}
    BY <2>2, FS_EmptySet
  <2>3. CASE S # {}
    <3>1. PICK p \in S : TRUE
      BY <2>3
    <3>2. S = {p}
      BY <2>1, <3>1
    <3> HIDE DEF S
    <3>3. Cardinality(S) = 1
      BY <3>2, FS_Singleton
    <3> QED
      BY <3>3 DEF S
  <2> QED
    BY <2>2, <2>3
<1> QED
  BY <1>1, <1>2, <1>3, PTL DEF Spec

(* The wake-before-park race is closed for scans over all the slots: when   *)
(* every wake call has returned, nobody sleeps whose sequence has been      *)
(* published.                                                               *)
THEOREM WakerNoLostWakeup ==
    ASSUME ~Masked
    PROVE  Spec => []NoLostWakeup
<1>1. Inductive /\ [Next]_vars => Inductive'
  BY NextTypeOK, NextHeld, NextTargets, NextCovered DEF Inductive
<1>2. Inductive => NoLostWakeup
  <2> SUFFICES ASSUME Inductive, ~woke_one, \A w \in Wakers : pc[w] = "idle",
                      NEW p \in Parkers, Asleep(p)
               PROVE  goal[p] > published
    BY DEF NoLostWakeup
  <2>1. \A w \in Wakers : ~Covers(w, p)
    BY DEF Covers
  <2>2. ~(goal[p] <= published)
    BY <2>1 DEF Inductive, Covered
  <2>3. goal[p] \in Nat /\ published \in Nat
    BY DEF Inductive, TypeOK
  <2> QED
    BY <2>2, <2>3
<1> QED
  BY <1>1, <1>2, InitInductive, PTL DEF Spec

-----------------------------------------------------------------------------
(* LeaderElection and OwnerLease *)

(* Reducing one summand first does not change a sum modulo TermWrap.        *)
LEMMA ModSum ==
    ASSUME NEW a \in Nat, NEW b \in Nat
    PROVE  ((a % TermWrap) + b) % TermWrap = (a + b) % TermWrap
<1> DEFINE q == a \div TermWrap
           r == a % TermWrap
           q1 == (a + b) \div TermWrap
           r1 == (a + b) % TermWrap
           q2 == (r + b) \div TermWrap
           r2 == (r + b) % TermWrap
<1>0. TermWrap \in Nat /\ TermWrap > 0
  BY TermAssumption
<1>1. q \in Int /\ r \in 0..(TermWrap - 1) /\ a = TermWrap * q + r
  BY <1>0
<1>2. q1 \in Int /\ r1 \in 0..(TermWrap - 1) /\ a + b = TermWrap * q1 + r1
  BY <1>0
<1>3. q2 \in Int /\ r2 \in 0..(TermWrap - 1) /\ r + b = TermWrap * q2 + r2
  BY <1>0, <1>1
<1> HIDE DEF q, r, q1, r1, q2, r2
<1>4. r2 - r1 = TermWrap * (q1 - q - q2)
  BY <1>0, <1>1, <1>2, <1>3
<1> DEFINE k == q1 - q - q2
<1>5. k \in Int /\ r2 - r1 = TermWrap * k
  BY <1>1, <1>2, <1>3, <1>4
<1>6. r2 - r1 < TermWrap /\ r2 - r1 > 0 - TermWrap
  BY <1>0, <1>2, <1>3
<1> HIDE DEF k
<1>7. CASE k = 0
  <2>1. r2 = r1
    BY <1>0, <1>2, <1>3, <1>5, <1>7
  <2> QED BY <2>1 DEF r1, r2, r
<1>8. CASE k >= 1
  BY <1>0, <1>2, <1>3, <1>5, <1>6, <1>8
<1>9. CASE k <= 0 - 1
  BY <1>0, <1>2, <1>3, <1>5, <1>6, <1>9
<1> QED BY <1>5, <1>7, <1>8, <1>9

(* Every step of the election counts a handover and its increment alike.    *)
LEMMA TermNextInv ==
    ASSUME TermInv, [ElectionNext]_elvars PROVE TermInv'
<1> USE DEF TermInv, election, ghosts
<1>0. TermWrap \in Nat /\ TermWrap > 0 /\ IsFiniteSet(Counting) /\ Cardinality(Counting) \in Nat
  BY TermAssumption, PidAssumption, FS_Subset, FS_CardinalityType DEF Counting
<1>1. ASSUME NEW t \in Claimants, ClaimCas(t) PROVE TermInv'
  <2>1. CASE current_leader_pid = cur[t]
    <3>1. /\ elpc[t] = "cas" /\ elpc' = [elpc EXCEPT ![t] = "term"] /\ election_term' = election_term
          /\ handovers' = (handovers + 1) % TermWrap
      BY <1>1, <2>1 DEF ClaimCas, At, Goes
    <3>2. Counting' = Counting \cup {t} /\ t \notin Counting
      BY <3>1 DEF Counting
    <3>3. Cardinality(Counting') = Cardinality(Counting) + 1
      BY <1>0, <3>2, FS_AddElement
    <3>4. handovers' = (election_term + Cardinality(Counting) + 1) % TermWrap
      <4>1. election_term + Cardinality(Counting) \in Nat /\ 1 \in Nat
        BY <1>0
      <4>2. (((election_term + Cardinality(Counting)) % TermWrap) + 1) % TermWrap
              = (election_term + Cardinality(Counting) + 1) % TermWrap
        BY ONLY <4>1, ModSum
      <4> QED BY <3>1, <4>2 DEF TermCountsHandovers
    <3> QED BY <1>0, <3>1, <3>3, <3>4 DEF TermCountsHandovers
  <2>2. CASE current_leader_pid # cur[t]
    <3>1. /\ elpc[t] = "cas" /\ elpc' = [elpc EXCEPT ![t] = "load"]
          /\ UNCHANGED <<election_term, handovers>>
      BY <1>1, <2>2 DEF ClaimCas, At, Goes
    <3>2. Counting' = Counting
      BY <3>1 DEF Counting
    <3> QED BY <3>1, <3>2 DEF TermCountsHandovers
  <2> QED BY <2>1, <2>2
<1>2. ASSUME NEW t \in Claimants, ClaimTerm(t) PROVE TermInv'
  <2>1. /\ elpc[t] = "term" /\ elpc' = [elpc EXCEPT ![t] = "epoch"]
        /\ election_term' = (election_term + 1) % TermWrap /\ handovers' = handovers
    BY <1>2 DEF ClaimTerm, At, Goes
  <2>2. Counting' = Counting \ {t} /\ t \in Counting
    BY <2>1 DEF Counting
  <2>3. /\ Cardinality(Counting') = Cardinality(Counting) - 1 /\ Cardinality(Counting') \in Nat
        /\ election_term' \in Nat
    BY <1>0, <2>1, <2>2, FS_RemoveElement, FS_CardinalityType
  <2>4. (election_term' + Cardinality(Counting')) % TermWrap
          = (election_term + 1 + Cardinality(Counting')) % TermWrap
    BY <2>1, <2>3, ModSum
  <2>5. election_term + 1 + Cardinality(Counting') = election_term + Cardinality(Counting)
    BY <1>0, <2>3
  <2> QED BY <2>1, <2>3, <2>4, <2>5 DEF TermCountsHandovers
<1>3. ASSUME /\ UNCHANGED <<election_term, handovers>>
             /\ elpc' \in [Claimants -> {"idle", "load", "beat", "judge", "cas", "term", "epoch", "store"}]
             /\ \A t \in Claimants : elpc[t] = "term" <=> elpc'[t] = "term"
      PROVE  TermInv'
  <2>1. Counting' = Counting
    BY <1>3 DEF Counting
  <2> QED BY <1>3, <2>1 DEF TermCountsHandovers
<1>4. ASSUME NEW t \in Claimants,
             \/ ClaimLoad(t, "idle") \/ ClaimBeat(t) \/ ClaimJudge(t) \/ LoadEpoch(t)
             \/ StoreBeat(t, "idle") \/ BeatAsLeader(t) \/ StepDown(t, "idle")
      PROVE  TermInv'
  BY <1>3, <1>4 DEF ClaimLoad, ClaimBeat, ClaimJudge, LoadEpoch, StoreBeat, BeatAsLeader, StepDown,
     At, Goes
<1>5. ASSUME NEW t \in Claimants, Crash(t) PROVE TermInv'
  BY <1>3, <1>5 DEF Crash
<1>6. CASE TickEpoch
  BY <1>3, <1>6 DEF TickEpoch
<1>7. CASE UNCHANGED elvars
  BY <1>3, <1>7 DEF elvars
<1> QED BY <1>1, <1>2, <1>4, <1>5, <1>6, <1>7 DEF ElectionNext, Claim

(* election_term counts the handovers, modulo its width, up to the          *)
(* claimants that stand between their CAS and their increment, whoever      *)
(* crashes there.                                                           *)
THEOREM ElectionTermCounts == ElectionSpec => []TermCountsHandovers
<1>1. ElectionInit => TermInv
  <2> SUFFICES ASSUME ElectionInit PROVE TermInv
    OBVIOUS
  <2>1. Counting = {}
    BY DEF ElectionInit, Counting
  <2>2. Cardinality(Counting) = 0
    BY <2>1, FS_EmptySet
  <2> QED BY <2>2, TermAssumption DEF ElectionInit, TermInv, TermCountsHandovers
<1>2. TermInv => TermCountsHandovers
  BY DEF TermInv
<1> QED BY <1>1, <1>2, TermNextInv, PTL DEF ElectionSpec

-----------------------------------------------------------------------------
(* The unused lease satisfies the invariant.                                *)
LEMMA LeaseInitInv == LInit => LeaseInv
<1> SUFFICES ASSUME LInit PROVE LeaseInv
  OBVIOUS
<1>1. LeaseTypeOK
  BY UsersAssumption, Zenon DEF LInit, ElectionInit, LeaseTypeOK
<1>2. HolderOwns /\ ReadIsCurrent /\ Updated
  BY DEF LInit, ElectionInit, HolderOwns, ReadIsCurrent, Updated, Holding, Users
<1>3. SeqTells
  BY DEF LInit, ElectionInit, SeqTells
<1> QED BY <1>1, <1>2, <1>3 DEF LeaseInv

(* While nobody's lease has been taken over, a user that holds is the only  *)
(* one that holds.                                                          *)
LEMMA OneHolds ==
    ASSUME HolderOwns, NEW t \in Users, current_leader_pid = Pid[t]
    PROVE  \A u \in Users : elpc[u] \in Holding => u = t
BY UsersAssumption DEF HolderOwns

(* The claim, the beat and the crash keep the invariant.                    *)
LEMMA AcquireKeepsInv ==
    ASSUME LeaseInv, NEW t \in Claimants, TryAcquire(t) \/ LeaseBeat(t) PROVE LeaseInv'
<1> USE DEF LeaseInv, election, ghosts, lease
<1>1. CASE TryAcquire(t)
  <2>0. t \in Users /\ t \notin Beaters /\ UNCHANGED <<lease_value, written, seq_version, read_value>>
    BY <1>1 DEF TryAcquire, Users
  <2>1. taken' = (taken \/ (current_leader_pid # NO_OWNER /\ current_leader_pid' # current_leader_pid))
    BY <1>1 DEF TryAcquire
  <2>2. CASE ClaimLoad(t, Acquired(t)) \/ ClaimBeat(t) \/ ClaimJudge(t)
    <3>1. Acquired(t) \in {"read", "read_check"}
      BY <2>0 DEF Acquired
    <3>2. PICK s \in {"idle", "beat", "judge", "cas", "read", "read_check"} :
              /\ elpc' = [elpc EXCEPT ![t] = s]
              /\ s \in {"read", "read_check"} => current_leader_pid = Pid[t]
      BY <2>2, <3>1 DEF ClaimLoad, ClaimBeat, ClaimJudge, At, Goes
    <3>0. elpc[t] \in {"idle", "load", "beat", "judge"} /\ current_leader_pid' = current_leader_pid
      BY <2>2 DEF ClaimLoad, ClaimBeat, ClaimJudge, At
    <3>3. LeaseTypeOK'
      <4>1. elpc' \in [Claimants -> Holding \cup {"idle", "load", "beat", "judge", "cas"}]
        BY <3>2 DEF LeaseTypeOK, Holding
      <4>2. \A u \in Beaters : elpc'[u] = elpc[u]
        BY <2>0, <3>2, UsersAssumption DEF LeaseTypeOK
      <4> QED BY <2>0, <2>1, <4>1, <4>2 DEF LeaseTypeOK
    <3>4. ASSUME ~taken PROVE HolderOwns' /\ ReadIsCurrent' /\ Updated' /\ SeqTells'
      <4>1. elpc'[t] = s /\ \A u \in Claimants \ {t} : elpc'[u] = elpc[u]
        BY <3>2 DEF LeaseTypeOK
      <4>2. HolderOwns'
        BY <3>0, <3>2, <3>4, <4>1 DEF HolderOwns, Holding, Users
      <4>3. ReadIsCurrent'
        BY <2>0, <3>2, <3>4, <4>1 DEF ReadIsCurrent, Users
      <4>4. SeqTells'
        BY <2>0, <3>0, <3>2, <3>4, <4>1 DEF SeqTells
      <4> QED BY <2>0, <3>4, <4>2, <4>3, <4>4 DEF Updated
    <3> QED BY <2>1, <3>3, <3>4, Zenon
  <2>3. CASE ClaimCas(t)
    <3>1. elpc[t] = "cas"
      BY <2>3 DEF ClaimCas, At
    <3>2. CASE current_leader_pid = cur[t]
      <4>1. elpc' = [elpc EXCEPT ![t] = "term"] /\ current_leader_pid' = Pid[t]
        BY <2>3, <3>2 DEF ClaimCas, Goes
      <4>2. LeaseTypeOK'
        BY <2>0, <2>1, <3>1, <4>1 DEF LeaseTypeOK, Holding
      <4>3. ASSUME ~taken' PROVE HolderOwns' /\ ReadIsCurrent' /\ Updated' /\ SeqTells'
        <5>1. ~taken /\ (current_leader_pid = NO_OWNER \/ current_leader_pid = Pid[t])
          BY <2>1, <4>1, <4>3, Zenon
        <5>2. \A u \in Users : elpc[u] \in Holding => u = t
          BY <2>0, <5>1, PidAssumption, OneHolds DEF HolderOwns, Users, NO_OWNER, NO_LEADER
        <5> QED BY <2>0, <3>1, <4>1, <5>1, <5>2
           DEF LeaseTypeOK, HolderOwns, ReadIsCurrent, Updated, SeqTells, Holding
      <4> QED BY <4>2, <4>3
    <3>3. CASE current_leader_pid # cur[t]
      <4>1. elpc' = [elpc EXCEPT ![t] = "load"] /\ current_leader_pid' = current_leader_pid
        BY <2>3, <3>3 DEF ClaimCas, Goes
      <4>2. LeaseTypeOK'
        BY <2>0, <2>1, <3>1, <4>1 DEF LeaseTypeOK, Holding
      <4>3. ASSUME ~taken PROVE HolderOwns' /\ ReadIsCurrent' /\ Updated' /\ SeqTells'
        BY <2>0, <3>1, <4>1, <4>3
           DEF LeaseTypeOK, HolderOwns, ReadIsCurrent, Updated, SeqTells, Holding
      <4> QED BY <2>1, <4>2, <4>3, Zenon
    <3> QED BY <3>2, <3>3
  <2>4. CASE ClaimTerm(t)
    <3>1. /\ elpc[t] = "term" /\ elpc' = [elpc EXCEPT ![t] = "epoch"]
          /\ current_leader_pid' = current_leader_pid
      BY <2>4 DEF ClaimTerm, At, Goes
    <3>2. LeaseTypeOK'
      BY <2>0, <2>1, <3>1 DEF LeaseTypeOK, Holding
    <3>3. ASSUME ~taken PROVE HolderOwns' /\ ReadIsCurrent' /\ Updated' /\ SeqTells'
      BY <2>0, <3>1, <3>3 DEF LeaseTypeOK, HolderOwns, ReadIsCurrent, Updated, SeqTells, Holding
    <3> QED BY <2>1, <3>2, <3>3
  <2> QED BY <1>1, <2>2, <2>3, <2>4 DEF TryAcquire
<1>2. CASE LeaseBeat(t)
  <2>1. /\ \/ t \in Beaters /\ elpc[t] = "idle" /\ elpc' = [elpc EXCEPT ![t] = "epoch"]
           \/ elpc[t] = "epoch" /\ elpc' = [elpc EXCEPT ![t] = "store"]
           \/ elpc[t] = "store" /\ elpc' = [elpc EXCEPT ![t] = Acquired(t)]
        /\ UNCHANGED <<current_leader_pid, lease_value, written, seq_version, read_value, taken>>
    BY <1>2 DEF LeaseBeat, BeatAsLeader, LoadEpoch, StoreBeat, At, Goes
  <2>2. /\ t \in Beaters => Acquired(t) = "idle"
        /\ t \notin Beaters => t \in Users /\ Acquired(t) \in {"read", "read_check"}
    BY DEF Acquired, Users
  <2>3. LeaseTypeOK'
    <3>1. PICK s \in {"idle", "epoch", "store", "read", "read_check"} :
              /\ elpc' = [elpc EXCEPT ![t] = s]
              /\ t \in Beaters => s \in {"idle", "epoch", "store"}
      BY <2>1, <2>2
    <3>2. elpc' \in [Claimants -> Holding \cup {"idle", "load", "beat", "judge", "cas"}]
      BY <3>1 DEF LeaseTypeOK, Holding
    <3>3. \A u \in Beaters : elpc'[u] \in {"idle", "epoch", "store"}
      BY <3>1, UsersAssumption DEF LeaseTypeOK
    <3> QED BY <2>1, <3>2, <3>3 DEF LeaseTypeOK
  <2>4. ASSUME ~taken PROVE HolderOwns' /\ ReadIsCurrent' /\ Updated' /\ SeqTells'
    BY <2>1, <2>2, <2>4
       DEF LeaseTypeOK, HolderOwns, ReadIsCurrent, Updated, SeqTells, Holding, Users
  <2> QED BY <2>1, <2>3, <2>4
<1> QED BY <1>1, <1>2

(* A user's call keeps the invariant: the value it writes is one more than  *)
(* the value that nobody has written since it was read.                     *)
LEMMA UseKeepsInv ==
    ASSUME LeaseInv, NEW t \in Claimants, UseLease(t) PROVE LeaseInv'
<1> USE DEF LeaseInv, election, ghosts, lease
<1>0. t \in Users /\ elpc[t] \in Holding
  BY DEF UseLease, CheckOwner, ReadPayload, BumpSeq, WritePayload, ReleaseLease, StepDown, At,
     LeaseTypeOK, Users, Holding
<1>1. ASSUME ~taken
      PROVE  current_leader_pid = Pid[t] /\ \A u \in Users : elpc[u] \in Holding => u = t
  BY <1>0, <1>1, OneHolds DEF HolderOwns
<1>2. \A u \in Beaters : u # t
  BY <1>0 DEF Users
<1>3. ASSUME NEW s \in Holding \cup {"idle"}, elpc' = [elpc EXCEPT ![t] = s]
      PROVE  /\ elpc' \in [Claimants -> Holding \cup {"idle", "load", "beat", "judge", "cas"}]
             /\ \A u \in Beaters : elpc'[u] \in {"idle", "epoch", "store"}
             /\ elpc'[t] = s /\ \A u \in Claimants \ {t} : elpc'[u] = elpc[u]
  BY <1>2, <1>3, UsersAssumption DEF LeaseTypeOK
<1>4. CASE CheckOwner(t, "read_check", "read") \/ CheckOwner(t, "write_check", "seq_odd")
  <2>1. PICK s \in {"idle", "read", "seq_odd"} :
            /\ elpc' = [elpc EXCEPT ![t] = s] /\ elpc[t] \in {"read_check", "write_check"}
            /\ s = "seq_odd" => elpc[t] = "write_check"
            /\ UNCHANGED <<current_leader_pid, lease_value, written, seq_version, read_value, taken>>
    BY <1>4 DEF CheckOwner, At, Goes
  <2>2. LeaseTypeOK'
    BY <1>3, <2>1 DEF LeaseTypeOK, Holding
  <2>3. ASSUME ~taken PROVE HolderOwns' /\ ReadIsCurrent' /\ Updated' /\ SeqTells'
    <3>1. HolderOwns' /\ ReadIsCurrent'
      BY <1>1, <1>3, <2>1, <2>3, Zenon DEF HolderOwns, ReadIsCurrent, Holding, Users
    <3>2. SeqTells'
      BY <1>3, <2>1, <2>3 DEF SeqTells, Holding
    <3> QED BY <2>1, <2>3, <3>1, <3>2 DEF Updated
  <2> QED BY <2>1, <2>2, <2>3
<1>5. CASE ReadPayload(t)
  <2>1. PICK s \in {"write_check", "seq_odd"} :
            /\ elpc' = [elpc EXCEPT ![t] = s] /\ elpc[t] = "read"
            /\ read_value' = [read_value EXCEPT ![t] = lease_value]
            /\ UNCHANGED <<current_leader_pid, lease_value, written, seq_version, taken>>
    BY <1>5, Zenon DEF ReadPayload, At, Goes
  <2>2. LeaseTypeOK'
    BY <1>3, <2>1 DEF LeaseTypeOK, Holding
  <2>3. ASSUME ~taken PROVE HolderOwns' /\ ReadIsCurrent' /\ Updated' /\ SeqTells'
    <3>1. HolderOwns'
      BY <1>1, <1>3, <2>1, <2>3 DEF HolderOwns, Holding, Users
    <3>2. ReadIsCurrent'
      BY <1>3, <2>1, <2>3 DEF ReadIsCurrent, LeaseTypeOK, Holding, Users
    <3>3. SeqTells'
      BY <1>3, <2>1, <2>3 DEF SeqTells, Holding
    <3> QED BY <2>1, <2>3, <3>1, <3>2, <3>3 DEF Updated
  <2> QED BY <2>1, <2>2, <2>3
<1>6. CASE BumpSeq(t, "seq_odd", "write") \/ BumpSeq(t, "seq_even", "release")
  <2>1. /\ \/ elpc[t] = "seq_odd" /\ elpc' = [elpc EXCEPT ![t] = "write"]
           \/ elpc[t] = "seq_even" /\ elpc' = [elpc EXCEPT ![t] = "release"]
        /\ seq_version' = 1 - seq_version
        /\ UNCHANGED <<current_leader_pid, lease_value, written, read_value, taken>>
    BY <1>6 DEF BumpSeq, At, Goes
  <2>2. LeaseTypeOK'
    BY <1>3, <2>1 DEF LeaseTypeOK, Holding
  <2>3. ASSUME ~taken PROVE HolderOwns' /\ ReadIsCurrent' /\ Updated' /\ SeqTells'
    <3>1. HolderOwns' /\ ReadIsCurrent'
      BY <1>1, <1>3, <2>1, <2>3 DEF HolderOwns, ReadIsCurrent, Holding, Users
    <3>2. \A u \in Claimants : elpc[u] \in {"write", "seq_even"} => u = t
      BY <1>1, <2>3 DEF LeaseTypeOK, Holding, Users
    <3>3. SeqTells'
      <4>1. CASE elpc[t] = "seq_odd"
        <5>1. seq_version = 0 /\ seq_version' = 1 /\ elpc'[t] = "write"
          BY <1>3, <2>1, <2>3, <3>2, <4>1 DEF SeqTells, LeaseTypeOK, Holding
        <5> QED BY <5>1 DEF SeqTells
      <4>2. CASE elpc[t] = "seq_even"
        <5>1. seq_version = 1 /\ seq_version' = 0 /\ elpc'[t] = "release"
          BY <1>3, <2>1, <2>3, <4>2 DEF SeqTells, LeaseTypeOK, Holding
        <5>2. \A u \in Claimants \ {t} : elpc'[u] = elpc[u]
          BY <1>3, <2>1, <4>2 DEF Holding
        <5> QED BY <3>2, <5>1, <5>2 DEF SeqTells
      <4> QED BY <2>1, <4>1, <4>2
    <3> QED BY <2>1, <2>3, <3>1, <3>3 DEF Updated
  <2> QED BY <2>1, <2>2, <2>3
<1>7. CASE WritePayload(t)
  <2>1. /\ elpc[t] = "write" /\ elpc' = [elpc EXCEPT ![t] = "seq_even"]
        /\ lease_value' = read_value[t] + 1 /\ written' = written + 1
        /\ read_value' = [read_value EXCEPT ![t] = 0]
        /\ UNCHANGED <<current_leader_pid, seq_version, taken>>
    BY <1>7 DEF WritePayload, At, Goes
  <2>2. LeaseTypeOK'
    BY <1>3, <2>1 DEF LeaseTypeOK, Holding
  <2>3. ASSUME ~taken PROVE HolderOwns' /\ ReadIsCurrent' /\ Updated' /\ SeqTells'
    <3>1. HolderOwns'
      BY <1>1, <1>3, <2>1, <2>3 DEF HolderOwns, Holding, Users
    <3>2. ReadIsCurrent'
      BY <1>1, <1>3, <2>1, <2>3 DEF ReadIsCurrent, Holding, Users
    <3>3. Updated'
      BY <1>0, <2>1, <2>3 DEF ReadIsCurrent, Updated
    <3>4. SeqTells'
      BY <1>3, <2>1, <2>3 DEF SeqTells, Holding
    <3> QED BY <3>1, <3>2, <3>3, <3>4
  <2> QED BY <2>1, <2>2, <2>3
<1>8. CASE ReleaseLease(t)
  <2>1. /\ elpc[t] = "release" /\ elpc' = [elpc EXCEPT ![t] = "idle"]
        /\ UNCHANGED <<lease_value, written, seq_version, read_value, taken>>
    BY <1>8 DEF ReleaseLease, StepDown, At, Goes
  <2>2. LeaseTypeOK'
    BY <1>3, <2>1 DEF LeaseTypeOK
  <2>3. ASSUME ~taken PROVE HolderOwns' /\ ReadIsCurrent' /\ Updated' /\ SeqTells'
    <3>1. HolderOwns' /\ ReadIsCurrent'
      BY <1>1, <1>3, <2>1, <2>3 DEF HolderOwns, ReadIsCurrent, Holding, Users
    <3>2. SeqTells'
      BY <1>3, <2>1, <2>3 DEF SeqTells, Holding
    <3> QED BY <2>1, <2>3, <3>1, <3>2 DEF Updated
  <2> QED BY <2>1, <2>2, <2>3
<1> QED BY <1>4, <1>5, <1>6, <1>7, <1>8 DEF UseLease

(* As long as nobody's lease has been taken over, no addition is lost and   *)
(* seq_version is odd exactly while a user writes, for any number of        *)
(* processes, beaters and crashes.                                          *)
THEOREM LeaseExclusive == LSpec => []ExclusiveUntilTaken
<1>1. ASSUME LeaseInv, [LNext]_lvars PROVE LeaseInv'
  <2>1. ASSUME UNCHANGED <<current_leader_pid, elpc, lease_value, written, seq_version, read_value, taken>>
        PROVE  LeaseInv'
    BY <1>1, <2>1 DEF LeaseInv, LeaseTypeOK, HolderOwns, ReadIsCurrent, Updated, SeqTells
  <2>2. CASE \E t \in Claimants : TryAcquire(t) \/ LeaseBeat(t) \/ UseLease(t)
    BY <1>1, <2>2, AcquireKeepsInv, UseKeepsInv
  <2>3. CASE ((\E t \in Claimants : Crash(t)) \/ TickEpoch) /\ UNCHANGED <<lease, taken>>
    BY <2>1, <2>3, Zenon DEF Crash, TickEpoch, election, lease
  <2>4. CASE UNCHANGED lvars
    BY <2>1, <2>4 DEF lvars, elvars, election, lease
  <2> QED BY <1>1, <2>2, <2>3, <2>4 DEF LNext
<1>2. LeaseInv => ExclusiveUntilTaken
  BY DEF LeaseInv, ExclusiveUntilTaken
<1> QED BY <1>1, <1>2, LeaseInitInv, PTL DEF LSpec
=============================================================================
