---------------------------- MODULE CapacityRing ----------------------------
(***************************************************************************)
(* CapacityAdaptiveRing (capacity_adaptive_ring.rs): a ring whose backing  *)
(* is replaced while senders and the receiver use it.  One RingState, in a *)
(* SwapCell, names the active backing and the stale ones still to drain;   *)
(* a morph publishes the next one by compare_and_set, and a thread works   *)
(* on the state it has loaded, which may have been replaced since.         *)
(*                                                                         *)
(* The states are numbered as they are published.  A state lives while it  *)
(* is current or a thread has it loaded (SwapCell), and a backing's strong *)
(* count is the number of living states and pins that name it.  A backing  *)
(* is an AdaptiveRing, of which only the promise is kept: per sender a     *)
(* bounded FIFO whose items are claimed first and committed second.        *)
(* Producer ids stand for consumer ids too, which are carried alike.       *)
(***************************************************************************)
EXTENDS Integers, Sequences, FiniteSets, SequencesExt

CONSTANTS Senders, Receiver, Morphers, Pinners, Prewarmer,
          Teams,           \* bound: the threads that run together, each with the
                           \*   items it may send or the states it may see published
          Capacities,
          MaxBackings      \* bound: backings built

ASSUME CapacityRingAssumption ==
    /\ Capacities \subseteq Nat \ {0, 1} /\ Capacities # {}
    /\ MaxBackings \in Nat

VARIABLES
    states, current,    \* the states published, and the one in the cell
    queue,              \* per backing and sender: <<item, committed>> in order
    regs, rings,        \* per backing: registered ids; rings made, ids 1 to rings have one
    sealed,             \* per backing: registrations_sealed
    cap, built,         \* per backing: its capacity; backings built
    warm,               \* the backing in the warm slot, or 0
    pin_generation,
    mpc, snap,          \* per thread: where its call is, the state it has loaded
    scan, kept, fresh,  \* per thread: place in the stale list, entries kept, new backing
    ids, id,            \* per thread: ids its settle carries; per sender: its id
    team,               \* the threads that take part, and their bounds
    pin,                \* per pinner: the backing and generation it has pinned
    sent, received,     \* ghosts: items claimed per sender; items in order of receipt
    late, raced         \* ghosts: an item was claimed on a replaced backing;
                        \*   on one a prune had found empty and not yet judged

store == <<states, current, cap, built, warm>>
local == <<scan, kept, fresh>>
ghostly == <<sent, received, late, raced>>
crvars == <<store, queue, regs, rings, sealed, pin_generation, mpc, snap, local, ids, id, pin, team, ghostly>>

RingThreads == Senders \cup {Receiver} \cup Morphers \cup Pinners
Backings == 1..MaxBackings
NoId == 0
NoPin == [ring |-> 0, gen |-> 0]

Active(s) == states[s].active
Stale(s) == states[s].stale
Empty(b) == \A p \in Senders : queue[b][p] = <<>>
InState(s, b) == Active(s) = b \/ b \in ToSet(Stale(s))
Living == {current} \cup ({snap[t] : t \in RingThreads} \ {0})
StrongCount(b) == Cardinality({s \in Living : InState(s, b)})
                  + Cardinality({t \in Pinners : pin[t].ring = b})

(* around: the first backing, settled, for it replaced none.                *)
CrInit ==
    /\ states = <<[active |-> 1, stale |-> <<>>, settled |-> TRUE]>> /\ current = 1
    /\ queue = [b \in Backings |-> [p \in Senders |-> <<>>]]
    /\ regs = [b \in Backings |-> {}] /\ rings = [b \in Backings |-> 0]
    /\ sealed = [b \in Backings |-> FALSE]
    /\ cap = [b \in Backings |-> 2] /\ built = 1 /\ warm = 0
    /\ pin_generation = 0
    /\ mpc = [t \in RingThreads |-> "idle"] /\ snap = [t \in RingThreads |-> 0]
    /\ scan = [t \in RingThreads |-> 0] /\ kept = [t \in RingThreads |-> <<>>]
    /\ fresh = [t \in RingThreads |-> 0] /\ ids = [t \in RingThreads |-> {}]
    /\ id = [p \in Senders |-> NoId]
    /\ pin = [t \in Pinners |-> NoPin]
    /\ team \in Teams
    /\ sent = [p \in Senders |-> 0] /\ received = <<>>
    /\ late = FALSE /\ raced = FALSE

To(t, s) == mpc' = [mpc EXCEPT ![t] = s]
Loads(t) == snap' = [snap EXCEPT ![t] = current]
(* The call returns, or starts over: its snapshot and locals are let go.    *)
LetGo(t) ==
    /\ To(t, "idle") /\ snap' = [snap EXCEPT ![t] = 0]
    /\ scan' = [scan EXCEPT ![t] = 0] /\ kept' = [kept EXCEPT ![t] = <<>>]
    /\ fresh' = [fresh EXCEPT ![t] = 0]

-----------------------------------------------------------------------------
(* settle: seal the replaced backing, read its ids, carry them and mark the *)
(* state settled.                                                           *)
Settled(t) == states[snap[t]].settled
Replaced(t) == Last(Stale(snap[t]))
After(t) == CASE t \in Senders -> IF id[t] = NoId THEN "register" ELSE "send"
              [] t = Receiver -> "recv"
              [] t \in Morphers -> "decide"
              [] OTHER -> "pin"

Settle(t) ==
    /\ mpc[t] = "settle"
    /\ IF Settled(t) THEN To(t, After(t)) /\ UNCHANGED sealed
       ELSE To(t, "ids") /\ sealed' = [sealed EXCEPT ![Replaced(t)] = TRUE]
    /\ UNCHANGED <<store, queue, regs, rings, pin_generation, snap, local, ids, id, pin, team, ghostly>>

SettleIds(t) ==
    /\ mpc[t] = "ids"
    /\ ids' = [ids EXCEPT ![t] = regs[Replaced(t)]]
    /\ To(t, "carry")
    /\ UNCHANGED <<store, queue, regs, rings, sealed, pin_generation, snap, scan, kept, fresh, id, pin, team, ghostly>>

(* carry_producer, for each of the ids: one not held on b is claimed, and   *)
(* the rings are grown up to it.  When they cannot be, the claim stays.     *)
CarryProducers(b, carried) ==
    /\ regs' = [regs EXCEPT ![b] = @ \cup carried]
    /\ \E r \in {rings[b]} \cup {i \in carried \ regs[b] : i > rings[b]} :
          rings' = [rings EXCEPT ![b] = r]

SettleCarry(t) ==
    /\ mpc[t] = "carry"
    /\ CarryProducers(Active(snap[t]), ids[t])
    /\ states' = [states EXCEPT ![snap[t]].settled = TRUE]
    /\ ids' = [ids EXCEPT ![t] = {}]
    /\ To(t, After(t))
    /\ UNCHANGED <<current, cap, built, warm, queue, sealed, pin_generation, snap, scan, kept, fresh, id, pin, team, ghostly>>

-----------------------------------------------------------------------------
(* register_producer: claim the lowest free id on the active backing, make  *)
(* its ring, and take it back if the backing has been sealed meanwhile.     *)
SenderLoad(p) ==
    /\ mpc[p] = "idle" /\ p \in Senders \cap DOMAIN team /\ sent[p] < team[p]
    /\ Loads(p) /\ To(p, "settle")
    /\ UNCHANGED <<store, queue, regs, rings, sealed, pin_generation, local, ids, id, pin, team, ghostly>>

FreeId(b) == CHOOSE i \in 1..(Cardinality(regs[b]) + 1) :
                 i \notin regs[b] /\ \A j \in 1..(i - 1) : j \in regs[b]

Register(p) ==
    LET b == Active(snap[p])
        free == FreeId(b) IN
    /\ mpc[p] = "register"
    /\ regs' = [regs EXCEPT ![b] = @ \cup {free}]
    /\ id' = [id EXCEPT ![p] = free]
    /\ To(p, "sealed")
    /\ UNCHANGED <<store, queue, rings, sealed, pin_generation, snap, local, ids, pin, team, ghostly>>

Grow(b, i) == rings' = [rings EXCEPT ![b] = IF i > @ THEN i ELSE @]

(* The ring the id needs cannot be made: the id is released and the call    *)
(* fails.                                                                   *)
RegisterFails(p) ==
    LET b == Active(snap[p]) IN
    /\ mpc[p] = "sealed" /\ id[p] > rings[b]
    /\ regs' = [regs EXCEPT ![b] = @ \ {id[p]}] /\ id' = [id EXCEPT ![p] = NoId]
    /\ LetGo(p)
    /\ UNCHANGED <<store, queue, rings, sealed, pin_generation, ids, pin, team, ghostly>>

(* As RegisterCheck would be if the seal were not looked at.                *)
RegisterUnchecked(p) ==
    /\ mpc[p] = "sealed"
    /\ Grow(Active(snap[p]), id[p])
    /\ LetGo(p)
    /\ UNCHANGED <<store, queue, regs, sealed, pin_generation, ids, id, pin, team, ghostly>>

RegisterCheck(p) ==
    LET b == Active(snap[p]) IN
    /\ mpc[p] = "sealed"
    /\ Grow(b, id[p])
    /\ IF sealed[b] THEN /\ regs' = [regs EXCEPT ![b] = @ \ {id[p]}]
                         /\ id' = [id EXCEPT ![p] = NoId]
       ELSE UNCHANGED <<regs, id>>
    /\ LetGo(p)
    /\ UNCHANGED <<store, queue, sealed, pin_generation, ids, pin, team, ghostly>>

(* try_send on the active backing of the loaded state.  An id without a     *)
(* ring of its own is refused, unless the backing's shape has one ring for  *)
(* all; Full and a refused id leave the backing alone.                      *)
SendClaim(p) ==
    LET b == Active(snap[p]) IN
    /\ mpc[p] = "send"
    /\ \/ /\ Len(queue[b][p]) < cap[b]
          /\ queue' = [queue EXCEPT ![b][p] = Append(@, <<sent[p] + 1, FALSE>>)]
          /\ sent' = [sent EXCEPT ![p] = @ + 1]
          /\ late' = (late \/ b # Active(current))
          /\ raced' = (raced \/ \E m \in Morphers :
                          mpc[m] = "sole" /\ Stale(snap[m])[scan[m]] = b)
          /\ To(p, "commit") /\ UNCHANGED <<snap, local>>
       \/ /\ Len(queue[b][p]) = cap[b] \/ id[p] > rings[b]
          /\ LetGo(p) /\ UNCHANGED <<queue, sent, late, raced>>
    /\ UNCHANGED <<store, regs, rings, sealed, pin_generation, ids, id, pin, team, received>>

SendCommit(p) ==
    LET b == Active(snap[p]) IN
    /\ mpc[p] = "commit"
    /\ queue' = [queue EXCEPT ![b][p][Len(queue[b][p])] = <<sent[p], TRUE>>]
    /\ LetGo(p)
    /\ UNCHANGED <<store, regs, rings, sealed, pin_generation, ids, id, pin, team, ghostly>>

-----------------------------------------------------------------------------
(* try_recv: the stale backings oldest first, then the active one.          *)
RecvLoad ==
    /\ mpc[Receiver] = "idle" /\ Receiver \in DOMAIN team
    /\ Loads(Receiver) /\ scan' = [scan EXCEPT ![Receiver] = 1]
    /\ To(Receiver, "walk")
    /\ UNCHANGED <<store, queue, regs, rings, sealed, pin_generation, kept, fresh, ids, id, pin, team, ghostly>>

Ready(b) == {p \in Senders : queue[b][p] # <<>> /\ Head(queue[b][p])[2]}
Take(b, p) ==
    /\ queue' = [queue EXCEPT ![b][p] = Tail(@)]
    /\ received' = Append(received, <<p, Head(queue[b][p])[1]>>)

RecvWalk ==
    /\ mpc[Receiver] = "walk"
    /\ IF scan[Receiver] > Len(Stale(snap[Receiver]))
       THEN To(Receiver, "settle") /\ UNCHANGED <<queue, received, snap, local>>
       ELSE LET b == Stale(snap[Receiver])[scan[Receiver]] IN
            IF Ready(b) # {} THEN (\E p \in Ready(b) : Take(b, p)) /\ LetGo(Receiver)
                             ELSE To(Receiver, "drained") /\ UNCHANGED <<queue, received, snap, local>>
    /\ UNCHANGED <<store, regs, rings, sealed, pin_generation, ids, id, pin, team, sent, late, raced>>

(* As RecvDrained would be if Empty alone ended the wait.                   *)
RecvOnEmpty ==
    /\ mpc[Receiver] = "drained"
    /\ scan' = [scan EXCEPT ![Receiver] = @ + 1]
    /\ To(Receiver, "walk")
    /\ UNCHANGED <<store, queue, regs, rings, sealed, pin_generation, snap, kept, fresh, ids, id, pin, team, ghostly>>

(* Empty: go on if the backing is drained, else wait for the claim in       *)
(* flight to commit.                                                        *)
RecvDrained ==
    /\ mpc[Receiver] = "drained"
    /\ scan' = [scan EXCEPT ![Receiver] =
                  IF Empty(Stale(snap[Receiver])[scan[Receiver]]) THEN @ + 1 ELSE @]
    /\ To(Receiver, "walk")
    /\ UNCHANGED <<store, queue, regs, rings, sealed, pin_generation, snap, kept, fresh, ids, id, pin, team, ghostly>>

RecvActive ==
    /\ mpc[Receiver] = "recv"
    /\ LET b == Active(snap[Receiver]) IN
       IF Ready(b) # {} THEN \E p \in Ready(b) : Take(b, p) ELSE UNCHANGED <<queue, received>>
    /\ LetGo(Receiver)
    /\ UNCHANGED <<store, regs, rings, sealed, pin_generation, ids, id, pin, team, sent, late, raced>>

-----------------------------------------------------------------------------
(* prewarm_config: a backing of some capacity in the warm slot.             *)
Prewarm(k) ==
    /\ Prewarmer \in DOMAIN team /\ built < MaxBackings /\ (warm # 0 => cap[warm] # k)
    /\ built' = built + 1
    /\ cap' = [cap EXCEPT ![built + 1] = k]
    /\ warm' = built + 1
    /\ UNCHANGED <<states, current, queue, regs, rings, sealed, pin_generation, mpc, snap, local, ids, id, pin, team, ghostly>>

(* morph_to_config *)
MorphLoad(m) ==
    /\ mpc[m] = "idle" /\ m \in Morphers \cap DOMAIN team /\ Len(states) < team[m]
    /\ Loads(m) /\ To(m, "settle")
    /\ UNCHANGED <<store, queue, regs, rings, sealed, pin_generation, local, ids, id, pin, team, ghostly>>

(* The capacity asked for is the current one: nothing to do.                *)
MorphNoop(m) ==
    /\ mpc[m] = "decide"
    /\ LetGo(m)
    /\ UNCHANGED <<store, queue, regs, rings, sealed, pin_generation, ids, id, pin, team, ghostly>>

(* Another shape, in place: a copy of the state replaces it.                *)
MorphShape(m) ==
    /\ mpc[m] = "decide"
    /\ IF current = snap[m] /\ Len(states) < team[m]
       THEN states' = Append(states, states[snap[m]]) /\ current' = Len(states) + 1
       ELSE UNCHANGED <<states, current>>
    /\ LetGo(m)
    /\ UNCHANGED <<cap, built, warm, queue, regs, rings, sealed, pin_generation, ids, id, pin, team, ghostly>>

(* Another capacity: the warm backing if it fits, else one built here; the  *)
(* ids of the old backing are carried onto it.                              *)
MorphBuild(m, k) ==
    LET old == Active(snap[m])
        fits == warm # 0 /\ cap[warm] = k
        new == IF fits THEN warm ELSE built + 1 IN
    /\ mpc[m] = "decide" /\ cap[old] # k
    /\ fits \/ built < MaxBackings
    /\ warm' = (IF fits THEN 0 ELSE warm) /\ built' = (IF fits THEN built ELSE built + 1)
    /\ cap' = [cap EXCEPT ![new] = k]
    /\ regs' = [regs EXCEPT ![new] = regs[old]]
    /\ rings' = [rings EXCEPT ![new] = Max(regs[old] \cup {0})]
    /\ fresh' = [fresh EXCEPT ![m] = new]
    /\ scan' = [scan EXCEPT ![m] = 1] /\ kept' = [kept EXCEPT ![m] = <<>>]
    /\ To(m, "prune")
    /\ UNCHANGED <<states, current, queue, sealed, pin_generation, snap, ids, id, pin, team, ghostly>>

(* A backing that cannot be built, or be given the rings of the ids it is   *)
(* to carry, is dropped, the warm one too, and the morph fails.             *)
MorphFails(m, k) ==
    /\ mpc[m] = "decide" /\ cap[Active(snap[m])] # k
    /\ warm' = (IF warm # 0 /\ cap[warm] = k THEN 0 ELSE warm)
    /\ LetGo(m)
    /\ UNCHANGED <<states, current, cap, built, queue, regs, rings, sealed, pin_generation, ids, id, pin, team, ghostly>>

(* The filter over the old stale list: is the entry empty, and, if so, is   *)
(* this list its only holder?                                               *)
Entry(m) == Stale(snap[m])[scan[m]]
Keep(m) == kept' = [kept EXCEPT ![m] = Append(@, Entry(m))]
NextEntry(m) == scan' = [scan EXCEPT ![m] = @ + 1]

PruneEmpty(m) ==
    /\ mpc[m] = "prune"
    /\ CASE scan[m] > Len(Stale(snap[m])) -> To(m, "publish") /\ UNCHANGED <<scan, kept>>
         [] scan[m] <= Len(Stale(snap[m])) /\ Empty(Entry(m)) ->
                To(m, "sole") /\ UNCHANGED <<scan, kept>>
         [] OTHER -> Keep(m) /\ NextEntry(m) /\ UNCHANGED mpc
    /\ UNCHANGED <<store, queue, regs, rings, sealed, pin_generation, snap, fresh, ids, id, pin, team, ghostly>>

(* As PruneSole would be if being empty were enough.                        *)
PruneAnyHolder(m) ==
    /\ mpc[m] = "sole"
    /\ NextEntry(m) /\ To(m, "prune")
    /\ UNCHANGED <<store, queue, regs, rings, sealed, pin_generation, snap, kept, fresh, ids, id, pin, team, ghostly>>

PruneSole(m) ==
    /\ mpc[m] = "sole"
    /\ IF StrongCount(Entry(m)) = 1 THEN UNCHANGED kept ELSE Keep(m)
    /\ NextEntry(m) /\ To(m, "prune")
    /\ UNCHANGED <<store, queue, regs, rings, sealed, pin_generation, snap, fresh, ids, id, pin, team, ghostly>>

MorphPublish(m) ==
    /\ mpc[m] = "publish"
    /\ IF current = snap[m] /\ Len(states) < team[m]
       THEN /\ states' = Append(states, [active |-> fresh[m], settled |-> FALSE,
                                         stale |-> Append(kept[m], Active(snap[m]))])
            /\ current' = Len(states) + 1
            /\ To(m, "bump") /\ UNCHANGED <<snap, local>>
       ELSE LetGo(m) /\ UNCHANGED <<states, current>>
    /\ UNCHANGED <<cap, built, warm, queue, regs, rings, sealed, pin_generation, ids, id, pin, team, ghostly>>

MorphBump(m) ==
    /\ mpc[m] = "bump"
    /\ pin_generation' = pin_generation + 1
    /\ LetGo(m)
    /\ UNCHANGED <<store, queue, regs, rings, sealed, ids, id, pin, team, ghostly>>

-----------------------------------------------------------------------------
(* pin_current_capacity: the generation first, the state second.            *)
PinGeneration(t) ==
    /\ mpc[t] = "idle" /\ t \in Pinners \cap DOMAIN team /\ pin[t] = NoPin
    /\ pin' = [pin EXCEPT ![t].gen = pin_generation]
    /\ To(t, "load")
    /\ UNCHANGED <<store, queue, regs, rings, sealed, pin_generation, snap, local, ids, id, team, ghostly>>

PinLoad(t) ==
    /\ mpc[t] = "load"
    /\ Loads(t) /\ To(t, "settle")
    /\ UNCHANGED <<store, queue, regs, rings, sealed, pin_generation, local, ids, id, pin, team, ghostly>>

(* As Pin would be if the generation were read after the state.             *)
PinLate(t) ==
    /\ mpc[t] = "pin"
    /\ pin' = [pin EXCEPT ![t] = [ring |-> Active(snap[t]), gen |-> pin_generation]]
    /\ LetGo(t)
    /\ UNCHANGED <<store, queue, regs, rings, sealed, pin_generation, ids, id, team, ghostly>>

Pin(t) ==
    /\ mpc[t] = "pin"
    /\ pin' = [pin EXCEPT ![t].ring = Active(snap[t])]
    /\ LetGo(t)
    /\ UNCHANGED <<store, queue, regs, rings, sealed, pin_generation, ids, id, team, ghostly>>

Unpin(t) ==
    /\ mpc[t] = "idle" /\ t \in Pinners /\ pin[t] # NoPin
    /\ pin' = [pin EXCEPT ![t] = NoPin]
    /\ UNCHANGED <<store, queue, regs, rings, sealed, pin_generation, mpc, snap, local, ids, id, team, ghostly>>

-----------------------------------------------------------------------------
Settling(t) == Settle(t) \/ SettleIds(t) \/ SettleCarry(t)
Sender(p) == \/ SenderLoad(p) \/ Register(p) \/ RegisterFails(p) \/ RegisterCheck(p)
             \/ SendClaim(p) \/ SendCommit(p)
Recv == RecvLoad \/ RecvWalk \/ RecvDrained \/ RecvActive
Morph(m) == \/ MorphLoad(m) \/ MorphNoop(m) \/ MorphShape(m)
            \/ \E k \in Capacities : MorphBuild(m, k) \/ MorphFails(m, k)
            \/ PruneEmpty(m) \/ PruneSole(m) \/ MorphPublish(m) \/ MorphBump(m)
Pinning(t) == PinGeneration(t) \/ PinLoad(t) \/ Pin(t) \/ Unpin(t)

CrNext == \/ \E t \in RingThreads : Settling(t)
          \/ \E p \in Senders : Sender(p)
          \/ Recv
          \/ \E m \in Morphers : Morph(m)
          \/ \E t \in Pinners : Pinning(t)
          \/ \E k \in Capacities : Prewarm(k)
CrSpec == CrInit /\ [][CrNext]_crvars

-----------------------------------------------------------------------------
(* The items of p received, in order.                                       *)
ReceivedOf(p) == SelectSeq(received, LAMBDA r : r[1] = p)
InSendOrder == \A p \in Senders : \A i \in DOMAIN ReceivedOf(p) : ReceivedOf(p)[i][2] = i

(* try_recv's walk, with its wait for claims in flight, delivers every      *)
(* sender's items once and in send order across any number of morphs, as    *)
(* long as every item is claimed on the backing that is active then.        *)
OrderAcrossMorphs == ~late => InSendOrder

NothingStranded == \A b \in Backings : ~Empty(b) => InState(current, b)

(* Nothing a sender has claimed is out of the receiver's reach, late items  *)
(* on replaced backings included: a morph's prune takes only what is empty  *)
(* and that no snapshot can reach any more.  (Unless the item comes between *)
(* its two checks: NoItemStranded.)                                         *)
PruneKeepsItems == ~raced => NothingStranded

(* "The id stays the producer's across morphs": whichever state a           *)
(* registered sender has loaded and settled, its id is on the active        *)
(* backing there, and nobody else has it.                                   *)
IdsStayValid ==
    /\ \A p \in Senders : mpc[p] = "send" => id[p] \in regs[Active(snap[p])]
    /\ \A p, q \in Senders : p # q /\ id[p] # NoId /\ mpc[p] # "sealed" /\ mpc[q] # "sealed"
                               => id[p] # id[q]

(* PinnedCapacity::is_still_valid tells "whether this pin's capacity        *)
(* backing is still the active backing", once the morphs that have          *)
(* published have bumped the generation.                                    *)
ValidPinIsActive ==
    \A t \in Pinners :
        pin[t].ring # 0 /\ pin[t].gen = pin_generation /\ (\A m \in Morphers : mpc[m] # "bump")
            => pin[t].ring = Active(current)

(* "Every in-flight item still drains in send-order across the morph        *)
(* boundary."                                                               *)
SendOrderKept == InSendOrder

(* "With this list the sole holder, no push can arrive and the emptiness is *)
(* final": no claimed item is left behind by a prune.                       *)
NoItemStranded == NothingStranded
=============================================================================
