------------------------- MODULE SharedTreiberStack -------------------------
(***************************************************************************)
(* SharedTreiberStack (shared_treiber_stack.rs): a lock-free stack in a    *)
(* mapped file.  The slots in use and the free ones are two linked lists   *)
(* that share the next links; the head of each carries a counter that      *)
(* every change advances, against ABA.  Slots that were never used are     *)
(* handed out by bump_next.                                                *)
(*                                                                         *)
(* Every atomic access of push, pop, acquire_slot and release_slot is a    *)
(* step, and so is the write of a slot's value.                            *)
(***************************************************************************)
EXTENDS Integers, Sequences, FiniteSets

CONSTANTS Stackers,
          StackSlots,      \* capacity
          StackPushes,     \* bound: pushes begun
          CounterWrap      \* the counters count modulo CounterWrap (2^32 in the code)

ASSUME StackAssumption == StackSlots \in Nat \ {0} /\ StackPushes \in Nat /\ CounterWrap \in Nat \ {0, 1}

VARIABLES
    top_head, free_head,  \* header.head, free_head: <<counter, index>>
    bump_next,
    next,               \* per slot: next_link
    value,              \* per slot: the value written there
    tpc,
    top,                \* per thread: the head it has loaded
    link,               \* per thread: the next link it has loaded
    mine,               \* per thread: the slot it has in hand
    item,               \* per thread: the value it is pushing
    pushes              \* values pushed so far

tvars == <<top_head, free_head, bump_next, next, value, tpc, top, link, mine, item, pushes>>
heads == <<top_head, free_head, bump_next>>

NIL == -1
Slots == 0..(StackSlots - 1)
Nothing == <<0, NIL>>

TInit ==
    /\ top_head = Nothing /\ free_head = Nothing /\ bump_next = 0
    /\ next = [i \in Slots |-> NIL] /\ value = [i \in Slots |-> 0]
    /\ tpc = [t \in Stackers |-> "idle"]
    /\ top = [t \in Stackers |-> Nothing] /\ link = [t \in Stackers |-> NIL]
    /\ mine = [t \in Stackers |-> NIL] /\ item = [t \in Stackers |-> 0]
    /\ pushes = 0

Step(t, from, to) == tpc[t] = from /\ tpc' = [tpc EXCEPT ![t] = to]
Bumped(h, i) == <<(h[1] + 1) % CounterWrap, i>>

(* The shape of every retry loop: load a head, read or set a link, CAS.     *)
LoadHead(t, h) == top' = [top EXCEPT ![t] = h] /\ UNCHANGED link
ReadLink(t, from, to) ==
    /\ Step(t, from, to)
    /\ link' = [link EXCEPT ![t] = next[top[t][2]]]
    /\ UNCHANGED <<heads, next, value, top, mine, item, pushes>>
SetLink(t, from, to) ==
    /\ Step(t, from, to)
    /\ next' = [next EXCEPT ![mine[t]] = top[t][2]]
    /\ UNCHANGED <<heads, value, top, link, mine, item, pushes>>
Forget(t) == top' = [top EXCEPT ![t] = Nothing] /\ link' = [link EXCEPT ![t] = NIL]
TakeHead(t, won) == mine' = IF won THEN [mine EXCEPT ![t] = top[t][2]] ELSE mine
GiveHead(t, won) == mine' = IF won THEN [mine EXCEPT ![t] = NIL] ELSE mine

-----------------------------------------------------------------------------
(* push begins with acquire_slot: pop the free list, or, when it is empty,  *)
(* bump.                                                                    *)
PushBegin(t) ==
    /\ Step(t, "idle", "acquire")
    /\ pushes < StackPushes /\ pushes' = pushes + 1
    /\ item' = [item EXCEPT ![t] = pushes + 1]
    /\ UNCHANGED <<heads, next, value, top, link, mine>>

AcquireLoad(t) ==
    /\ Step(t, "acquire", IF free_head[2] = NIL THEN "bump" ELSE "freelink")
    /\ LoadHead(t, free_head)
    /\ UNCHANGED <<heads, next, value, mine, item, pushes>>

AcquireLink(t) == ReadLink(t, "freelink", "freecas")

(* As AcquireCas would be if it compared the index alone.                   *)
AcquireCasUntagged(t) ==
    LET won == free_head[2] = top[t][2] IN
    /\ Step(t, "freecas", IF won THEN "write" ELSE "acquire")
    /\ free_head' = IF won THEN Bumped(free_head, link[t]) ELSE free_head
    /\ TakeHead(t, won) /\ Forget(t)
    /\ UNCHANGED <<top_head, bump_next, next, value, item, pushes>>

AcquireCas(t) ==
    LET won == free_head = top[t] IN
    /\ Step(t, "freecas", IF won THEN "write" ELSE "acquire")
    /\ free_head' = IF won THEN Bumped(top[t], link[t]) ELSE free_head
    /\ TakeHead(t, won) /\ Forget(t)
    /\ UNCHANGED <<top_head, bump_next, next, value, item, pushes>>

BumpNext(t) ==
    LET full == bump_next >= StackSlots IN
    /\ Step(t, "bump", IF full THEN "unbump" ELSE "write")
    /\ bump_next' = bump_next + 1
    /\ mine' = IF full THEN mine ELSE [mine EXCEPT ![t] = bump_next]
    /\ Forget(t)
    /\ UNCHANGED <<top_head, free_head, next, value, item, pushes>>

(* Full *)
UnbumpNext(t) ==
    /\ Step(t, "unbump", "idle")
    /\ bump_next' = bump_next - 1
    /\ item' = [item EXCEPT ![t] = 0]
    /\ UNCHANGED <<top_head, free_head, next, value, top, link, mine, pushes>>

WriteValue(t) ==
    /\ Step(t, "write", "push")
    /\ value' = [value EXCEPT ![mine[t]] = item[t]]
    /\ UNCHANGED <<heads, next, top, link, mine, item, pushes>>

PushLoad(t) ==
    /\ Step(t, "push", "pushlink")
    /\ LoadHead(t, top_head)
    /\ UNCHANGED <<heads, next, value, mine, item, pushes>>

PushLink(t) == SetLink(t, "pushlink", "pushcas")

PushCas(t) ==
    LET won == top_head = top[t] IN
    /\ Step(t, "pushcas", IF won THEN "idle" ELSE "push")
    /\ top_head' = IF won THEN Bumped(top[t], mine[t]) ELSE top_head
    /\ GiveHead(t, won) /\ Forget(t)
    /\ item' = IF won THEN [item EXCEPT ![t] = 0] ELSE item
    /\ UNCHANGED <<free_head, bump_next, next, value, pushes>>

-----------------------------------------------------------------------------
(* pop: None, and nothing, on an empty stack.  The value is read, from the  *)
(* slot that is the thread's now, after the CAS.                            *)
PopLoad(t) ==
    /\ tpc[t] \in {"idle", "pop"} /\ (tpc[t] = "idle" => top_head[2] # NIL)
    /\ tpc' = [tpc EXCEPT ![t] = IF top_head[2] = NIL THEN "idle" ELSE "poplink"]
    /\ top' = [top EXCEPT ![t] = IF top_head[2] = NIL THEN Nothing ELSE top_head]
    /\ UNCHANGED <<heads, next, value, link, mine, item, pushes>>

PopLink(t) == ReadLink(t, "poplink", "popcas")

(* As PopCas would be if it compared the index alone.                       *)
PopCasUntagged(t) ==
    LET won == top_head[2] = top[t][2] IN
    /\ Step(t, "popcas", IF won THEN "release" ELSE "pop")
    /\ top_head' = IF won THEN Bumped(top_head, link[t]) ELSE top_head
    /\ TakeHead(t, won) /\ Forget(t)
    /\ UNCHANGED <<free_head, bump_next, next, value, item, pushes>>

PopCas(t) ==
    LET won == top_head = top[t] IN
    /\ Step(t, "popcas", IF won THEN "release" ELSE "pop")
    /\ top_head' = IF won THEN Bumped(top[t], link[t]) ELSE top_head
    /\ TakeHead(t, won) /\ Forget(t)
    /\ UNCHANGED <<free_head, bump_next, next, value, item, pushes>>

(* release_slot, once the value is read.                                    *)
ReleaseLoad(t) ==
    /\ Step(t, "release", "releaselink")
    /\ LoadHead(t, free_head)
    /\ UNCHANGED <<heads, next, value, mine, item, pushes>>

ReleaseLink(t) == SetLink(t, "releaselink", "releasecas")

ReleaseCas(t) ==
    LET won == free_head = top[t] IN
    /\ Step(t, "releasecas", IF won THEN "idle" ELSE "release")
    /\ free_head' = IF won THEN Bumped(top[t], mine[t]) ELSE free_head
    /\ GiveHead(t, won) /\ Forget(t)
    /\ UNCHANGED <<top_head, bump_next, next, value, item, pushes>>

-----------------------------------------------------------------------------
StackPushStep(t) == \/ PushBegin(t) \/ AcquireLoad(t) \/ AcquireLink(t) \/ AcquireCas(t) \/ BumpNext(t)
               \/ UnbumpNext(t) \/ WriteValue(t) \/ PushLoad(t) \/ PushLink(t) \/ PushCas(t)
PopStep(t) == \/ PopLoad(t) \/ PopLink(t) \/ PopCas(t)
              \/ ReleaseLoad(t) \/ ReleaseLink(t) \/ ReleaseCas(t)

TNext == \E t \in Stackers : StackPushStep(t) \/ PopStep(t)
TSpec == TInit /\ [][TNext]_tvars

-----------------------------------------------------------------------------
(* The list that starts at slot i, cut off when it is longer than there are *)
(* slots.                                                                   *)
Chain[n \in 0..(StackSlots + 1), i \in Slots \cup {NIL}] ==
    IF n = 0 \/ i = NIL THEN <<>> ELSE <<i>> \o Chain[n - 1, next[i]]
List(h) == Chain[StackSlots + 1, h[2]]

(* Every slot is in exactly one place: once on the stack, once on the free  *)
(* list, in the hand of one thread, or not handed out yet.  A slot in two   *)
(* places would be written by one owner under the feet of the other, and a  *)
(* slot in none would be lost to the stack for good.                        *)
SlotsAccountedFor ==
    LET places == List(top_head) \o List(free_head)
        inHand == {t \in Stackers : mine[t] # NIL} IN
    \A i \in Slots :
        Cardinality({k \in DOMAIN places : places[k] = i})
        + Cardinality({t \in inHand : mine[t] = i}) = IF i < bump_next THEN 1 ELSE 0

Lifo ==
    INSTANCE LifoStack
        WITH StackValues <- 1..StackPushes, StackCapacity <- StackSlots,
             stack <- [k \in 1..Len(List(top_head)) |-> value[List(top_head)[k]]]

(* The stack behaves as a LIFO stack of the values in its slots, each push  *)
(* and each pop taking effect at its CAS, whatever happens to the slots in  *)
(* between: they may be freed, handed out and pushed again (ABA).           *)
ImplementsStack == Lifo!LifoSpec
=============================================================================
