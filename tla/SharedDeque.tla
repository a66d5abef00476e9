---------------------------- MODULE SharedDeque -----------------------------
(***************************************************************************)
(* SharedDeque (shared_deque.rs): the Chase-Lev work-stealing deque in a   *)
(* mapped file.  One owner pushes and pops at the bottom; any number of    *)
(* thieves steal at the top.  A slot's bytes are written and read without  *)
(* any lock: a thief may read a slot the owner is writing, and relies on   *)
(* its CAS of top to throw such a value away.                              *)
(***************************************************************************)
EXTENDS Integers, FiniteSets

CONSTANTS Thieves,
          DequeCapacity,
          MaxBatch,        \* bound: items of one push_batch
          DequeItems       \* bound: items pushed; items are numbered as pushed

ASSUME DequeAssumption == DequeCapacity \in Nat \ {0} /\ MaxBatch \in Nat /\ DequeItems \in Nat

VARIABLES
    bottom, dtop,
    cells,          \* per slot: the item whose bytes it holds
    opc,            \* the owner
    batch,          \* how many slots the owner's push fills, and how many it has filled
    published,      \* items 1..published have been pushed
    otop,           \* the top the owner's pop has loaded
    spc,            \* the thieves
    seenTop,        \* per thief: the top it has loaded
    loot,           \* per thief: the bytes it has read
    takes           \* ghost: how often each item was returned by pop or steal

dvars == <<bottom, dtop, cells, opc, batch, published, otop, spc, seenTop, loot, takes>>
thieves == <<spc, seenTop, loot>>

Items == 1..DequeItems
Torn == 0           \* bytes of a write in progress
DequeCell(p) == p % DequeCapacity

DInit ==
    /\ bottom = 0 /\ dtop = 0 /\ otop = 0 /\ published = 0
    /\ cells = [c \in 0..(DequeCapacity - 1) |-> Torn]
    /\ opc = "idle" /\ batch = <<0, 0>>
    /\ spc = [s \in Thieves |-> "idle"]
    /\ seenTop = [s \in Thieves |-> 0] /\ loot = [s \in Thieves |-> Torn]
    /\ takes = [i \in Items |-> 0]

Took(v) == takes' = [i \in Items |-> IF i = v THEN takes[i] + 1 ELSE takes[i]]

-----------------------------------------------------------------------------
(* The owner: push is a batch of one.  Full when the batch does not fit.    *)
PushReserve(n) ==
    /\ opc = "idle" /\ published + n <= DequeItems
    /\ bottom - dtop + n <= DequeCapacity
    /\ opc' = "marshal" /\ batch' = <<n, 0>>
    /\ UNCHANGED <<bottom, dtop, cells, published, otop, thieves, takes>>

(* The bytes of the next slot change, in two steps.                         *)
Marshal ==
    /\ opc = "marshal" /\ opc' = "marshalled"
    /\ cells' = [cells EXCEPT ![DequeCell(bottom + batch[2])] = Torn]
    /\ UNCHANGED <<bottom, dtop, batch, published, otop, thieves, takes>>

Marshalled ==
    /\ opc = "marshalled"
    /\ cells' = [cells EXCEPT ![DequeCell(bottom + batch[2])] = published + batch[2] + 1]
    /\ batch' = <<batch[1], batch[2] + 1>>
    /\ opc' = IF batch[2] + 1 = batch[1] THEN "publish" ELSE "marshal"
    /\ UNCHANGED <<bottom, dtop, published, otop, thieves, takes>>

Publish ==
    /\ opc = "publish" /\ opc' = "idle"
    /\ bottom' = bottom + batch[1] /\ published' = published + batch[1]
    /\ batch' = <<0, 0>>
    /\ UNCHANGED <<dtop, cells, otop, thieves, takes>>

PopClaim ==
    /\ opc = "idle" /\ opc' = "popping"
    /\ bottom' = bottom - 1
    /\ UNCHANGED <<dtop, cells, batch, published, otop, thieves, takes>>

(* As PopTop would be if the last item were not raced for.                  *)
PopTopUnraced ==
    /\ opc = "popping" /\ opc' = "idle"
    /\ IF bottom < dtop THEN bottom' = bottom + 1 /\ UNCHANGED takes
       ELSE Took(cells[DequeCell(bottom)]) /\ UNCHANGED bottom
    /\ UNCHANGED <<dtop, cells, batch, published, otop, thieves>>

(* Above any thief's reach the item is the owner's; the last one is raced   *)
(* for.  The owner's slot is whole, and Marshal promises that a whole value *)
(* is unmarshalled again.                                                   *)
PopTop ==
    /\ opc = "popping" /\ otop' = IF bottom = dtop THEN dtop ELSE otop
    /\ opc' = IF bottom = dtop THEN "race" ELSE "idle"
    /\ bottom' = IF bottom < dtop THEN bottom + 1 ELSE bottom
    /\ Took(IF bottom > dtop THEN cells[DequeCell(bottom)] ELSE Torn)
    /\ UNCHANGED <<dtop, cells, batch, published, thieves>>

PopRace ==
    /\ opc = "race" /\ opc' = "restore"
    /\ dtop' = IF dtop = otop THEN otop + 1 ELSE dtop
    /\ Took(IF dtop = otop THEN cells[DequeCell(bottom)] ELSE Torn)
    /\ UNCHANGED <<bottom, cells, batch, published, otop, thieves>>

PopRestore ==
    /\ opc = "restore" /\ opc' = "idle"
    /\ bottom' = bottom + 1 /\ otop' = 0
    /\ UNCHANGED <<dtop, cells, batch, published, thieves, takes>>

-----------------------------------------------------------------------------
(* A thief.                                                                 *)
StealTop(s) ==
    /\ spc[s] = "idle" /\ spc' = [spc EXCEPT ![s] = "bottom"]
    /\ seenTop' = [seenTop EXCEPT ![s] = dtop]
    /\ UNCHANGED <<bottom, dtop, cells, opc, batch, published, otop, loot, takes>>

StealBottom(s) ==
    /\ spc[s] = "bottom"
    /\ spc' = [spc EXCEPT ![s] = IF seenTop[s] >= bottom THEN "idle" ELSE "read"]
    /\ seenTop' = [seenTop EXCEPT ![s] = IF seenTop[s] >= bottom THEN 0 ELSE @]
    /\ UNCHANGED <<bottom, dtop, cells, opc, batch, published, otop, loot, takes>>

StealRead(s) ==
    /\ spc[s] = "read" /\ spc' = [spc EXCEPT ![s] = "cas"]
    /\ loot' = [loot EXCEPT ![s] = cells[DequeCell(seenTop[s])]]
    /\ UNCHANGED <<bottom, dtop, cells, opc, batch, published, otop, seenTop, takes>>

(* Torn bytes may fail to unmarshal, and steal returns None.                *)
StealRefused(s) ==
    /\ spc[s] = "read" /\ cells[DequeCell(seenTop[s])] = Torn
    /\ spc' = [spc EXCEPT ![s] = "idle"] /\ seenTop' = [seenTop EXCEPT ![s] = 0]
    /\ UNCHANGED <<bottom, dtop, cells, opc, batch, published, otop, loot, takes>>

StealCas(s) ==
    /\ spc[s] = "cas" /\ spc' = [spc EXCEPT ![s] = "idle"]
    /\ dtop' = IF dtop = seenTop[s] THEN dtop + 1 ELSE dtop
    /\ Took(IF dtop = seenTop[s] THEN loot[s] ELSE Torn)
    /\ loot' = [loot EXCEPT ![s] = Torn] /\ seenTop' = [seenTop EXCEPT ![s] = 0]
    /\ UNCHANGED <<bottom, cells, opc, batch, published, otop>>

-----------------------------------------------------------------------------
OwnerStep == \/ \E n \in 1..MaxBatch : PushReserve(n)
             \/ Marshal \/ Marshalled \/ Publish \/ PopClaim \/ PopTop \/ PopRace \/ PopRestore
Steal(s) == StealTop(s) \/ StealBottom(s) \/ StealRead(s) \/ StealRefused(s) \/ StealCas(s)

DNext == OwnerStep \/ \E s \in Thieves : Steal(s)
DSpec == DInit /\ [][DNext]_dvars

-----------------------------------------------------------------------------
(* The newest position that still holds an item.                            *)
NewestAt == IF opc \in {"popping", "race"} THEN bottom ELSE bottom - 1

(* Every item pushed is in one place: returned once, intact, by a pop or a  *)
(* steal, or still in the deque.  None is returned twice, lost, or replaced *)
(* by the bytes of another or of an unfinished write, however slow a thief  *)
(* is between its read of the slot and its CAS.                             *)
EachItemOnce ==
    \A i \in 1..published :
        takes[i] + Cardinality({p \in dtop..NewestAt : cells[DequeCell(p)] = i}) = 1

(* A thief that means to read a slot finds its bytes stable: the owner is   *)
(* not writing them.                                                        *)
SlotStableForThief ==
    \A s \in Thieves : spc[s] = "read" /\ opc = "marshalled"
                       => DequeCell(seenTop[s]) # DequeCell(bottom + batch[2])

-----------------------------------------------------------------------------
(* Why: the owner writes only slots outside dtop..NewestAt, less than a lap *)
(* away, and a thief whose CAS can still succeed has read the slot at dtop, *)
(* which lies inside.                                                       *)
DequeTypeOK ==
    /\ bottom \in Int /\ dtop \in Nat /\ otop \in Nat /\ published \in Nat
    /\ cells \in [0..(DequeCapacity - 1) -> Nat] /\ batch \in Nat \X Nat
    /\ opc \in {"idle", "marshal", "marshalled", "publish", "popping", "race", "restore"}
    /\ spc \in [Thieves -> {"idle", "bottom", "read", "cas"}]
    /\ seenTop \in [Thieves -> Nat] /\ loot \in [Thieves -> Nat] /\ takes \in [Items -> Nat]

OwnerPlace ==
    /\ NewestAt - dtop < DequeCapacity /\ published <= DequeItems
    /\ opc = "race" => otop = bottom /\ bottom <= dtop
    /\ IF opc = "restore" THEN dtop = bottom + 1 ELSE dtop <= NewestAt + 1

OwnerBatch ==
    opc \in {"marshal", "marshalled", "publish"} =>
        /\ bottom - dtop + batch[1] <= DequeCapacity /\ published + batch[1] <= DequeItems
        /\ IF opc = "publish" THEN batch[2] = batch[1] ELSE batch[2] < batch[1]
        /\ \A k \in 0..(batch[2] - 1) : cells[DequeCell(bottom + k)] = published + k + 1

WindowHolds ==
    /\ \A p \in dtop..NewestAt : /\ cells[DequeCell(p)] \in 1..published
                                /\ takes[cells[DequeCell(p)]] = 0
    /\ \A p, q \in dtop..NewestAt : cells[DequeCell(p)] = cells[DequeCell(q)] => p = q
    /\ \A i \in Items : \/ i > published /\ takes[i] = 0
                        \/ i <= published /\ takes[i] = 1
                        \/ \E p \in dtop..NewestAt : cells[DequeCell(p)] = i

ThievesSee ==
    \A s \in Thieves :
        /\ seenTop[s] <= dtop
        /\ spc[s] \in {"read", "cas"} /\ seenTop[s] = dtop => dtop <= NewestAt
        /\ spc[s] = "cas" /\ seenTop[s] = dtop => loot[s] = cells[DequeCell(dtop)]

DequeInv == DequeTypeOK /\ OwnerPlace /\ OwnerBatch /\ WindowHolds /\ ThievesSee
=============================================================================
