------------------------------ MODULE SwapCell ------------------------------
(***************************************************************************)
(* SwapCell and SwapCellOption (swap_cell.rs): an Arc that is replaced     *)
(* atomically and read without touching its reference count.  A reader     *)
(* records the address it has read in a slot of its thread's record, a     *)
(* debt; the writer that replaces the value pays every debt on it, by a    *)
(* reference each, before it gives the cell's own reference up.            *)
(*                                                                         *)
(* Every access of the pointer, of a slot and of the records is a step.  A *)
(* value is freed when its strong count falls to 0, and its address may    *)
(* then be given to the next value.  Values are numbered as they are made, *)
(* so that two values of one address are told apart.  A thread has as many *)
(* slots as guards: blocks are chained before they run out.                *)
(***************************************************************************)
EXTENDS Integers, FiniteSets, FiniteSetsExt

CONSTANTS Loaders, Writers,   \* threads that load, threads that replace
          SwapCells,
          OptionCells,        \* those that are SwapCellOptions
          Addresses,
          MaxGuards,          \* bound: guards each thread holds at once
          MaxValues           \* bound: values made

Null == 0
FREE == -1
NoCell == "none"
SwapThreads == Loaders \cup Writers

ASSUME SwapAssumption ==
    /\ OptionCells \subseteq SwapCells /\ Addresses \subseteq Nat \ {Null}
    /\ MaxGuards \in [SwapThreads -> Nat] /\ MaxValues \in Nat /\ NoCell \notin SwapCells

VARIABLES
    ptr,        \* per cell: the address of its value, or Null
    strong,     \* per address: the strong count of the value there
    born,       \* per address: the value last made there
    made,       \* values made
    records,    \* the threads that have a record in RECORDS
    slots,      \* per thread and slot: the address owed, or FREE
    guards,     \* per thread and guard: what it holds, or NoGuard
    arc,        \* per thread: the Arc it has from load_full, or NoGuard
    swpc, work, \* per thread: where its call is and what it works on
    unpaid,     \* per writer: the slots its pay_debts has still to visit
    held        \* ghost: the values the loaded cell has had during the load

heap == <<strong, born, made>>
scvars == <<ptr, heap, records, slots, guards, arc, swpc, work, unpaid, held>>

Index == 1..Max({MaxGuards[t] : t \in SwapThreads})
NoGuard == [val |-> Null, slot |-> 0, is |-> 0]
AllSlots == SwapThreads \X Index
NoWork == [cell |-> NoCell, val |-> Null, slot |-> 0, next |-> Null, to |-> <<>>]

SwInit ==
    \E home \in [SwapCells -> Addresses] :
    /\ \A c, d \in SwapCells : home[c] = home[d] => c = d
    /\ ptr = home
    /\ strong = [a \in Addresses |-> IF \E c \in SwapCells : home[c] = a THEN 1 ELSE 0]
    /\ born = [a \in Addresses |-> Cardinality({b \in Addresses : strong[b] = 1 /\ b <= a})]
    /\ made = Cardinality(SwapCells)
    /\ records = {}
    /\ slots = [t \in SwapThreads |-> [i \in Index |-> FREE]]
    /\ guards = [t \in SwapThreads |-> [i \in Index |-> NoGuard]]
    /\ arc = [t \in SwapThreads |-> NoGuard]
    /\ swpc = [t \in SwapThreads |-> "idle"]
    /\ work = [t \in SwapThreads |-> NoWork]
    /\ unpaid = [t \in SwapThreads |-> {}]
    /\ held = [t \in SwapThreads |-> {}]

Goto(t, s) == swpc' = [swpc EXCEPT ![t] = s]
FirstOf(t, f, e) == CHOOSE i \in Index : f[t][i] = e /\ \A j \in 1..(i - 1) : f[t][j] # e
AddRef(a) == strong' = [strong EXCEPT ![a] = @ + 1]
DropRef(a) == strong' = [strong EXCEPT ![a] = @ - 1]

-----------------------------------------------------------------------------
(* load.  The thread's record is in RECORDS before the pointer is read.     *)
LoadBegin(t, c) ==
    /\ swpc[t] = "idle" /\ t \in Loaders
    /\ Cardinality({i \in Index : guards[t][i] # NoGuard}) < MaxGuards[t]
    /\ records' = records \cup {t}
    /\ work' = [work EXCEPT ![t].cell = c]
    /\ held' = [held EXCEPT ![t] = {born[a] : a \in {ptr[c]} \ {Null}}]
    /\ Goto(t, "read")
    /\ UNCHANGED <<ptr, heap, slots, guards, arc, unpaid>>

(* What a load that has read address a goes on to: None for a null pointer. *)
Proceed(t, a) ==
    IF a = Null
    THEN Goto(t, "idle") /\ work' = [work EXCEPT ![t] = NoWork] /\ held' = [held EXCEPT ![t] = {}]
    ELSE Goto(t, "record") /\ work' = [work EXCEPT ![t].val = a, ![t].next = Null] /\ UNCHANGED held

LoadPtr(t) ==
    /\ swpc[t] = "read"
    /\ Proceed(t, ptr[work[t].cell])
    /\ UNCHANGED <<ptr, heap, records, slots, guards, arc, unpaid>>

LoadRecord(t) ==
    /\ swpc[t] = "record"
    /\ LET i == FirstOf(t, slots, FREE) IN
       /\ slots' = [slots EXCEPT ![t][i] = work[t].val]
       /\ work' = [work EXCEPT ![t].slot = i]
    /\ Goto(t, "confirm")
    /\ UNCHANGED <<ptr, heap, records, guards, arc, unpaid, held>>

(* The guard of a load: owed through the slot, or (slot 0) owned.           *)
MakeGuard(t, slot) ==
    /\ guards' = [guards EXCEPT ![t][FirstOf(t, guards, NoGuard)] =
                    [val |-> work[t].val, slot |-> slot, is |-> born[work[t].val]]]
    /\ work' = [work EXCEPT ![t] = NoWork]
    /\ held' = [held EXCEPT ![t] = {}]
    /\ Goto(t, "idle")

(* As LoadConfirm would be if it did not read the pointer again.            *)
LoadUnconfirmed(t) ==
    /\ swpc[t] = "confirm"
    /\ MakeGuard(t, work[t].slot)
    /\ UNCHANGED <<ptr, heap, records, slots, arc, unpaid>>

LoadConfirm(t) ==
    /\ swpc[t] = "confirm"
    /\ IF ptr[work[t].cell] = work[t].val
       THEN MakeGuard(t, work[t].slot)
       ELSE /\ work' = [work EXCEPT ![t].next = ptr[work[t].cell]]
            /\ Goto(t, "takeback") /\ UNCHANGED <<guards, held>>
    /\ UNCHANGED <<ptr, heap, records, slots, arc, unpaid>>

(* The cell moved on: take the debt back and go on with the newer pointer,  *)
(* or keep the value, when a writer has paid for it.                        *)
LoadTakeBack(t) ==
    /\ swpc[t] = "takeback"
    /\ IF slots[t][work[t].slot] = work[t].val
       THEN /\ slots' = [slots EXCEPT ![t][work[t].slot] = FREE]
            /\ Proceed(t, work[t].next)
            /\ UNCHANGED guards
       ELSE MakeGuard(t, 0) /\ UNCHANGED slots
    /\ UNCHANGED <<ptr, heap, records, arc, unpaid>>

(* As DropGuard would be if it did not look whether the debt has been paid. *)
DropGuardUnpaid(t, i) ==
    LET g == guards[t][i] IN
    /\ swpc[t] = "idle" /\ g # NoGuard
    /\ guards' = [guards EXCEPT ![t][i] = NoGuard]
    /\ slots' = IF g.slot # 0 THEN [slots EXCEPT ![t][g.slot] = FREE] ELSE slots
    /\ UNCHANGED <<ptr, heap, records, arc, swpc, work, unpaid, held>>

(* Guard::drop: give the slot back, or drop the reference that was paid.    *)
DropGuard(t, i) ==
    LET g == guards[t][i]
        owed == g.slot # 0 /\ slots[t][g.slot] = g.val IN
    /\ swpc[t] = "idle" /\ g # NoGuard
    /\ guards' = [guards EXCEPT ![t][i] = NoGuard]
    /\ IF owed THEN slots' = [slots EXCEPT ![t][g.slot] = FREE] /\ UNCHANGED strong
               ELSE DropRef(g.val) /\ UNCHANGED slots
    /\ UNCHANGED <<ptr, born, made, records, arc, swpc, work, unpaid, held>>

(* Guard::to_arc, which load_full keeps past the guard.                     *)
ToArc(t, i) ==
    /\ swpc[t] = "idle" /\ t \in Writers /\ guards[t][i] # NoGuard /\ arc[t] = NoGuard
    /\ AddRef(guards[t][i].val)
    /\ arc' = [arc EXCEPT ![t] = [guards[t][i] EXCEPT !.slot = 0]]
    /\ UNCHANGED <<ptr, born, made, records, slots, guards, swpc, work, unpaid, held>>

DropArc(t) ==
    /\ swpc[t] = "idle" /\ arc[t] # NoGuard
    /\ DropRef(arc[t].val)
    /\ arc' = [arc EXCEPT ![t] = NoGuard]
    /\ UNCHANGED <<ptr, born, made, records, slots, guards, swpc, work, unpaid, held>>

-----------------------------------------------------------------------------
(* A new value is made at any address that is free, or, for an option, the  *)
(* cell is emptied.                                                         *)
Replacements(c) == {a \in Addresses : strong[a] = 0 /\ made < MaxValues}
                   \cup (IF c \in OptionCells THEN {Null} ELSE {})

(* A value is made at address new: Arc::new.                                *)
Make(new) ==
    IF new = Null THEN UNCHANGED heap
    ELSE /\ strong' = [strong EXCEPT ![new] = 1]
         /\ born' = [born EXCEPT ![new] = made + 1]
         /\ made' = made + 1

(* Value is, at address new, goes into cell c, and the walk over the        *)
(* records in place for the one that comes out starts.                      *)
Replace(t, c, new, is) ==
    /\ ptr' = [ptr EXCEPT ![c] = new]
    /\ held' = [u \in SwapThreads |->
                  IF work[u].cell = c /\ swpc[u] \in {"read", "record", "confirm", "takeback"}
                     /\ new # Null
                  THEN held[u] \cup {is} ELSE held[u]]
    /\ IF ptr[c] = Null THEN UNCHANGED <<swpc, work, unpaid>>
       ELSE /\ Goto(t, "pay")
            /\ work' = [work EXCEPT ![t].val = ptr[c]]
            /\ unpaid' = [unpaid EXCEPT ![t] = {s \in AllSlots : s[1] \in records}]

(* swap, store and take, of a value made for it *)
Swap(t, c, new) ==
    /\ swpc[t] = "idle" /\ t \in Writers /\ ptr[c] # new
    /\ Make(new) /\ Replace(t, c, new, made + 1)
    /\ UNCHANGED <<records, slots, guards, arc>>

(* swap and store of the Arc the thread has: its reference becomes the      *)
(* cell's, whether or not the value is in a cell already.                   *)
SwapArc(t, c) ==
    /\ swpc[t] = "idle" /\ arc[t] # NoGuard
    /\ Replace(t, c, arc[t].val, arc[t].is)
    /\ arc' = [arc EXCEPT ![t] = NoGuard]
    /\ UNCHANGED <<heap, records, slots, guards>>

(* compare_and_set against the Arc the thread has, as rcu calls it; when it *)
(* fails, the Arc and the new value are dropped and rcu starts over.        *)
CompareAndSet(t, c, new) ==
    /\ swpc[t] = "idle" /\ arc[t] # NoGuard
    /\ IF ptr[c] = arc[t].val
       THEN Make(new) /\ Replace(t, c, new, made + 1) /\ UNCHANGED arc
       ELSE /\ DropRef(arc[t].val) /\ arc' = [arc EXCEPT ![t] = NoGuard]
            /\ UNCHANGED <<ptr, born, made, swpc, work, unpaid, held>>
    /\ UNCHANGED <<records, slots, guards>>

(* pay_debts: a slot that owes the value gets its reference first, and is   *)
(* freed second.                                                            *)
PayDebt(t, s) ==
    /\ swpc[t] = "pay" /\ s \in unpaid[t]
    /\ IF slots[s[1]][s[2]] = work[t].val
       THEN /\ AddRef(work[t].val) /\ Goto(t, "paying")
            /\ unpaid' = [unpaid EXCEPT ![t] = @ \ {s}]
            /\ work' = [work EXCEPT ![t].to = s]
       ELSE unpaid' = [unpaid EXCEPT ![t] = @ \ {s}] /\ UNCHANGED <<strong, swpc, work>>
    /\ UNCHANGED <<ptr, born, made, records, slots, guards, arc, held>>

FreeSlot(t) ==
    LET s == work[t].to IN
    /\ swpc[t] = "paying"
    /\ IF slots[s[1]][s[2]] = work[t].val
       THEN slots' = [slots EXCEPT ![s[1]][s[2]] = FREE] /\ UNCHANGED strong
       ELSE DropRef(work[t].val) /\ UNCHANGED slots
    /\ work' = [work EXCEPT ![t].to = <<>>]
    /\ Goto(t, "pay")
    /\ UNCHANGED <<ptr, born, made, records, guards, arc, unpaid, held>>

(* The writer drops the Arc it has taken out of the cell.                   *)
GiveUp(t) ==
    /\ swpc[t] = "pay" /\ unpaid[t] = {}
    /\ DropRef(work[t].val)
    /\ work' = [work EXCEPT ![t] = NoWork]
    /\ Goto(t, "idle")
    /\ UNCHANGED <<ptr, born, made, records, slots, guards, arc, unpaid, held>>

-----------------------------------------------------------------------------
Loading(t) == \/ \E c \in SwapCells : LoadBegin(t, c)
           \/ LoadPtr(t) \/ LoadRecord(t) \/ LoadConfirm(t) \/ LoadTakeBack(t)
           \/ \E i \in Index : DropGuard(t, i) \/ ToArc(t, i)
           \/ DropArc(t)
Store(t) == \/ \E c \in SwapCells : SwapArc(t, c)
            \/ \E c \in SwapCells : \E new \in Replacements(c) :
                 Swap(t, c, new) \/ CompareAndSet(t, c, new)
            \/ \E s \in AllSlots : PayDebt(t, s)
            \/ FreeSlot(t) \/ GiveUp(t)

SwNext == \E t \in SwapThreads : Loading(t) \/ Store(t)
SwSpec == SwInit /\ [][SwNext]_scvars

-----------------------------------------------------------------------------
Lives(g) == g # NoGuard => strong[g.val] > 0 /\ born[g.val] = g.is

(* "Holding it keeps the value alive": whatever is replaced, paid, dropped  *)
(* and made anew at the same address meanwhile, a guard and an Arc go on    *)
(* naming the value they were made for.                                     *)
GuardKeepsValue == \A t \in SwapThreads : Lives(arc[t]) /\ \A i \in Index : Lives(guards[t][i])

(* What t holds of the value at a: its Arc; the guards that own a           *)
(* reference or whose debt has been paid, together with a load whose debt   *)
(* has been; the reference it took out of a cell; one it is paying.         *)
Owned(t, a) ==
      Cardinality({i \in Index : guards[t][i] # NoGuard /\ guards[t][i].val = a})
    + (IF swpc[t] \in {"confirm", "takeback"} /\ work[t].val = a THEN 1 ELSE 0)
    - Cardinality({i \in Index : slots[t][i] = a})
    + (IF arc[t].val = a THEN 1 ELSE 0)
    + (IF swpc[t] \in {"pay", "paying"} /\ work[t].val = a THEN 1 ELSE 0)
    + (IF swpc[t] = "paying" /\ work[t].val = a THEN 1 ELSE 0)

(* "A replaced value is dropped when its last reader lets go, exactly as a  *)
(* plain `Arc` would be": the strong count is the number of references the  *)
(* cells and the threads own, debts not included, so that no value is       *)
(* dropped twice and none is left behind.                                   *)
CountsExact ==
    \A a \in Addresses :
        strong[a] = Cardinality({c \in SwapCells : ptr[c] = a})
                    + MapThenSumSet(LAMBDA t : Owned(t, a), SwapThreads)

(* A load of a cell returns a value the cell has held since the load began. *)
LoadReturnsHeld ==
    [][\A t \in SwapThreads, i \in Index :
         guards[t][i] = NoGuard /\ guards'[t][i] # NoGuard => guards'[t][i].is \in held[t]]_scvars
=============================================================================
