------------------------- MODULE ReliableUdpProofs --------------------------
(***************************************************************************)
(* ReliableUdp for any blocks, codes, losses, reorderings and restarts: the*)
(* sender holds what the receiver has not passed, the window has room for  *)
(* what it sends, and what is delivered is what was sealed, in order, less *)
(* the blocks given up.                                                    *)
(***************************************************************************)
EXTENDS ReliableUdpLemmas

-----------------------------------------------------------------------------
(* A drain *)

(* A step of the receiver that takes session e's frontier to from, and      *)
(* drains the shards of win from there.                                     *)
DrainStep(e, win, from) ==
    /\ win \in [BlockIds -> SUBSET Datagram] /\ Genuine(e, win)
    /\ from \in Nat /\ next_deliver[e] <= from /\ from <= MaxUdpItems /\ from <= Len(blocks[e])
    /\ Drain(e, win, from)
    /\ skipped' \in [Epochs -> SUBSET Nat]
    /\ \A x \in Epochs : \A b \in skipped'[x] : b \in skipped[x] \/ (x = e /\ b < from)
    /\ data' \in SUBSET data /\ UNCHANGED <<sender, control, plan>>

(* It passes blocks that the session has sealed, each with its items.       *)
LEMMA DrainPasses ==
    ASSUME UInv, NEW e \in Epochs, NEW win, Genuine(e, win), NEW from \in Nat, from <= Len(blocks[e]),
           NEW to \in from..MaxUdpItems, DrainedTo(e, win, from, to)
    PROVE  /\ to \in Nat /\ to <= MaxUdpItems /\ from <= to /\ to <= Len(blocks[e])
           /\ \A b \in from..(to - 1) :
                  b < Len(blocks[e]) /\ ItemsOf(win[b]) = blocks[e][b + 1].items
<1>0. MaxUdpItems \in Nat /\ Len(blocks[e]) \in Nat
  BY UdpAssumption DEF UInv, UTypeOK
<1>1. to \in Nat /\ to <= MaxUdpItems /\ from <= to
  BY <1>0
<1>2. ASSUME NEW b \in from..(to - 1)
      PROVE  b < Len(blocks[e]) /\ ItemsOf(win[b]) = blocks[e][b + 1].items
  <2>1. b \in BlockIds
    BY <1>0, <1>1 DEF BlockIds
  <2>2. Decoded(win[b])
    BY Zenon DEF DrainedTo
  <2> QED
    BY <2>1, <2>2, DecodesToItems
<1>3. to <= Len(blocks[e])
  <2>1. CASE to = from
    BY <2>1
  <2>2. CASE to > from
    <3>1. to - 1 \in from..(to - 1)
      BY <1>1, <2>2
    <3>2. to - 1 < Len(blocks[e])
      BY <1>2, <3>1
    <3> QED
      BY <1>0, <1>1, <3>2
  <2> QED
    BY <1>1, <2>1, <2>2
<1> QED
  BY <1>1, <1>2, <1>3

(* What it gives out are items.                                             *)
LEMMA DrainedItems ==
    ASSUME UInv, NEW e \in Epochs, NEW win, Genuine(e, win), NEW from \in Nat, from <= Len(blocks[e]),
           NEW to \in from..MaxUdpItems, DrainedTo(e, win, from, to)
    PROVE  Joined([n \in 1..(to - from) |-> Unpadded(ItemsOf(win[from + n - 1]))]) \in Seq(Item)
<1> DEFINE part(n) == Unpadded(ItemsOf(win[from + n - 1]))
           out == [n \in 1..(to - from) |-> part(n)]
<1>0. /\ to \in Nat /\ from <= to /\ to <= Len(blocks[e])
      /\ \A b \in from..(to - 1) :
             b < Len(blocks[e]) /\ ItemsOf(win[b]) = blocks[e][b + 1].items
  BY DrainPasses
<1>1. blocks[e] \in Seq(Block) /\ Len(blocks[e]) \in Nat
  BY DEF UInv, UTypeOK
<1>2. ASSUME NEW n \in 1..(to - from) PROVE part(n) \in Seq(Item)
  <2>1. from + n - 1 \in from..(to - 1) /\ (from + n - 1) + 1 = from + n /\ from + n \in 1..Len(blocks[e])
    BY <1>0, <1>1
  <2>2. ItemsOf(win[from + n - 1]) = blocks[e][from + n].items
    BY <1>0, <2>1
  <2>3. blocks[e][from + n] \in Block
    BY <1>1, <2>1
  <2>4. ItemsOf(win[from + n - 1]) \in Seq(Item)
    BY <2>2, <2>3 DEF Block
  <2> QED
    BY <2>4, UnpaddedType
<1>3. to - from \in Nat
  BY <1>0
<1>4. out \in Seq(Seq(Item))
  <2> HIDE DEF part
  <2> QED
    BY <1>2, <1>3
<1> HIDE DEF out
<1>5. Joined(out) \in Seq(Item)
  BY <1>4, JoinedType
<1> QED
  BY <1>5 DEF out

(* The frontier of no session moves back.                                   *)
Onward == \A x \in Epochs : /\ next_deliver[x] \in Nat /\ next_deliver'[x] \in Nat
                            /\ next_deliver[x] <= next_deliver'[x]

(* What is bounded by the frontier stays so when it moves on.               *)
LEMMA OnwardKeeps ==
    ASSUME UInv, Onward, data' \in SUBSET data, UNCHANGED <<sender, control>>
    PROVE  /\ \A f \in control' : f.ack <= next_deliver'[f.epoch]
           /\ acked_through' <= next_deliver'[session']
           /\ FlowKept' /\ HeldUntilPassed' /\ WindowNeverRefuses'
<1>0. session \in Epochs /\ WindowCap \in Nat
  BY UdpAssumption DEF UInv, UTypeOK
<1>1. ASSUME NEW f \in control PROVE f.ack <= next_deliver'[f.epoch]
  <2>1. f.epoch \in Epochs /\ f.ack \in Nat /\ f.ack <= next_deliver[f.epoch]
    BY DEF UInv, UTypeOK, Frontier, Feedback
  <2> QED
    BY <2>1 DEF Onward
<1>2. acked_through <= next_deliver'[session]
  <2>1. acked_through \in Nat /\ acked_through <= next_deliver[session]
    BY DEF UInv, UTypeOK, Frontier
  <2> QED
    BY <1>0, <2>1 DEF Onward
<1>3. ASSUME NEW b \in pending PROVE b < next_deliver'[session] + WindowCap
  <2>1. b \in Nat /\ b < next_deliver[session] + WindowCap
    BY DEF UInv, UTypeOK, FlowKept
  <2> QED
    BY <1>0, <2>1, FartherBound DEF Onward
<1>4. ASSUME NEW b \in 0..(next_block - 1), b \notin pending PROVE b < next_deliver'[session]
  <2>1. b \in Int /\ b < next_deliver[session]
    BY <1>4 DEF UInv, HeldUntilPassed
  <2> QED
    BY <1>0, <2>1 DEF Onward
<1>5. ASSUME NEW d \in data PROVE d.block < next_deliver'[d.epoch] + WindowCap
  <2>1. d.epoch \in Epochs /\ d.block \in Nat /\ d.block < next_deliver[d.epoch] + WindowCap
    BY DEF UInv, UTypeOK, WindowNeverRefuses, Datagram
  <2> QED
    BY <1>0, <2>1, FartherBound DEF Onward
<1>6. FlowKept'
  BY <1>3 DEF UInv, FlowKept, next_block, sender
<1>7. HeldUntilPassed'
  BY <1>4 DEF HeldUntilPassed, next_block, sender
<1>8. WindowNeverRefuses'
  BY <1>5, SMTT(30) DEF WindowNeverRefuses
<1> QED
  BY <1>1, <1>2, <1>6, <1>7, <1>8 DEF sender

(* The receiver's step keeps the invariant: it moves the frontier over      *)
(* blocks that the session has sealed.                                      *)
LEMMA DrainKeepsInv ==
    ASSUME UInv, NEW e \in Epochs, NEW win, NEW from, DrainStep(e, win, from)
    PROVE  UInv'
<1>0. /\ MaxUdpItems \in Nat /\ from \in Nat /\ from \in 0..MaxUdpItems /\ from <= Len(blocks[e])
      /\ next_deliver[e] \in Nat /\ next_deliver[e] <= from /\ Genuine(e, win) /\ Drain(e, win, from)
  BY UdpAssumption DEF UInv, UTypeOK, DrainStep
<1>1. /\ data' \in SUBSET data /\ UNCHANGED <<sender, control, plan>>
      /\ win \in [BlockIds -> SUBSET Datagram]
      /\ skipped' \in [Epochs -> SUBSET Nat]
      /\ \A x \in Epochs : \A b \in skipped'[x] : b \in skipped[x] \/ (x = e /\ b < from)
  BY Zenon DEF DrainStep
<1>2. PICK to \in from..MaxUdpItems : DrainedTo(e, win, from, to)
  BY <1>0, DrainStops, SMTT(30)
<1>3. to \in Nat /\ to <= MaxUdpItems /\ from <= to /\ to <= Len(blocks[e])
  BY <1>0, <1>2, DrainPasses
<1>4. /\ next_deliver' \in [Epochs -> 0..MaxUdpItems] /\ next_deliver'[e] = to
      /\ \A x \in Epochs : x # e => next_deliver'[x] = next_deliver[x]
  <2>1. next_deliver \in [Epochs -> 0..MaxUdpItems] /\ next_deliver' = [next_deliver EXCEPT ![e] = to]
    BY <1>2, Zenon DEF DrainedTo, UInv, UTypeOK
  <2> QED
    BY <1>0, <1>3, <2>1, SMTT(30)
<1>5. Onward
  <2> SUFFICES ASSUME NEW x \in Epochs
               PROVE  /\ next_deliver[x] \in Nat /\ next_deliver'[x] \in Nat
                      /\ next_deliver[x] <= next_deliver'[x]
    BY DEF Onward
  <2>1. next_deliver[x] \in Nat /\ MaxUdpItems \in Nat
    BY UdpAssumption DEF UInv, UTypeOK
  <2>2. CASE x = e
    BY <1>0, <1>3, <1>4, <2>2
  <2>3. CASE x # e
    BY <1>4, <2>1, <2>3
  <2> QED
    BY <2>2, <2>3
<1>6. /\ window' \in [Epochs -> [BlockIds -> SUBSET Datagram]]
      /\ \A x \in Epochs : x # e => window'[x] = window[x]
      /\ \A b \in BlockIds : window'[e][b] = IF b < to THEN {} ELSE win[b]
  <2> DEFINE kept == [b \in BlockIds |-> IF b < to THEN {} ELSE win[b]]
  <2>1. /\ window \in [Epochs -> [BlockIds -> SUBSET Datagram]] /\ window' = [window EXCEPT ![e] = kept]
    BY <1>2 DEF DrainedTo, UInv, UTypeOK
  <2>2. kept \in [BlockIds -> SUBSET Datagram] /\ \A b \in BlockIds : kept[b] = IF b < to THEN {} ELSE win[b]
    BY <1>1
  <2> HIDE DEF kept
  <2> QED
    BY <2>1, <2>2, SMTT(30)
<1>7. delivered' \in [Epochs -> Seq(Item)]
  <2> DEFINE out == Joined([n \in 1..(to - from) |-> Unpadded(ItemsOf(win[from + n - 1]))])
  <2>1. out \in Seq(Item)
    BY <1>0, <1>2, DrainedItems, SMTT(30)
  <2>2. delivered \in [Epochs -> Seq(Item)] /\ delivered' = [delivered EXCEPT ![e] = @ \o out]
    BY <1>2 DEF DrainedTo, UInv, UTypeOK
  <2> HIDE DEF out
  <2>3. delivered[e] \o out \in Seq(Item)
    BY <2>1, <2>2
  <2> QED
    BY <2>2, <2>3
<1>8. UTypeOK'
  BY <1>1, <1>4, <1>6, <1>7, SMTT(30) DEF UInv, UTypeOK, sender
<1>9. Frontier'
  <2>1. \A x \in Epochs : next_deliver'[x] <= Len(blocks[x])
    BY <1>3, <1>4 DEF UInv, Frontier
  <2>2. ASSUME NEW x \in Epochs, NEW b \in skipped'[x] PROVE b < next_deliver'[x]
    <3>1. b \in Nat
      BY <1>1
    <3>2. CASE b \in skipped[x]
      <4>1. b < next_deliver[x]
        BY <3>2 DEF UInv, Frontier
      <4> QED
        BY <1>5, <3>1, <4>1, SMTT(30) DEF Onward
    <3>3. CASE x = e /\ b < from
      BY <1>0, <1>3, <1>4, <3>1, <3>3
    <3> QED
      BY <1>1, <3>2, <3>3
  <2>3. ASSUME NEW x \in Epochs, NEW b \in BlockIds, window'[x][b] # {} PROVE b >= next_deliver'[x]
    <3>1. CASE x = e
      <4>1. b \in Int /\ ~ (b < to)
        BY <1>0, <1>6, <2>3, <3>1, SMTT(30) DEF BlockIds
      <4> QED
        BY <1>3, <1>4, <3>1, <4>1, SMTT(30)
    <3>2. CASE x # e
      BY <1>4, <1>6, <2>3, <3>2, SMTT(30) DEF UInv, Frontier
    <3> QED
      BY <3>1, <3>2
  <2> QED
    BY <1>1, <1>5, <2>1, <2>2, <2>3, OnwardKeeps, SMTT(30) DEF Frontier, sender
<1>10. ShardsGenuine'
  <2>1. \A x \in Epochs, b \in BlockIds : \A s \in window'[x][b] :
            b < Len(blocks[x]) /\ s.items = blocks[x][b + 1].items
    <3> SUFFICES ASSUME NEW x \in Epochs, NEW b \in BlockIds, NEW s \in window'[x][b]
                 PROVE  b < Len(blocks[x]) /\ s.items = blocks[x][b + 1].items
      OBVIOUS
    <3>1. CASE x = e
      <4>1. s \in win[b]
        BY <1>6, <3>1, SMTT(30)
      <4> QED
        BY <1>0, <3>1, <4>1, SMTT(30) DEF Genuine
    <3>2. CASE x # e
      BY <1>6, <3>2, SMTT(30) DEF UInv, ShardsGenuine
    <3> QED
      BY <3>1, <3>2, SMTT(30)
  <2> QED
    BY <1>1, <2>1 DEF UInv, ShardsGenuine, sender
<1> QED
  BY <1>1, <1>5, <1>8, <1>9, <1>10, OnwardKeeps, SMTT(30) DEF UInv

(* The window with a datagram of its session put in.                        *)
Put(d) == [window[d.epoch] EXCEPT ![d.block] =
              IF \E s \in @ : s.index = d.index THEN @ ELSE @ \cup {d}]

(* It is genuine.                                                           *)
LEMMA PutGenuine ==
    ASSUME UInv, NEW d \in data
    PROVE  /\ d.epoch \in Epochs /\ Genuine(d.epoch, Put(d)) /\ Put(d) \in [BlockIds -> SUBSET Datagram]
           /\ next_deliver[d.epoch] \in Nat /\ next_deliver[d.epoch] <= MaxUdpItems
           /\ next_deliver[d.epoch] <= Len(blocks[d.epoch])
<1>1. /\ d \in Datagram /\ d.epoch \in Epochs /\ window[d.epoch] \in [BlockIds -> SUBSET Datagram]
      /\ d.block < Len(blocks[d.epoch]) /\ d.items = blocks[d.epoch][d.block + 1].items
  BY SMTT(30) DEF UInv, UTypeOK, ShardsGenuine, Datagram
<1>2. ASSUME NEW b \in BlockIds
      PROVE  /\ Put(d)[b] \in SUBSET (window[d.epoch][b] \cup {d})
             /\ b # d.block => Put(d)[b] = window[d.epoch][b]
  BY <1>1, SMTT(30) DEF Put
<1>3. DOMAIN Put(d) = BlockIds /\ Put(d) = [b \in BlockIds |-> Put(d)[b]]
  BY <1>1, Zenon DEF Put
<1>4. Put(d) \in [BlockIds -> SUBSET Datagram]
  <2>1. \A b \in BlockIds : Put(d)[b] \in SUBSET Datagram
    BY <1>1, <1>2
  <2> QED
    BY <1>3, <2>1
<1>5. Genuine(d.epoch, Put(d))
  <2> SUFFICES ASSUME NEW b \in BlockIds, NEW s \in Put(d)[b]
               PROVE  b < Len(blocks[d.epoch]) /\ s.items = blocks[d.epoch][b + 1].items
    BY DEF Genuine
  <2>1. CASE s \in window[d.epoch][b]
    BY <1>1, <2>1 DEF UInv, ShardsGenuine
  <2>2. CASE s = d /\ b = d.block
    BY <1>1, <2>2, SMTT(30)
  <2> QED
    BY <1>2, <2>1, <2>2
<1>6. /\ next_deliver[d.epoch] \in Nat /\ next_deliver[d.epoch] <= MaxUdpItems
      /\ next_deliver[d.epoch] <= Len(blocks[d.epoch])
  BY <1>1, UdpAssumption, SMTT(30) DEF UInv, UTypeOK, Frontier
<1> QED
  BY <1>1, <1>4, <1>5, <1>6, SMTT(30)

(* A datagram drains its session's window, or changes nothing there.        *)
LEMMA ArrivalIs ==
    ASSUME UInv, NEW d \in data, NEW dup \in BOOLEAN, DataArrives(d, dup)
    PROVE  /\ data' \in SUBSET data /\ UNCHANGED <<sender, control, skipped>>
           /\ \/ Drain(d.epoch, Put(d), next_deliver[d.epoch])
              \/ UNCHANGED <<next_deliver, window, delivered>>
BY Zenon DEF DataArrives, Ingest, IngestAt, Put

(* It keeps the invariant.                                                  *)
LEMMA ArrivalKeepsInv ==
    ASSUME UInv, UNCHANGED plan, NEW d \in data, NEW dup \in BOOLEAN, DataArrives(d, dup)
    PROVE  UInv'
<1>1. /\ data' \in SUBSET data /\ UNCHANGED <<sender, control, skipped>>
      /\ \/ Drain(d.epoch, Put(d), next_deliver[d.epoch])
         \/ UNCHANGED <<next_deliver, window, delivered>>
  BY ArrivalIs, SMTT(30)
<1>2. CASE Drain(d.epoch, Put(d), next_deliver[d.epoch])
  <2>1. /\ skipped' \in [Epochs -> SUBSET Nat]
        /\ \A x \in Epochs : \A b \in skipped'[x] :
               b \in skipped[x] \/ (x = d.epoch /\ b < next_deliver[d.epoch])
    BY <1>1, SMTT(30) DEF UInv, UTypeOK
  <2>2. next_deliver[d.epoch] <= next_deliver[d.epoch]
    BY PutGenuine, SMTT(30)
  <2>3. DrainStep(d.epoch, Put(d), next_deliver[d.epoch])
    BY <1>1, <1>2, <2>1, <2>2, PutGenuine, Zenon DEF DrainStep
  <2> QED
    BY <2>3, PutGenuine, DrainKeepsInv
<1>3. CASE UNCHANGED <<next_deliver, window, delivered>>
  BY <1>1, <1>3, LossKeepsInv
<1> QED
  BY <1>1, <1>2, <1>3, SMTT(30)

(* The window whose head is given up.                                       *)
Beheaded(e) == [window[e] EXCEPT ![next_deliver[e]] = {}]

(* skip_head gives up a block that the session has sealed.                  *)
LEMMA SkipIs ==
    ASSUME UInv, NEW e \in Epochs, SkipHead(e)
    PROVE  /\ next_deliver[e] \in Nat /\ next_deliver[e] + 1 <= MaxUdpItems
           /\ next_deliver[e] + 1 <= Len(blocks[e])
           /\ Beheaded(e) \in [BlockIds -> SUBSET Datagram] /\ Genuine(e, Beheaded(e))
           /\ Drain(e, Beheaded(e), next_deliver[e] + 1)
           /\ skipped' = [skipped EXCEPT ![e] = @ \cup {next_deliver[e]}]
           /\ UNCHANGED <<sender, data, control>>
<1>1. PICK b \in BlockIds : window[e][b] # {}
  BY DEF SkipHead
<1>2. PICK s \in window[e][b] : TRUE
  BY <1>1, SMTT(30)
<1>3. /\ b \in Nat /\ b < MaxUdpItems /\ next_deliver[e] \in Nat /\ Len(blocks[e]) \in Nat
      /\ MaxUdpItems \in Nat /\ window[e] \in [BlockIds -> SUBSET Datagram]
  BY UdpAssumption, SMTT(30) DEF BlockIds, UInv, UTypeOK
<1>4. b >= next_deliver[e] /\ b < Len(blocks[e])
  BY <1>1, <1>2 DEF UInv, Frontier, ShardsGenuine
<1>5. next_deliver[e] + 1 <= MaxUdpItems /\ next_deliver[e] + 1 <= Len(blocks[e])
  BY <1>3, <1>4, SMTT(30)
<1>6. Beheaded(e) \in [BlockIds -> SUBSET Datagram]
  BY <1>3, Zenon DEF Beheaded
<1>7. Genuine(e, Beheaded(e))
  BY <1>3 DEF Beheaded, Genuine, UInv, ShardsGenuine
<1> QED
  BY <1>3, <1>5, <1>6, <1>7 DEF SkipHead, Beheaded

(* It keeps the invariant.                                                  *)
LEMMA SkipKeepsInv ==
    ASSUME UInv, UNCHANGED plan, NEW e \in Epochs, SkipHead(e)
    PROVE  UInv'
<1> DEFINE from == next_deliver[e] + 1
<1>1. /\ from \in Nat /\ next_deliver[e] <= from /\ from <= MaxUdpItems /\ from <= Len(blocks[e])
      /\ next_deliver[e] < from /\ next_deliver[e] \in Nat
      /\ Beheaded(e) \in [BlockIds -> SUBSET Datagram] /\ Genuine(e, Beheaded(e))
      /\ Drain(e, Beheaded(e), from)
      /\ skipped' = [skipped EXCEPT ![e] = @ \cup {next_deliver[e]}]
      /\ UNCHANGED <<sender, data, control>>
  BY SkipIs
<1> HIDE DEF from
<1>2. /\ skipped' \in [Epochs -> SUBSET Nat]
      /\ \A x \in Epochs : \A b \in skipped'[x] : b \in skipped[x] \/ (x = e /\ b < from)
  BY <1>1 DEF UInv, UTypeOK
<1>3. DrainStep(e, Beheaded(e), from)
  BY <1>1, <1>2 DEF DrainStep
<1> QED
  BY <1>3, DrainKeepsInv

-----------------------------------------------------------------------------
(* The invariant *)

(* Nothing is sent when the sender starts.                                  *)
LEMMA UInitInv == UInit => UInv
<1> SUFFICES ASSUME UInit PROVE UInv
  BY SMTT(30)
<1>1. UTypeOK
  BY UdpAssumption, SMTT(30) DEF UInit, UTypeOK, Epochs
<1>2. Frontier /\ ShardsGenuine /\ WindowNeverRefuses
  BY UdpAssumption, SMTT(30) DEF UInit, Frontier, ShardsGenuine, WindowNeverRefuses, Epochs
<1>3. FlowKept
  BY SMTT(30) DEF UInit, FlowKept
<1>4. next_block = 0
  BY UdpAssumption DEF UInit, next_block, Epochs
<1>5. HeldUntilPassed
  BY <1>4 DEF HeldUntilPassed
<1> QED
  BY <1>1, <1>2, <1>3, <1>5 DEF UInv

(* A poll acknowledges the frontier as it is.                               *)
LEMMA PollKeepsInv ==
    ASSUME UInv, UNCHANGED plan, NEW e \in Epochs, Poll(e)
    PROVE  UInv'
<1>1. PICK timed_out \in BOOLEAN, nak \in {NAK_NONE} \cup BlockIds : Service(e, timed_out, nak)
  BY SMTT(30) DEF Poll
<1> DEFINE f == [epoch |-> e, ack |-> next_deliver[e], nak |-> nak,
                 mask |-> IF nak = NAK_NONE THEN {} ELSE Missing(e, nak)]
<1>2. control' = control \cup {f} /\ UNCHANGED <<sender, data, receiver>>
  BY <1>1, Zenon DEF Service
<1>3. f \in Feedback
  <2>1. nak \in Nat \cup {NAK_NONE}
    BY UdpAssumption, SMTT(30) DEF BlockIds
  <2>2. \A r \in plan.parities : r \in Nat
    BY UdpAssumption, Zenon DEF UInv, UTypeOK
  <2>3. Missing(e, nak) \in SUBSET Nat
    BY <2>2, UdpAssumption, SMTT(30) DEF Missing, MaskBits
  <2>4. next_deliver[e] \in Nat
    BY UdpAssumption, SMTT(30) DEF UInv, UTypeOK
  <2> QED
    BY <2>1, <2>3, <2>4, Zenon DEF Feedback
<1>4. f.epoch = e /\ f.ack = next_deliver[e] /\ next_deliver[e] \in Nat
  BY UdpAssumption, SMTT(30) DEF UInv, UTypeOK
<1> HIDE DEF f
<1>5. UTypeOK'
  BY <1>2, <1>3 DEF UInv, UTypeOK, sender, receiver
<1>6. Frontier'
  BY <1>2, <1>4 DEF UInv, Frontier, sender, receiver
<1>7. ShardsGenuine' /\ WindowNeverRefuses'
  BY <1>2, SMTT(30) DEF UInv, ShardsGenuine, WindowNeverRefuses, sender, receiver
<1>8. FlowKept' /\ HeldUntilPassed'
  BY <1>2 DEF UInv, FlowKept, HeldUntilPassed, next_block, sender, receiver
<1> QED
  BY <1>5, <1>6, <1>7, <1>8 DEF UInv

(* Every step keeps the invariant.                                          *)
LEMMA UNextInv == UInv /\ [UNext]_uvars => UInv'
<1> SUFFICES ASSUME UInv, [UNext]_uvars PROVE UInv'
  OBVIOUS
<1>1. CASE UNCHANGED uvars
  BY <1>1, LossKeepsInv DEF uvars, sender, receiver
<1>2. CASE UNext
  <2>0. UStep /\ UNCHANGED plan
    BY <1>2 DEF UNext
  <2>1. CASE FlushBlock \/ \E size \in Sizes : PushItem(size)
    BY <2>0, <2>1, SendKeepsInv
  <2>2. CASE ProbeOldest
    <3>1. {b \in pending : \A c \in pending : b <= c} \in SUBSET pending
      OBVIOUS
    <3> QED
      BY <2>0, <2>2, <3>1, ResendIsHeld DEF ProbeOldest
  <2>3. CASE RetransmitAllData
    BY <2>0, <2>3, ResendIsHeld DEF RetransmitAllData
  <2>4. CASE Restart
    BY <2>0, <2>4, RestartKeepsInv
  <2>5. ASSUME NEW d \in data, NEW dup \in BOOLEAN, DataArrives(d, dup) PROVE UInv'
    BY <2>0, <2>5, ArrivalKeepsInv
  <2>6. ASSUME NEW f \in control, NEW dup \in BOOLEAN, FeedbackArrives(f, dup) PROVE UInv'
    BY <2>0, <2>6, FeedbackKeepsInv
  <2>7. ASSUME NEW e \in Epochs, Admit(e) PROVE UInv'
    BY <2>0, <2>7, LossKeepsInv DEF Admit
  <2>8. ASSUME NEW e \in Epochs, SkipHead(e) PROVE UInv'
    BY <2>0, <2>8, SkipKeepsInv
  <2>9. ASSUME NEW e \in Epochs, Poll(e) PROVE UInv'
    BY <2>0, <2>9, PollKeepsInv
  <2>10. CASE Lose
    <3>1. data' \in SUBSET data /\ control' \in SUBSET control
      BY <2>10 DEF Lose
    <3> QED
      BY <2>0, <2>10, <3>1, LossKeepsInv DEF Lose
  <2> QED
    BY <2>0, <2>1, <2>2, <2>3, <2>4, <2>5, <2>6, <2>7, <2>8, <2>9, <2>10 DEF UStep
<1> QED
  BY <1>1, <1>2

-----------------------------------------------------------------------------
(* What is delivered *)

(* The blocks of session e below n, the skipped ones empty.                 *)
SentTo(e, skips, n) == [i \in 1..n |-> IF i - 1 \in skips THEN <<>> ELSE blocks[e][i].items]

(* They are sequences of items.                                             *)
LEMMA SentType ==
    ASSUME UInv, NEW e \in Epochs, NEW skips, NEW n \in Nat, n <= Len(blocks[e])
    PROVE  SentTo(e, skips, n) \in Seq(Seq(Item)) /\ Len(SentTo(e, skips, n)) = n
<1>1. blocks[e] \in Seq(Block) /\ Len(blocks[e]) \in Nat
  BY SMTT(30) DEF UInv, UTypeOK
<1>2. \A i \in 1..n : blocks[e][i].items \in Seq(Item)
  <2>1. \A i \in 1..n : blocks[e][i] \in Block
    BY <1>1
  <2> QED
    BY <2>1, SMTT(30) DEF Block
<1>3. \A i \in 1..n : (IF i - 1 \in skips THEN <<>> ELSE blocks[e][i].items) \in Seq(Item)
  BY <1>2
<1> DEFINE part(i) == IF i - 1 \in skips THEN <<>> ELSE blocks[e][i].items
<1>4. \A i \in 1..n : part(i) \in Seq(Item)
  BY <1>3
<1>5. SentTo(e, skips, n) = [i \in 1..n |-> part(i)]
  BY SMTT(30) DEF SentTo
<1> HIDE DEF part
<1> QED
  BY <1>4, <1>5

(* A drain delivers the blocks it passes.                                   *)
LEMMA DrainDelivers ==
    ASSUME UInv, 0 \notin Sizes, NEW e \in Epochs, NEW win, Genuine(e, win),
           NEW from \in Nat, from <= Len(blocks[e]), NEW to \in from..MaxUdpItems, DrainedTo(e, win, from, to),
           NEW skips, \A b \in skips : b < from,
           delivered[e] = Joined(SentTo(e, skips, from))
    PROVE  delivered'[e] = Joined(SentTo(e, skips, to))
<1> DEFINE part(n) == Unpadded(ItemsOf(win[from + n - 1]))
           m == to - from
           sent == SentTo(e, skips, to)
<1>0. /\ to \in Nat /\ from <= to /\ m \in Nat /\ MaxUdpItems \in Nat /\ to <= MaxUdpItems
      /\ blocks[e] \in Seq(Block) /\ Len(blocks[e]) \in Nat /\ to = from + m
  BY UdpAssumption, SMTT(30) DEF UInv, UTypeOK
<1>1. \A b \in from..(to - 1) : ItemsOf(win[b]) = blocks[e][b + 1].items
  BY DrainPasses, Zenon
<1>2. to <= Len(blocks[e])
  BY DrainPasses
<1>3. ASSUME NEW n \in 1..m PROVE part(n) = sent[from + n]
  <2>1. from + n - 1 \in from..(to - 1) /\ (from + n - 1) + 1 = from + n /\ from + n \in 1..to
    BY <1>0, SMTT(30)
  <2>2. ItemsOf(win[from + n - 1]) = blocks[e][from + n].items
    BY <1>1, <2>1, SMTT(30)
  <2>3. blocks[e][from + n] \in Block
    BY <1>0, <1>2, <2>1, SMTT(30)
  <2>4. part(n) = blocks[e][from + n].items
    <3>1. blocks[e][from + n].items \in Seq(Item)
      BY <2>3 DEF Block
    <3> QED
      BY <2>2, <3>1, UnpaddedItems, SMTT(30)
  <2>5. (from + n) - 1 \notin skips
    <3>1. (from + n) - 1 \in Nat /\ ~ ((from + n) - 1 < from)
      BY <1>0, SMTT(30)
    <3> QED
      BY <3>1
  <2>6. sent[from + n] = blocks[e][from + n].items
    BY <2>1, <2>5, SMTT(30) DEF SentTo
  <2> QED
    BY <2>4, <2>6
<1>4. sent \in Seq(Seq(Item)) /\ Len(sent) = from + m
  BY <1>0, <1>2, SentType, SMTT(30)
<1>5. [i \in 1..from |-> sent[i]] = SentTo(e, skips, from)
  BY <1>0 DEF SentTo
<1>6. [i \in 1..m |-> sent[from + i]] = [i \in 1..m |-> part(i)]
  <2> HIDE DEF part, sent
  <2> QED
    BY <1>3
<1>7. delivered' = [delivered EXCEPT ![e] = @ \o Joined([i \in 1..m |-> part(i)])]
  BY Zenon DEF DrainedTo
<1> HIDE DEF part, sent, m
<1>8. Joined(sent) = Joined([i \in 1..from |-> sent[i]]) \o Joined([i \in 1..m |-> sent[from + i]])
  BY <1>0, <1>4, JoinedConcat, Zenon
<1>9. delivered'[e] = delivered[e] \o Joined([i \in 1..m |-> part(i)])
  BY <1>7, SMTT(30) DEF UInv, UTypeOK
<1>10. delivered'[e] = Joined(sent)
  BY <1>5, <1>6, <1>8, <1>9, Zenon
<1> QED
  BY <1>10, SMTT(30) DEF sent

(* What DeliveredAsSent and the invariant say of one session.               *)
LEMMA DeliveredOf ==
    ASSUME UInv, DeliveredAsSent, NEW e \in Epochs
    PROVE  /\ delivered[e] = Joined(SentTo(e, skipped[e], next_deliver[e]))
           /\ next_deliver[e] \in Nat /\ next_deliver[e] <= Len(blocks[e]) /\ Len(blocks[e]) \in Nat
           /\ \A b \in skipped[e] : b \in Nat /\ b < next_deliver[e]
<1>1. delivered[e] = Joined(SentTo(e, skipped[e], next_deliver[e]))
  BY Zenon DEF DeliveredAsSent, SentTo
<1> QED
  BY <1>1, UdpAssumption, SMTT(30) DEF UInv, UTypeOK, Frontier

(* A step of the sender only adds blocks: what was delivered is still what  *)
(* was sent.                                                                *)
LEMMA GrownDelivered ==
    ASSUME UInv, DeliveredAsSent, Grown, UNCHANGED <<next_deliver, delivered, skipped>>
    PROVE  DeliveredAsSent'
<1> SUFFICES ASSUME NEW e \in Epochs
             PROVE  delivered[e] = Joined([n \in 1..next_deliver[e] |->
                        IF n - 1 \in skipped[e] THEN <<>> ELSE blocks'[e][n].items])
  BY Zenon DEF DeliveredAsSent
<1>0. /\ delivered[e] = Joined(SentTo(e, skipped[e], next_deliver[e]))
      /\ next_deliver[e] \in Nat /\ next_deliver[e] <= Len(blocks[e]) /\ Len(blocks[e]) \in Nat
  BY DeliveredOf, SMTT(30)
<1>1. \A n \in 1..next_deliver[e] : blocks'[e][n] = blocks[e][n]
  BY <1>0, SMTT(30) DEF Grown
<1>2. [n \in 1..next_deliver[e] |-> IF n - 1 \in skipped[e] THEN <<>> ELSE blocks'[e][n].items]
      = SentTo(e, skipped[e], next_deliver[e])
  BY <1>1 DEF SentTo
<1> QED
  BY <1>0, <1>2, Zenon

(* A step that touches none of it changes nothing.                          *)
LEMMA SameDelivered ==
    ASSUME UInv, DeliveredAsSent, UNCHANGED <<blocks, next_deliver, delivered, skipped>>
    PROVE  DeliveredAsSent'
BY Zenon DEF DeliveredAsSent

(* A step of the receiver is right for all sessions when it is for its own. *)
LEMMA OneDelivered ==
    ASSUME UInv, DeliveredAsSent, UNCHANGED blocks, NEW e \in Epochs, NEW to,
           next_deliver' = [next_deliver EXCEPT ![e] = to],
           \A x \in Epochs : x # e => skipped'[x] = skipped[x] /\ delivered'[x] = delivered[x],
           delivered'[e] = Joined(SentTo(e, skipped'[e], to))
    PROVE  DeliveredAsSent'
<1> SUFFICES ASSUME NEW x \in Epochs
             PROVE  delivered'[x] = Joined([n \in 1..next_deliver'[x] |->
                        IF n - 1 \in skipped'[x] THEN <<>> ELSE blocks[x][n].items])
  BY SMTT(30) DEF DeliveredAsSent
<1>0. next_deliver'[e] = to /\ (x # e => next_deliver'[x] = next_deliver[x])
  BY DEF UInv, UTypeOK
<1>1. CASE x = e
  BY <1>0, <1>1, Zenon DEF SentTo
<1>2. CASE x # e
  BY <1>0, <1>2, DeliveredOf, Zenon DEF SentTo
<1> QED
  BY <1>1, <1>2, SMTT(30)

(* What a drain leaves to the other sessions.                               *)
LEMMA DrainsOne ==
    ASSUME UInv, NEW e \in Epochs, NEW win, NEW from, NEW to, DrainedTo(e, win, from, to)
    PROVE  /\ next_deliver' = [next_deliver EXCEPT ![e] = to]
           /\ \A x \in Epochs : x # e => delivered'[x] = delivered[x]
BY Zenon DEF DrainedTo, UInv, UTypeOK

(* A datagram delivers what was sent.                                       *)
LEMMA ArrivalDelivers ==
    ASSUME 0 \notin Sizes, UInv, DeliveredAsSent, NEW d \in data, NEW dup \in BOOLEAN, DataArrives(d, dup)
    PROVE  DeliveredAsSent'
<1> DEFINE e == d.epoch
           from == next_deliver[e]
<1>1. /\ UNCHANGED <<blocks, skipped>>
      /\ \/ Drain(e, Put(d), from)
         \/ UNCHANGED <<next_deliver, window, delivered>>
  BY ArrivalIs, SMTT(30) DEF sender
<1>2. e \in Epochs /\ Genuine(e, Put(d)) /\ from \in Nat /\ from \in 0..MaxUdpItems
  BY PutGenuine, SMTT(30)
<1>3. /\ delivered[e] = Joined(SentTo(e, skipped[e], from)) /\ from <= Len(blocks[e])
      /\ \A b \in skipped[e] : b < from
  BY <1>2, DeliveredOf, SMTT(30)
<1> HIDE DEF e, from
<1>4. CASE Drain(e, Put(d), from)
  <2>1. PICK to \in from..MaxUdpItems : DrainedTo(e, Put(d), from, to)
    BY <1>2, <1>4, DrainStops, SMTT(30)
  <2>2. delivered'[e] = Joined(SentTo(e, skipped[e], to))
    BY <1>2, <1>3, <2>1, DrainDelivers, SMTT(30)
  <2>3. next_deliver' = [next_deliver EXCEPT ![e] = to]
        /\ \A x \in Epochs : x # e => delivered'[x] = delivered[x]
    BY <1>2, <2>1, DrainsOne, Zenon
  <2> QED
    BY <1>1, <1>2, <2>2, <2>3, OneDelivered, Zenon
<1>5. CASE UNCHANGED <<next_deliver, window, delivered>>
  BY <1>1, <1>5, SameDelivered
<1> QED
  BY <1>1, <1>4, <1>5

(* A block given up adds nothing to what was sent.                          *)
LEMMA SkippedAddsNothing ==
    ASSUME UInv, DeliveredAsSent, NEW e \in Epochs, next_deliver[e] + 1 <= Len(blocks[e])
    PROVE  delivered[e] = Joined(SentTo(e, skipped[e] \cup {next_deliver[e]}, next_deliver[e] + 1))
<1> DEFINE nd == next_deliver[e]
           before == SentTo(e, skipped[e], nd)
           now == SentTo(e, skipped[e] \cup {nd}, nd + 1)
<1>1. /\ delivered[e] = Joined(before) /\ nd \in Nat /\ nd + 1 \in Nat /\ nd <= Len(blocks[e])
      /\ nd + 1 <= Len(blocks[e])
  BY DeliveredOf, SMTT(30)
<1>2. before \in Seq(Seq(Item)) /\ Len(before) = nd
  BY <1>1, SentType, SMTT(30)
<1>3. now \in Seq(Seq(Item)) /\ Len(now) = nd + 1
  BY <1>1, SentType, SMTT(30)
<1>4. \A i \in 1..nd : before[i] = now[i]
  BY <1>1, SMTT(30) DEF SentTo
<1>5. now[nd + 1] = <<>>
  BY <1>1 DEF SentTo
<1> HIDE DEF before, now, nd
<1>6. Joined(before) \in Seq(Item)
  BY <1>2, JoinedType, SMTT(30)
<1>7. Joined(now) = Joined(before) \o now[nd + 1]
  BY <1>1, <1>2, <1>3, <1>4, <1>6, JoinedOneMore, SMTT(30)
<1>8. Joined(before) \o <<>> = Joined(before)
  BY <1>6
<1>9. delivered[e] = Joined(now)
  BY <1>1, <1>5, <1>7, <1>8, Zenon
<1> QED
  BY <1>9, Zenon DEF now, nd

(* Giving up the head delivers what was sent but for that block.            *)
LEMMA SkipDelivers ==
    ASSUME 0 \notin Sizes, UInv, DeliveredAsSent, NEW e \in Epochs, SkipHead(e)
    PROVE  DeliveredAsSent'
<1> DEFINE from == next_deliver[e] + 1
           skips == skipped[e] \cup {next_deliver[e]}
<1>1. /\ from \in Nat /\ from \in 0..MaxUdpItems /\ from <= Len(blocks[e])
      /\ Genuine(e, Beheaded(e)) /\ Drain(e, Beheaded(e), from)
      /\ skipped' = [skipped EXCEPT ![e] = skips] /\ UNCHANGED blocks
  BY SkipIs, UdpAssumption, SMTT(30) DEF sender
<1>2. \A b \in skips : b < from
  BY <1>1, DeliveredOf, SMTT(30)
<1>3. delivered[e] = Joined(SentTo(e, skips, from))
  BY <1>1, SkippedAddsNothing, Zenon
<1> HIDE DEF from, skips
<1>4. PICK to \in from..MaxUdpItems : DrainedTo(e, Beheaded(e), from, to)
  BY <1>1, DrainStops, SMTT(30)
<1>5. delivered'[e] = Joined(SentTo(e, skips, to))
  BY <1>1, <1>2, <1>3, <1>4, DrainDelivers, SMTT(30)
<1>6. next_deliver' = [next_deliver EXCEPT ![e] = to]
      /\ \A x \in Epochs : x # e => delivered'[x] = delivered[x]
  BY <1>4, DrainsOne, SMTT(30)
<1>7. skipped'[e] = skips /\ \A x \in Epochs : x # e => skipped'[x] = skipped[x]
  BY <1>1 DEF UInv, UTypeOK
<1> QED
  BY <1>1, <1>5, <1>6, <1>7, OneDelivered, Zenon

(* Every step delivers what was sent.                                       *)
LEMMA DeliveryStep ==
    ASSUME 0 \notin Sizes, UInv, DeliveredAsSent, [UNext]_uvars
    PROVE  DeliveredAsSent'
<1>1. CASE UNext
  <2>0. UStep /\ UNCHANGED plan
    BY <1>1 DEF UNext
  <2>1. CASE FlushBlock \/ \E size \in Sizes : PushItem(size)
    <3>1. UNCHANGED <<next_deliver, delivered, skipped>>
      BY <2>1, Zenon DEF FlushBlock, PushItem, receiver
    <3> QED
      BY <2>0, <2>1, <3>1, SendKeepsInv, GrownDelivered
  <2>2. CASE ProbeOldest \/ RetransmitAllData
    BY <2>2, SameDelivered DEF ProbeOldest, RetransmitAllData, Resend, sender, receiver
  <2>3. CASE Restart
    BY <2>3, SameDelivered, SMTT(30) DEF Restart, receiver
  <2>4. ASSUME NEW f \in control, NEW dup \in BOOLEAN, FeedbackArrives(f, dup) PROVE DeliveredAsSent'
    BY <2>4, SameDelivered DEF FeedbackArrives, OnFeedback, receiver
  <2>5. ASSUME NEW e \in Epochs, Admit(e) PROVE DeliveredAsSent'
    BY <2>5, SameDelivered, SMTT(30) DEF Admit, sender
  <2>6. ASSUME NEW e \in Epochs, Poll(e) PROVE DeliveredAsSent'
    BY <2>6, SameDelivered DEF Poll, Service, sender, receiver
  <2>7. CASE Lose
    BY <2>7, SameDelivered DEF Lose, sender
  <2>8. ASSUME NEW d \in data, NEW dup \in BOOLEAN, DataArrives(d, dup) PROVE DeliveredAsSent'
    BY <2>8, ArrivalDelivers
  <2>9. ASSUME NEW e \in Epochs, SkipHead(e) PROVE DeliveredAsSent'
    BY <2>9, SkipDelivers
  <2> QED
    BY <2>0, <2>1, <2>2, <2>3, <2>4, <2>5, <2>6, <2>7, <2>8, <2>9 DEF UStep
<1>2. CASE UNCHANGED uvars
  BY <1>2, SameDelivered DEF uvars, sender, receiver
<1> QED
  BY <1>1, <1>2

-----------------------------------------------------------------------------
(* The results *)

(* The sender frees a block only when the receiver's frontier has passed    *)
(* it, with any loss, duplication and reordering and across restarts.       *)
THEOREM UdpHeldUntilPassed == USpec => []HeldUntilPassed
<1>1. UInv => HeldUntilPassed
  BY DEF UInv
<1> QED
  BY <1>1, UInitInv, UNextInv, PTL DEF USpec

(* The flow window keeps every datagram within the receiver's window: no    *)
(* datagram of a block that is not yet delivered is refused.                *)
THEOREM UdpWindowNeverRefuses == USpec => []WindowNeverRefuses
<1>1. UInv => WindowNeverRefuses
  BY DEF UInv
<1> QED
  BY <1>1, UInitInv, UNextInv, PTL DEF USpec

(* A session delivers exactly what its sender pushed, in order and once,    *)
(* but for the blocks given up, as long as no item is empty.                *)
THEOREM UdpDeliveredAsSent ==
    ASSUME 0 \notin Sizes
    PROVE  USpec => []DeliveredAsSent
<1>1. UInit => DeliveredAsSent
  <2> SUFFICES ASSUME UInit, NEW e \in Epochs
               PROVE  delivered[e] = Joined([n \in 1..next_deliver[e] |->
                          IF n - 1 \in skipped[e] THEN <<>> ELSE blocks[e][n].items])
    BY DEF DeliveredAsSent
  <2>1. delivered[e] = <<>> /\ next_deliver[e] = 0
    BY DEF UInit
  <2>2. Len([n \in 1..next_deliver[e] |-> IF n - 1 \in skipped[e] THEN <<>> ELSE blocks[e][n].items]) = 0
    BY <2>1
  <2> QED
    BY <2>1, <2>2, JoinedEmpty, SMTT(30)
<1>2. UInv /\ DeliveredAsSent /\ [UNext]_uvars => DeliveredAsSent'
  BY DeliveryStep
<1> QED
  BY <1>1, <1>2, UInitInv, UNextInv, PTL DEF USpec
=============================================================================
