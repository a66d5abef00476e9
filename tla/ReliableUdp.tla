---------------------------- MODULE ReliableUdp -----------------------------
(***************************************************************************)
(* The block code of the reliable-UDP transport: Encoder and Decoder       *)
(* (reliable_udp.rs) and the part of the bridge that drives them           *)
(* (udp_bridge.rs: drain_feedback, route_datagram, try_admit, service).    *)
(*                                                                         *)
(* Items are grouped into blocks of K data shards and r parity shards; any *)
(* K of them decode the block.  The receiver delivers blocks in order,     *)
(* acknowledges its frontier and names the shards that are missing; the    *)
(* sender keeps a block until the frontier has passed it, and resends what *)
(* is named.  Datagrams and feedback are lost, duplicated and reordered.   *)
(* A sender that restarts begins a new session, with a new epoch and block *)
(* ids from 0, while datagrams and feedback of the old one are still on    *)
(* the way.                                                                *)
(*                                                                         *)
(* Left out: the tower code over several blocks, the sensors and the       *)
(* controller that choose r (any r is chosen at any time here), pacing.    *)
(***************************************************************************)
EXTENDS Integers, Sequences, FiniteSets

CONSTANTS K,                \* data shards of a block
          Sizes,            \* lengths of items
          MaxSessions,      \* bound: sessions, the first included
          MaxUdpItems,      \* bound: items of a session
          FlowWindow,       \* flow_window
          WindowCap,        \* window_cap
          NakBatch,         \* nak_batch
          MaxFeedback,      \* bound: polls wait while this much feedback is on the way
          Plans             \* bounds of a behaviour: the items of each session, the
                            \* values of r, the losses, duplicates and skips

ASSUME UdpAssumption ==
    /\ K \in Nat \ {0} /\ Sizes \subseteq Nat /\ MaxSessions \in Nat \ {0} /\ MaxUdpItems \in Nat
    /\ \A p \in Plans : /\ p.items \in [1..MaxSessions -> 0..MaxUdpItems]
                        /\ p.parities \subseteq Nat
                        /\ p.loss \in Nat /\ p.dup \in Nat /\ p.skip \in Nat
    /\ FlowWindow \in Nat \ {0} /\ WindowCap \in Nat /\ FlowWindow <= WindowCap

VARIABLES
    \* The sender.
    session,            \* its epoch
    staged,             \* items of the block under construction
    blocks,             \* per session: the blocks it has sealed, block b at b + 1
    pending,            \* ids of the blocks held for ARQ
    acked_through,
    \* The network.
    data,               \* datagrams
    control,            \* feedback
    \* The receiver, per session.
    sessions,           \* the epochs that have a window
    admitting,          \* epochs under admission challenge
    next_deliver, window, highest_seen, highest_decoded,
    delivered,          \* the items given to the application
    skipped,            \* blocks given up
    plan,
    faults              \* losses, duplicates and skips so far

sender == <<session, staged, blocks, pending, acked_through>>
receiver == <<sessions, admitting, next_deliver, window, highest_seen, highest_decoded,
              delivered, skipped>>
uvars == <<sender, data, control, receiver, plan, faults>>

Epochs == 1..MaxSessions
BlockIds == 0..(MaxUdpItems - 1)
NAK_NONE == -1
next_block == Len(blocks[session])

UInit ==
    /\ session = 1 /\ staged = <<>> /\ pending = {} /\ acked_through = 0
    /\ blocks = [e \in Epochs |-> <<>>]
    /\ data = {} /\ control = {}
    /\ sessions = {} /\ admitting = {}
    /\ next_deliver = [e \in Epochs |-> 0]
    /\ window = [e \in Epochs |-> [b \in BlockIds |-> {}]]
    /\ highest_seen = [e \in Epochs |-> 0] /\ highest_decoded = [e \in Epochs |-> 0]
    /\ delivered = [e \in Epochs |-> <<>>] /\ skipped = [e \in Epochs |-> {}]
    /\ plan \in Plans /\ faults = [loss |-> 0, dup |-> 0, skip |-> 0]

(* The sequences of a sequence, one after the other.                        *)
Joined(seqs) ==
    LET upto[n \in 0..Len(seqs)] == IF n = 0 THEN <<>> ELSE upto[n - 1] \o seqs[n]
    IN  upto[Len(seqs)]

-----------------------------------------------------------------------------
(* The encoder.  A datagram carries its session, its block, the index of    *)
(* its shard, and what the shard was computed from: the block's items.      *)
Shards(b, indices) ==
    LET blk == blocks[session][b + 1] IN
    {[epoch |-> session, block |-> b, index |-> i, r |-> blk.r, items |-> blk.items] : i \in indices}

Seal(items, r) ==
    LET b == next_block IN
    /\ blocks' = [blocks EXCEPT ![session] = Append(@, [items |-> items, r |-> r])]
    /\ pending' = pending \cup {b}
    /\ staged' = <<>>
    /\ data' = data \cup {[epoch |-> session, block |-> b, index |-> i, r |-> r, items |-> items]
                          : i \in 0..(K + r - 1)}

(* As FlowBlocked would be if it let one block more through.                *)
FlowBlockedLate == next_block - acked_through > FlowWindow
FlowBlocked == next_block - acked_through >= FlowWindow
Pushed == Len(Joined([n \in 1..next_block |-> blocks[session][n].items])) + Len(staged)

(* push.  The producer waits while flow_blocked says so.                    *)
PushItem(size) ==
    LET items == Append(staged, <<Pushed + 1, size>>) IN
    /\ Pushed < plan.items[session] /\ ~FlowBlocked
    /\ IF Len(items) = K THEN \E r \in plan.parities : Seal(items, r)
       ELSE staged' = items /\ UNCHANGED <<blocks, pending, data>>
    /\ UNCHANGED <<session, acked_through, control, receiver, faults>>

FlushBlock ==
    /\ staged # <<>> /\ \E r \in plan.parities : Seal(staged, r)
    /\ UNCHANGED <<session, acked_through, control, receiver, faults>>

(* As OnFeedback would be if it did not ask which session feedback is for.  *)
OnFeedbackOfAny(f) ==
    LET held == {b \in pending : b >= f.ack} IN
    /\ acked_through' = IF f.ack > acked_through THEN f.ack ELSE acked_through
    /\ pending' = held
    /\ data' = IF f.nak \in held
               THEN data \cup Shards(f.nak, f.mask \cap 0..(K + blocks[session][f.nak + 1].r - 1))
               ELSE data
    /\ UNCHANGED <<session, staged, blocks, receiver>>

(* drain_feedback and on_feedback: feedback of another session is dropped;  *)
(* a NAK of a block that is not held is counted and answered by nothing.    *)
OnFeedback(f) ==
    LET held == {b \in pending : b >= f.ack} IN
    /\ IF f.epoch # session THEN UNCHANGED <<acked_through, pending, data>>
       ELSE /\ acked_through' = IF f.ack > acked_through THEN f.ack ELSE acked_through
            /\ pending' = held
            /\ data' = IF f.nak \in held
                       THEN data \cup Shards(f.nak, f.mask \cap 0..(K + blocks[session][f.nak + 1].r - 1))
                       ELSE data
    /\ UNCHANGED <<session, staged, blocks, receiver>>

(* The link has been silent: the oldest block held is sent again            *)
(* (probe_block); it is back: all of them are (retransmit_all_data).  Done  *)
(* while something is still on the way it counts as a duplication.          *)
Resend(bs) ==
    /\ bs # {}
    /\ data' = data \cup UNION {Shards(b, 0..(K - 1)) : b \in bs}
    /\ IF \A m \in data \cup control : m.epoch # session THEN UNCHANGED faults
       ELSE faults.dup < plan.dup /\ faults' = [faults EXCEPT !.dup = @ + 1]
    /\ UNCHANGED <<sender, control, receiver>>
ProbeOldest == Resend({b \in pending : \A c \in pending : b <= c})
RetransmitAllData == Resend(pending)

Restart ==
    /\ session < MaxSessions /\ plan.items[session + 1] > 0 /\ session' = session + 1
    /\ staged' = <<>> /\ pending' = {} /\ acked_through' = 0
    /\ UNCHANGED <<blocks, data, control, receiver, faults>>

-----------------------------------------------------------------------------
(* The decoder.                                                             *)
Decoded(shards) == Cardinality({s.index : s \in shards}) >= K
(* The items a block decodes to; a block put together from the shards of    *)
(* two decodes to nothing that was sent.                                    *)
ItemsOf(shards) == IF Cardinality({s.items : s \in shards}) = 1
                   THEN (CHOOSE s \in shards : TRUE).items ELSE <<<<0, 1>>>>

(* drain_in_order.  A zero length marks the padding of a short block.       *)
IsItem(item) == item[2] > 0
Unpadded(items) == Joined([n \in DOMAIN items |-> IF IsItem(items[n]) THEN <<items[n]>> ELSE <<>>])
Drain(e, win, from) ==
    LET to == CHOOSE n \in from..MaxUdpItems :
                  /\ \A b \in from..(n - 1) : Decoded(win[b])
                  /\ n < MaxUdpItems => ~Decoded(win[n])
        out == Joined([n \in 1..(to - from) |-> Unpadded(ItemsOf(win[from + n - 1]))]) IN
    /\ next_deliver' = [next_deliver EXCEPT ![e] = to]
    /\ window' = [window EXCEPT ![e] = [b \in BlockIds |-> IF b < to THEN {} ELSE win[b]]]
    /\ delivered' = [delivered EXCEPT ![e] = @ \o out]

(* ingest: a block already delivered, or too far ahead, is refused.         *)
Max2(a, b) == IF a > b THEN a ELSE b
InWindow(e, d) == d.block >= next_deliver[e] /\ d.block < next_deliver[e] + WindowCap
IngestAt(e, d) ==
    LET win == [window[e] EXCEPT ![d.block] =
                   IF \E s \in @ : s.index = d.index THEN @ ELSE @ \cup {d}] IN
    IF InWindow(e, d)
    THEN /\ highest_seen' = [highest_seen EXCEPT ![e] = Max2(@, d.block)]
         /\ highest_decoded' = [highest_decoded EXCEPT
                ![e] = IF Decoded(win[d.block]) THEN Max2(@, d.block) ELSE @]
         /\ Drain(e, win, next_deliver[e])
    ELSE UNCHANGED <<next_deliver, window, highest_seen, highest_decoded, delivered>>

(* As Ingest would be if every datagram went to the window opened first.    *)
IngestBlind(d) ==
    /\ sessions' = IF sessions = {} THEN {d.epoch} ELSE sessions
    /\ IngestAt(CHOOSE e \in sessions' : TRUE, d)
    /\ UNCHANGED <<sender, control, admitting, skipped>>

(* route_datagram: the first epoch seen opens a window, every later one is  *)
(* challenged first, and its datagrams are dropped until it has answered.   *)
Ingest(d) ==
    /\ IF d.epoch \in sessions \/ sessions = {}
       THEN IngestAt(d.epoch, d) /\ sessions' = sessions \cup {d.epoch} /\ UNCHANGED admitting
       ELSE /\ admitting' = admitting \cup {d.epoch}
            /\ UNCHANGED <<sessions, next_deliver, window, highest_seen, highest_decoded, delivered>>
    /\ UNCHANGED <<sender, control, skipped>>

(* try_admit, once the sender has answered the challenge; or                *)
(* expire_stale_admissions, when the challenge or the answer was lost.      *)
Admit(e) ==
    /\ e \in admitting /\ admitting' = admitting \ {e}
    /\ sessions' = sessions \cup {e}
    /\ UNCHANGED <<sender, data, control, next_deliver, window, highest_seen, highest_decoded,
                   delivered, skipped, faults>>

(* The indices a mask can name; the sender uses those the block has.        *)
MaskBits == UNION {0..(K + r - 1) : r \in plan.parities}
Missing(e, b) == MaskBits \ {s.index : s \in window[e][b]}

(* As MissingBlocks would be if a tail nothing was received of were not a   *)
(* gap.                                                                     *)
MissingBlocksSeen(e, drive_tail) ==
    LET gap(b) == b \in BlockIds /\ ~Decoded(window[e][b]) /\ window[e][b] # {} IN
    {b \in next_deliver[e]..highest_decoded[e] : gap(b)}
    \cup {b \in {Max2(next_deliver[e], highest_seen[e])} : drive_tail /\ gap(b)}

(* missing_blocks: the gaps below the highest block decoded, nearest the    *)
(* frontier first, and with drive_tail the block the receiver waits for.    *)
MissingBlocks(e, drive_tail) ==
    LET nd == next_deliver[e]
        gap(b) == b \in BlockIds /\ ~Decoded(window[e][b])
        below == {b \in nd..highest_decoded[e] : gap(b)}
        batch == {b \in below : Cardinality({c \in below : c < b}) < NakBatch}
        tail == Max2(nd, highest_seen[e]) IN
    batch \cup IF drive_tail /\ Cardinality(batch) < NakBatch /\ gap(tail) THEN {tail} ELSE {}

(* service: an ACK of the frontier, and a NAK for each gap that carries the *)
(* frontier too.  Each is a datagram of its own; a step sends one of them.  *)
Service(e, timed_out, nak) ==
    LET catching_up == next_deliver[e] > highest_seen[e] IN
    /\ e \in sessions /\ Cardinality(control) < MaxFeedback
    /\ nak \in {NAK_NONE} \cup MissingBlocks(e, timed_out \/ catching_up)
    /\ control' = control \cup
           {[epoch |-> e, ack |-> next_deliver[e], nak |-> nak,
             mask |-> IF nak = NAK_NONE THEN {} ELSE Missing(e, nak)]}
    /\ UNCHANGED <<sender, data, receiver, faults>>

(* service, when a gap was held past max_hold: skip_head.                   *)
SkipHead(e) ==
    /\ e \in sessions /\ faults.skip < plan.skip /\ \E b \in BlockIds : window[e][b] # {}
    /\ faults' = [faults EXCEPT !.skip = @ + 1]
    /\ skipped' = [skipped EXCEPT ![e] = @ \cup {next_deliver[e]}]
    /\ Drain(e, [window[e] EXCEPT ![next_deliver[e]] = {}], next_deliver[e] + 1)
    /\ UNCHANGED <<sender, data, control, sessions, admitting, highest_seen, highest_decoded>>

-----------------------------------------------------------------------------
(* The network hands over a datagram or feedback, once or, on duplication,  *)
(* again later; or it loses one.                                            *)
Keep(dup) == faults' = [faults EXCEPT !.dup = IF dup THEN @ + 1 ELSE @]
             /\ (dup => faults.dup < plan.dup)
DataArrives(d, dup) == Ingest(d) /\ Keep(dup) /\ data' = IF dup THEN data ELSE data \ {d}
FeedbackArrives(f, dup) ==
    OnFeedback(f) /\ Keep(dup) /\ control' = IF dup THEN control ELSE control \ {f}

Lose ==
    /\ faults.loss < plan.loss /\ faults' = [faults EXCEPT !.loss = @ + 1]
    /\ \/ \E d \in data : data' = data \ {d} /\ UNCHANGED <<control, admitting>>
       \/ \E f \in control : control' = control \ {f} /\ UNCHANGED <<data, admitting>>
       \/ \E e \in admitting : admitting' = admitting \ {e} /\ UNCHANGED <<data, control>>
    /\ UNCHANGED <<sender, sessions, next_deliver, window, highest_seen, highest_decoded,
                   delivered, skipped>>

-----------------------------------------------------------------------------
Poll(e) == \E timed_out \in BOOLEAN, nak \in {NAK_NONE} \cup BlockIds : Service(e, timed_out, nak)

UStep ==
    \/ \E size \in Sizes : PushItem(size)
    \/ FlushBlock \/ ProbeOldest \/ RetransmitAllData \/ Restart
    \/ \E d \in data, dup \in BOOLEAN : DataArrives(d, dup)
    \/ \E f \in control, dup \in BOOLEAN : FeedbackArrives(f, dup)
    \/ \E e \in Epochs : Admit(e) \/ SkipHead(e) \/ Poll(e)
    \/ Lose

UNext == UStep /\ UNCHANGED plan

(* The receiver polls and its read times out, the sender drains feedback,   *)
(* and the network delivers in the end what it does not lose: a datagram    *)
(* that is news to the receiver, and acknowledgements and NAKs of the       *)
(* session that is running.                                                 *)
News(d) ==
    \/ d.epoch \notin sessions
    \/ InWindow(d.epoch, d) /\ \A s \in window[d.epoch][d.block] : s.index # d.index
Fair(step) == step /\ UNCHANGED plan
UFairness ==
    /\ WF_uvars(Fair(\E d \in data : d.epoch = session /\ News(d) /\ DataArrives(d, FALSE)))
    /\ WF_uvars(Fair(\E f \in control : FeedbackArrives(f, FALSE)))
    /\ SF_uvars(Fair(Service(session, TRUE, NAK_NONE)))
    /\ SF_uvars(Fair(\E b \in BlockIds : Service(session, TRUE, b)))
    /\ WF_uvars(Fair(ProbeOldest))
    /\ WF_uvars(Fair(Admit(session)))
USpec == UInit /\ [][UNext]_uvars /\ UFairness

-----------------------------------------------------------------------------
(* "ordered, lossless delivery": what a session delivers is what its sender *)
(* pushed, in order, each item once, block by block up to the frontier,     *)
(* except for the blocks the receiver gave up; whatever was lost,           *)
(* duplicated or late, and whatever an earlier session left on the wire.    *)
DeliveredAsSent ==
    \A e \in Epochs :
        delivered[e] = Joined([n \in 1..next_deliver[e] |->
                           IF n - 1 \in skipped[e] THEN <<>> ELSE blocks[e][n].items])

(* The sender gives up only blocks the receiver's frontier has passed: ARQ  *)
(* can still recover every block the receiver waits for.                    *)
HeldUntilPassed ==
    \A b \in 0..(next_block - 1) : b \in pending \/ b < next_deliver[session]

(* "The sender's flow window keeps it from outrunning this": no datagram on *)
(* the wire lies beyond the window of the receiver it is for.               *)
WindowNeverRefuses == \A d \in data : d.block < next_deliver[d.epoch] + WindowCap

(* With finitely many items and faults, every block of the session that is  *)
(* running in the end is delivered and acknowledged, however the last       *)
(* shards of a block, or all of them, or the feedback, or the answer to the *)
(* challenge, were lost.                                                    *)
AllAcked == <>[](pending = {})

-----------------------------------------------------------------------------
(* What the proofs carry along *)

Item == Nat \X Sizes
Block == [items : Seq(Item), r : Nat]
Datagram == [epoch : Epochs, block : Nat, index : Nat, r : Nat, items : Seq(Item)]
Feedback == [epoch : Epochs, ack : Nat, nak : Nat \cup {NAK_NONE}, mask : SUBSET Nat]

UTypeOK ==
    /\ plan \in Plans
    /\ session \in Epochs /\ staged \in Seq(Item) /\ blocks \in [Epochs -> Seq(Block)]
    /\ pending \in SUBSET Nat /\ acked_through \in Nat
    /\ data \in SUBSET Datagram /\ control \in SUBSET Feedback
    /\ next_deliver \in [Epochs -> 0..MaxUdpItems]
    /\ window \in [Epochs -> [BlockIds -> SUBSET Datagram]]
    /\ delivered \in [Epochs -> Seq(Item)] /\ skipped \in [Epochs -> SUBSET Nat]

(* The session has sealed every block the receiver is past; what the        *)
(* window holds is still to come; what feedback says was so.                *)
Frontier ==
    /\ \A e \in Epochs : next_deliver[e] <= Len(blocks[e])
    /\ \A e \in Epochs : \A b \in skipped[e] : b < next_deliver[e]
    /\ \A e \in Epochs, b \in BlockIds : window[e][b] # {} => b >= next_deliver[e]
    /\ \A f \in control : f.ack <= next_deliver[f.epoch]
    /\ acked_through <= next_deliver[session]

(* Wherever a shard is, on the wire or in a window, it is one of the block  *)
(* whose number it carries, in the session whose epoch it carries.          *)
ShardsGenuine ==
    /\ \A d \in data : /\ d.block < Len(blocks[d.epoch])
                       /\ d.items = blocks[d.epoch][d.block + 1].items
    /\ \A e \in Epochs, b \in BlockIds : \A s \in window[e][b] :
           b < Len(blocks[e]) /\ s.items = blocks[e][b + 1].items

(* The blocks held are sealed ones of the session, within the flow window,  *)
(* and so will be the one under construction.                               *)
FlowKept ==
    /\ \A e \in Epochs : e > session => blocks[e] = <<>>
    /\ \A b \in pending : b < next_block /\ b < next_deliver[session] + WindowCap
    /\ staged # <<>> => next_block - acked_through < FlowWindow

UInv == UTypeOK /\ Frontier /\ ShardsGenuine /\ FlowKept /\ HeldUntilPassed /\ WindowNeverRefuses
=============================================================================
