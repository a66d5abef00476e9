# A TLA+ development of SubEtha's shared-memory protocols

SubEtha (`src/`) is a Rust workspace for communication through memory-mapped
files: rings, locks, cells and tables that threads of several processes use at
the same time, and that must survive the death of any of them, with a reliable
UDP transport between machines. The modules in this directory model the
protocols at the bottom of that stack, one step per atomic access. TLC checks
them on small instances; TLAPS proves the most important invariants of thirteen
of the components for every instance.

Paths below are relative to `src/crates/subetha-cxc/src/` unless they say
otherwise. `PROJECT.json` lists every component, run, mutation, mapped
definition, hazard and theorem.

## 1. Inventory

### The parts and how they interact

Everything rests on words in a mapped region that are accessed with atomic
loads, stores, `fetch_add` and compare-and-exchange (CAS), plus payload bytes
that are copied without atomics. A handle in each process points to the region.
The layers are:

1. **Rings** move payloads. `SpscRingCore` (`spsc_ring.rs`) is a Lamport ring
   for one producer and one consumer. `SharedRing` (`shared_ring.rs`) is a
   Vyukov queue with a sequence word per slot. `SharedBroadcastRing` gives every
   registered consumer every message. The MPSC and MPMC grids, the frame,
   adaptive and async rings are built on these; `CapacityAdaptiveRing` replaces
   the ring underneath while it is in use.
2. **Waiting** is `CrossProcessWaker` (`cross_process_waker.rs`): slots that
   threads park on, a mask of parked slots, and scans that wake them.
   `SharedCondvar`, the blocking rings, `BlockingSemaphore` and
   `BlockingRWLock` all follow one protocol around it: check, load the
   published sequence, park, check again, wait.
3. **Synchronisation words**: `SharedRWLock`, `SharedSemaphore`,
   `SharedOnceCell`, `EpochBarrier`, and within one process `SwapCell`
   (`src/crates/subetha-core/src/swap_cell.rs`), an `Arc` that is replaced while it
   is read.
4. **Ownership and failure**: `HeartbeatTable` (who is alive, what they have in
   flight), `FailoverWatchdog` (finds lapsed processes, reports their work and
   heals ring slots they left claimed), `SharedLeaderElection`, and
   `OwnerLease`, which reuses the election's protocol to guard a value.
5. **Lock-free structures**: `SharedDeque` (work stealing), `SharedTreiberStack`.
6. **Transport**: `reliable_udp.rs` with the part of `udp_bridge.rs` that drives
   it: blocks with parity, acknowledgements, retransmission, sessions.
7. **Collections** (maps, trees, vectors, sketches, slabs), **bridges, policies,
   sensors, bindings** on top.

### State, operations and what is hard in each modelled part

| Part | State | Operations | What is hard |
| --- | --- | --- | --- |
| `SpscRingCore` | `head`, `tail`, payload cells | `try_push`, `try_pop`, `peek_slot`, `confirm`, drop of a peek | counters read before the copy and stored after it; full and empty one lap apart; a borrowed slot |
| `SharedRing` | `producer_seq`, `consumer_seq`, a sequence and a payload per cell | `try_push`, `try_pop`, the sole-side variants, `heal_stuck_slot` | claims in order, publication out of order; a producer dies between the two; the heal races the publish it replaces |
| `SharedBroadcastRing` | message counter, a sequence and a payload per slot, a cursor per consumer entry | `try_push` with its scan, `register_consumer`, `unregister_consumer`, `try_recv` | an entry that changes hands while the producer scans; a cursor taken before it is announced |
| `CapacityAdaptiveRing` | published states (active backing, stale backings), producer ids, pins, the warm slot | `register_producer`, `try_send`, `try_recv`, `morph_to_config`, `settle`, `prewarm_config`, `pin_current_capacity` | a sender on a state that has been replaced twice; a prune judged from two reads |
| `SharedDeque` | `top`, `bottom`, slots | `push`, `push_batch`, `push_batch_with`, `pop`, `steal` | owner and thief at the last item; a thief that reads a slot while it is being rewritten |
| `SharedTreiberStack` | tagged heads of the stack and the free list, `bump_next`, nodes | `push`, `pop` with `acquire_slot` and `release_slot` | ABA; two lists through one set of links |
| `SwapCell` | the pointer, debt slots per thread, strong counts | `load`, drop of a guard, `to_arc`, `load_full`, `store`, `swap`, `take`, `compare_and_set` | a read that owns no reference; an address that is freed and used again |
| `FailoverWatchdog` | suspects of the previous scan | `scan`, `heal_watched`, `clear_dead_bitmap` | a slow producer looks like a dead one; a suspect is stale when it is healed |
| `HeartbeatTable` | pid, seqlock version, epoch, bitmap per slot | `register`, `beat`, `mark_in_flight`, `clear_in_flight`, `unregister`, `snapshot` | torn snapshots; slots that change hands; death inside the seqlock |
| `CrossProcessWaker`, `SharedCondvar` | state and target per slot, the mask | `try_park`, `wait`, `release`, `wake_up_to`, `wake_one_up_to`, `wake_all` | wake before park; a slot that changes hands under a scan; timeouts; no slot left |
| `SharedRWLock` | one word: readers, writer, waiting writers | try, blocking and registered acquisition, giving up, both releases | three counts rewritten by CAS from a value read earlier; starvation |
| `SharedSemaphore` | count, wakeup generation, waiters | `try_acquire`, `acquire`, `acquire_timeout`, `release`, `Permit::drop` | add-then-roll-back of a surplus release; the wrap of the `u32`; giving up at any step |
| `SharedOnceCellDyn` | state, claimant pid, payload | `claim`, `publish`, `try_get`, `wait`, `reclaim` | two words that change one after the other; the claimant dies; reclaim of a claim that is no longer the dead one |
| `EpochBarrier` | one word: epoch and arrivals | `wait`, `wait_quorum` and their timed forms | the threshold falls while peers wait; arrivals of peers that die or time out |
| `SharedLeaderElection` | leader pid, term, heartbeat, epoch | `try_claim_leadership`, `beat_as_leader`, `tick_epoch`, `step_down` | the heartbeat that is judged may be the predecessor's; the order pid, term, heartbeat |
| `OwnerLease` | the same words, a seqlock version, the value | `try_acquire`, `with_lease`, `read_as_owner`, `write_as_owner`, `beat`, `release` | preemption in the middle of an update; a late release |
| Reliable UDP | sender: staged items, pending blocks; receiver: open blocks, frontier; sessions | `push`, `flush`, `on_feedback`, probes; `ingest`, `deliver`, feedback, `skip_head`; admission | loss, duplication and reordering of data and feedback; the tail of a stream; datagrams of an earlier session |

The parts that are not modelled are listed in section 7, and in `PROJECT.json`
with status `not_modelled`.

## 2. Modules

| Module | Models | Depends on |
| --- | --- | --- |
| `SpscRing` | `SpscRingCore` | instantiates `BoundedFifo` |
| `BoundedFifo` | what a ring promises: a bounded queue with `Push` and `Pop` | |
| `SharedRing` | `SharedRing` and its heal | |
| `Failover` | `FailoverWatchdog` over a watched ring | extends `SharedRing` |
| `SharedBroadcastRing` | the component of this name | |
| `CapacityRing` | `CapacityAdaptiveRing` | |
| `SharedDeque` | the component of this name | |
| `SharedTreiberStack` | the component of this name | instantiates `LifoStack` |
| `LifoStack` | what a stack promises: a bounded LIFO with `LifoPush` and `LifoPop` | |
| `SwapCell` | `SwapCell` and `SwapCellOption` | |
| `HeartbeatTable` | the table and the watchdog's reports | |
| `CrossProcessWaker` | the waker, with `SharedCondvar`'s waiters and notifiers as clients | |
| `SharedRWLock`, `SharedSemaphore`, `SharedOnceCell`, `EpochBarrier`, `LeaderElection` | the components of these names | |
| `OwnerLease` | the lease | extends `LeaderElection` |
| `ReliableUdp` | encoder, decoder and the bridge around them | |
| `...Proofs`, `ReliableUdpLemmas` | theorems and proofs, mostly of two components in a module | extend their components and `TLAPS` |
| `MC...` | instances for TLC | extend the components of the run |

### How a module corresponds to the code

* A shared field is a variable of the same name. The position of a thread in
  its call is `pc` (or `ppc`, `cpc`, `opc`, `epc` and so on where modules meet in
  one run), and each local that survives from one atomic access to the next is a
  variable indexed by the thread: `ppos`, `seen`, `cur`, `v1`, `want`, `snap`.
* **Each atomic access is one step**, and so is each payload copy. A load and the
  branch on it are one step; a CAS is one step with a branch for failure. A load
  of a counter that only the loading side writes joins the next step. A slot that
  is marshalled in place (`SharedDeque`) is two steps, torn in between.
  In `ReliableUdp`, where encoder and decoder are each used by one thread, a step
  is a call on one of them, or a datagram's arrival.
* A call that fails or returns without effect (`Full`, `Empty`, `WouldBlock`,
  `TableFull`) returns its thread to where it started, because the callers in
  the repository retry. `compare_exchange_weak` failing spuriously has the
  effect of losing the race.
* Definitions introduced by "As ... would be" state how an operation would look
  with a plausible mistake in it (a dropped check, a lost reset). They are used
  in place of the real definition to establish that the properties notice.
* Ghost variables record history the code does not keep (what was pushed, who
  has arrived, whether a lease was taken over); no guard reads them, except
  where a bound of the instance is counted.

### Abstractions

* **Memory model.** Interleaving semantics, that is, sequential consistency of
  the atomics. The Acquire/Release pairs of the code are taken to give what they
  are there for; reorderings weaker orderings would permit are not explored.
* **Payloads** are names: a payload of `SharedRing` is named by its position, a
  message of the broadcast ring by its number, a value of the once cell by the
  process that produced it, the leased value is the number of additions made to
  it. So a cell's content says who wrote it.
* **Epochs** of heartbeats are kept as ages behind the global epoch, counted up
  to one more than the grace: the code only asks whether an age exceeds it.
* **Widths.** The semaphore's `u32` count wraps at `CountMod`, the election's
  term at `TermWrap`, the tags of the Treiber stack at `CounterWrap`. The 64-bit
  ring counters do not wrap.
* **The kernel wait** of the waker returns once the state word has left
  `STATE_PARKED`, or at any time for a timed wait. Spurious returns are absorbed
  by the loop around it.
* **Liveness of processes.** `process_alive` is exact and pids are not reused.
* **Backings** of `CapacityRing` are taken by what `AdaptiveRing` promises: per
  sender a bounded FIFO, with an item claimed first and committed second. Rings
  are made as ids come, and making one may fail: a registration and a morph then
  fail, while an id that `settle` carries keeps its claim and has its sends
  refused, or not where the shape (not modelled) has one ring for all.
* **The erasure code** of `ReliableUdp` is taken by what it promises: any `K`
  shards of a block decode it. The number of parity shards is chosen freely.
* **Memory management** of `SwapCell`: an address is free once its strong count
  has fallen to 0, and any free address may be given to the next value.

## 3. Runs

Components that share no state run side by side in one model: a variable
`subject`, chosen at the start, says which one the behaviour is of.

| Run | Question | Bounds | Distinct states |
| --- | --- | --- | --- |
| `shared_ring` | `NoCellRace`, `PoppedOnceAsPushed`, `ClaimsAreDelivered` | 2 producers, 2 consumers, 2 cells, 3 positions, 1 crash, all three kinds of handle | 194,597 |
| `failover` | `WatchdogKeepsContract`, `ClaimsAreDelivered` | 2 producers, 1 consumer, 2 cells, 2 positions, 1 crash, grace 0 | 218,728 |
| `waker` | `OneHolder`, `NoLostWakeup`, `PublishedIsTaken` | 2 parkers (one timed), 1 waker, 2 slots, 2 sequences, all three wake calls, scans without the mask | 543,102 |
| `waker_mask` | `NoLostWakeup` with the mask: **violated** | 2 parkers, 1 waker, 1 slot, 2 sequences | |
| `rw_lock` | `Exclusion`, `WriterPriority`, `WriterNotStarved` | 3 threads that read and write, one that may give up | 223,076 |
| `semaphore` | `PermitsAccountedFor`, `AtMostMaxPermits` | 3 threads (symmetric), 1 permit of 2, 2 bare releases, 2 calls each, count modulo 8 | 131,964 |
| `structures` | SPSC ring: `NoCopyRace`, `ImplementsFifo` | 2 payloads, 2 cells, 5 pushes, no pop while a slot is peeked | 1,104,053 in all |
| | deque: `EachItemOnce` | owner, 2 thieves, 2 cells, batches up to 2, 5 items | |
| | Treiber stack: `SlotsAccountedFor`, `ImplementsStack` | 2 threads, 2 slots, 4 pushes, tags modulo 16 | |
| | broadcast ring: `ReceivesInSequence` | 2 consumers, 2 entries, 2 slots, 4 messages | |
| | swap cell: `GuardKeepsValue`, `CountsExact` | a reader with 2 guards, a writer with 1, 1 cell, 2 addresses, 2 values | |
| | capacity ring: `OrderAcrossMorphs`, `PruneKeepsItems`, `IdsStayValid`, `ValidPinIsActive` | five teams of up to 2 senders, receiver, 2 morphers, pinner, prewarmer; 3 backings, capacities 2 and 4 | |
| | lease: `ExclusiveUntilTaken` | 2 processes, one with a beating thread, both forms of use, 2 writes, 2 crashes | |
| `coordination` | election: `TermCountsHandovers`, `DeadLeaderReplaced` | 3 processes, 2 crashes, grace 0, term modulo 2 | 174,908 in all |
| | table: `SlotHasOneOwner`, `ReportsOwnWork`, `ErasesOnlyDeadWork`, `DeadWorkReassigned` | 2 processes in turn on 1 slot, 3 registrations, 1 death anywhere, grace 1 | |
| `protocols` | UDP: `DeliveredAsSent`, `HeldUntilPassed`, `WindowNeverRefuses`, `AllAcked` | blocks of 2, up to 3 items, 2 sessions, window 2, five plans of losses, duplicates and skips | 147,982 in all |
| | barrier: `OpensWhenAllArrivedAndStay`, `SurvivorsPass` | 3 peers, with and without a quorum of 2, 1 timeout, 2 deaths | |
| | once cell: `OneProducer`, `AllServed` | 3 processes, 1 death, 1 reclaimer | |
| `once_cell_two` | `OneProducer` with two reclaimers: **violated** | 3 processes, 1 death | |
| `capacity_prune` | `NoItemStranded`: **violated** | 1 sender, receiver, 1 morpher, 3 backings | |
| `swap_cell_two` | `LoadReturnsHeld` with two cells: **violated** | 1 reader, 1 writer, 3 addresses, 5 values | |

### Why these bounds

* **Rings.** Two cells are the smallest ring the code creates and make every
  position meet its neighbour and its next lap. Five pushes lap the SPSC ring
  more than twice; three positions let `SharedRing` reuse a cell, which is what
  the turn numbers are for. One crash is enough to leave a claimed cell; a
  second producer is there to go on past it. The composed `failover` run has
  two positions: one claimed by the producer that dies, one behind it.
* **Broadcast ring.** Two consumers on two entries can leave an entry and take it
  over while the producer is between them; four messages write every slot twice.
* **Deque, stack.** Five items lap the deque more than twice, so that a thief's
  slot is rewritten under it; two thieves and the owner meet at the last item.
  Two slots pushed twice each are the ABA case.
* **Swap cell.** The cell can be emptied, so two addresses and two values make an
  address used again while a reader is about to record it; an Arc that is put
  back makes a value return; two guards of one thread make two slots.
* **Capacity ring.** Three backings are two morphs, so that a sender's state can
  be two behind. Each team is one encounter: sender, receiver and morpher; two
  senders that register under a morph; two morphers that race; a pin under two morphers; and a
  prewarmed backing. All threads together would exceed what can be explored.
* **Waker.** Two parkers and two slots make a scan meet a slot that changes
  hands. Two sequences give a scan for an old sequence beside a parker for a new
  one.
* **Locks.** Three threads are a holder, a waiter and one that comes between
  them. In `semaphore` the second bare release is one too many, so that both a
  lawful release and a rolled-back one are reached; modulo 8 leaves room for the
  wrap below zero.
* **Once cell, election, lease, barrier.** Three processes are a dead one, its
  successor and a rival. In the election one of them is the lowest pid, so that
  both ways to take over, by pid and by a stale heartbeat, are reached.
* **Table.** One slot makes two processes succeed each other in it, which is
  where snapshots can go wrong; the third registration is by a process that
  returns to a slot it had before.
* **UDP.** Three items are a full block and a partial one. The plans put the
  faults where they differ: a loss without parity, a loss that parity makes good
  beside a block given up, two losses against one parity, a second session over
  what the first left on the wire, and a loss and a duplicate across sessions.

`CHECK_DEADLOCK FALSE` is set where the modelled program really comes to rest:
`waker` (after `wake_one_up_to` a parker may stay asleep with nothing left to
publish), `semaphore`, `structures` and `protocols` (all items sent, all calls
made, or everybody served).

### The properties

* `ImplementsFifo`, `ImplementsStack`: refinements. `SpscRing` implements
  `BoundedFifo` with `queue` mapped to the cells between `tail` and `head`;
  `SharedTreiberStack` implements `LifoStack` with `stack` mapped to the values
  along the links from `top_head`.
* `NoCopyRace`, `NoCellRace`: non-atomic copies never meet, also across laps and
  crashes, and no copy goes into a slot that is peeked.
* `PoppedOnceAsPushed`: every position below `consumer_seq` has been handed out or
  is being copied out, by one consumer, none is skipped, on the sole-consumer path
  as on the other, and a pop yields what was pushed at its position. The one
  exception is the one `heal_stuck_slot` documents: a producer that died before
  its copy.
* `ClaimsAreDelivered`: in the end every claimed position is delivered, healed if
  need be, and stays so.
* `WatchdogKeepsContract`: what the watchdog passes to `heal_stuck_slot` meets
  the precondition that function states.
* `EachItemOnce`, `SlotsAccountedFor`: no item of the deque and no slot of the
  stack is lost, in two places, or mixed with another.
* `ReceivesInSequence`: a consumer of the broadcast ring accepts whole messages,
  each at its cursor, without a gap.
* `GuardKeepsValue`, `CountsExact`: a guard goes on naming the value it was made
  for, and no reference is counted twice or forgotten.
* `OrderAcrossMorphs`, `PruneKeepsItems`, `IdsStayValid`, `ValidPinIsActive`: the
  items, ids and pins of the capacity ring survive morphs. The first two have the
  conditions that section 5 shows to be needed.
* `NoLostWakeup`, `PublishedIsTaken`, `OneHolder`: the wake-before-park race is
  closed, and a parking slot is in nobody's hands exactly while it is `FREE`.
* `Exclusion`, `WriterPriority`, `WriterNotStarved`: the lock.
* `PermitsAccountedFor`, `AtMostMaxPermits`: no permit is created or destroyed by
  the add-then-roll-back protocol beyond the refusals.
* `OneProducer`, `AllServed`: the once cell. In the end every live process has the
  value, a dead claim having been reclaimed, except after the two losses of
  `LostClaim` (section 5) and when nobody is left to reclaim.
* `OpensWhenAllArrivedAndStay`, `SurvivorsPass`: the barrier does not open early
  as long as arrivals stay, and without a quorum nobody is left waiting for the
  dead.
* `TermCountsHandovers`, `DeadLeaderReplaced`: the election. The first does not
  count a claimant that dies before its increment (section 5).
* `ExclusiveUntilTaken`: the lease is a mutex until it is taken over. What an owner
  does that outlives its grace is not covered: `NoLostUpdate`, section 5.
* `SlotHasOneOwner`, `ReportsOwnWork`, `DeadWorkReassigned`: the table and the
  watchdog's reports. `ErasesOnlyDeadWork`: while a report stands whose slot
  `clear_dead_bitmap` will clear, the process it names is gone and the slot holds
  nothing beyond the work it names, as long as live processes beat in time.
* `DeliveredAsSent`, `HeldUntilPassed`, `WindowNeverRefuses`, `AllAcked`: what a
  session delivers is what was pushed, in order and once, except for blocks the
  receiver gave up; the sender can resend whatever the receiver waits for; the
  receiver's window never has to refuse a datagram; everything is acknowledged
  in the end.

### Fairness

Liveness is checked under fairness of whole calls, never of callers' decisions:

* a thread that is inside a call goes on with it, unless its process dies
  (the scheduler runs live threads, and no call holds a thread but in a loop);
* consumers poll, parkers retry, claimants keep asking, peers wait at the
  barrier: the loops of the blocking wrappers and of the documented usage;
* guards are dropped in the end, claims of the once cell are produced, a process
  that waits for the cell and is a reclaimer reclaims when it can, and a
  slot that a dead producer left claimed is healed by somebody (in `Failover`
  that is the watchdog, and nothing else is assumed);
* the watchdog scans for ever, the epoch is ticked, and a dead peer's heartbeat
  lapses (`FailoverWatchdog::scan` is documented to be called periodically);
* of the UDP transport: the network delivers in the end what it does not lose,
  and loses finitely often; the sender drains feedback, and probes its oldest
  block when the link is silent; the receiver polls, and its reads time out
  (after 4 ms, `udp_bridge.rs:3850`, well within the 20 ms heartbeat interval at
  :172), also when every block in reach has just been named: strong fairness of
  `Service`, since a poll comes up between any two arrivals; an admission that
  was challenged is answered;
* nobody has to push, publish, lock, beat, mark work, crash or resign. The one
  exception is `HeartbeatTable`, where a registered live process goes on
  beating, which `beat` asks for ("Call once per scan tick").

`WriterNotStarved` has an alternative in it: writers that register and give up
for ever change the word between every load and CAS of the others, so weak
fairness does not serve the waiting writer. `DeadWorkReassigned` and
`ErasesOnlyDeadWork` are conditional on live processes beating in time (`late`),
the former also on nobody having died inside the seqlock (`LeftOdd`); section 5 says what happens otherwise. `PublishedIsTaken`
and `NoLostWakeup` exclude `wake_one_up_to` (`woke_one`), whose purpose is to
leave the others asleep.

Two assumptions about time are constants. `SlowPublish = FALSE` in `Failover`
is the one `failover.rs:16-17` states: a live producer is not mid-publish across
a whole scan interval. `LeaderTicks = FALSE` in `LeaderElection` lets any process
tick the epoch.

## 4. Proofs

| Theorem | States |
| --- | --- |
| `SpscExactlyOnceInOrder`, `SpscNoCopyRace` | the safety properties of `SpscRing` |
| `SpscImplementsFifo` | `SpscRing` implements `BoundedFifo` |
| `RingNoCellRace`, `RingPoppedOnceAsPushed` | the safety properties of `SharedRing`, with crashes and heals |
| `DequeEachItemOnce` | no item of `SharedDeque` is lost, doubled or torn |
| `BroadcastInSequence`, `BroadcastNobodyOverrun` | consumers of the broadcast ring receive in sequence and are never lapped |
| `WakerOneHolder`, `WakerNoLostWakeup` | a parking slot is one parker's; no wakeup is lost by a scan over all the slots |
| `RWLockExclusion`, `RWLockWordIsAccurate`, `RWLockWriterPriority` | the safety properties of `SharedRWLock` |
| `SemaphorePermitsAccountedFor`, `SemaphoreAtMostMaxPermits`, `SemaphoreWaitersBalanced` | the safety properties of `SharedSemaphore` |
| `OnceCellOneProducer` | with one reclaimer, no two processes produce the value at once |
| `HeartbeatSlotHasOneOwner`, `HeartbeatReportsOwnWork` | a slot of the table has one owner; a report names the work of the process it names |
| `BarrierOpensForAll` | the barrier does not open early while arrivals stay |
| `ElectionTermCounts` | the term counts the handovers |
| `LeaseExclusive` | until a lease is taken over, its users exclude each other |
| `UdpHeldUntilPassed`, `UdpWindowNeverRefuses`, `UdpDeliveredAsSent` | the safety properties of the UDP transport |

Each rests on an inductive invariant stated in the component's module
(`SharedRing`'s is in `SharedRingProofs`): initial states satisfy it, every step
keeps it (one proof step or lemma per action or group of actions), it implies
the property, and PTL combines the three. Components are independent of each
other and share a module only to keep the modules few; `ReliableUdpProofs`
extends `ReliableUdpLemmas`, which has the lemmas on sequences and the sender.

* **SpscRing** (`SpscInv`), for every capacity, payload set and number of pushes.
  `ExactlyOnceInOrder` is not inductive: it does not say what is in the cells.
  The invariant adds that the cells from `tail` to `head` hold the payloads that
  were published and not consumed, that a producer past its fullness test still
  has room (`tail` can only have grown), that what was copied is what is in the
  cell, and that a peeked position is the current `tail`. The arithmetic core is
  `CellsDiffer`: two positions less than `Capacity` apart are in different
  cells. The refinement shows each publish to be an `Append` and each release a
  `Tail` of the mapped queue. Assumption: `~PopWhilePeeked`, the consumer does
  not pop while it holds a `PeekedSlot` (section 5 shows it is needed).
* **SharedRing** (`RingInv`), for every capacity from 2, any producers and
  consumers, any number of deaths, and heals that keep their contract. A cell's
  sequence word says whether a position in it is free, full or past. The invariant
  says who may be at which (`SoleUse`, `ProducersHold`, `ConsumersHold`), that
  the counters agree with the words (`CountersAgree`), that a full cell holds its
  position's payload (`FullAsPushed`), that a heal in progress is of a dead
  producer's position (`HealsTheDead`), and what has been delivered is past
  (`DeliveredDone`), once and without a gap. A claimed position is free, or past and its producer dead:
  that is what keeps a healed position from being published again.
* **SharedDeque** (`DequeInv`), for every capacity, batch size and set of thieves.
  The window from `top` to the newest item holds distinct items that nobody has
  taken (`WindowHolds`), the owner writes only outside it (`OwnerPlace`,
  `OwnerBatch`), and a thief whose CAS can still succeed has read the slot at
  `top`, inside (`ThievesSee`): torn reads are discarded by the CAS.
* **SharedBroadcastRing** (`BInv`), for every number of slots and entries and any
  consumers. A consumer that has read the producer's position is at that position
  before it has stored it; the cursor the producer finds in its entry meanwhile
  is a leaver's and an earlier one, so the scan errs to the safe side
  (`PositionsKept`, `ScanCovers`).
* **SharedRWLock** (`Inductive`), for every finite set of threads. `Exclusion`
  needs `WordIsAccurate`, and both need what a pending CAS remembers: the value
  loaded by a thread about to CAS admits it, so a CAS that succeeds finds the
  word still admitting it. Writer priority then follows for each admitting step.
* **SharedSemaphore** (`Inductive`), for every finite set of threads and every
  `CountMod` above the maximum, however many permits callers add. Modulo
  `CountMod`, count and holders together are what was put in, what a refused
  release has still to take back included (`PermitsAccountedFor`). While callers
  have added no more than `create` left room for, no release is refused and the
  sum is exact, which bounds the holders. Beyond that point the count can wrap,
  and `AtMostMaxPermits` promises nothing.
* **CrossProcessWaker** (`Inductive`), for any parkers, wakers and number of
  slots. `Held`: two parkers never hold one slot. `Targets`: a parked slot's
  target is what its parker wants, at most one beyond what was published when it
  looked. `Covered`: whoever sleeps on a published sequence is ahead of some
  waker that is still scanning, with a sequence that reaches its target
  (`Covers`). A parker becomes such a sleeper when a sequence is published,
  which starts the scan, or when it goes to sleep, which its second check
  prevents. Assumption of `WakerNoLostWakeup`: `~Masked`; with the mask it is
  false (section 5).
* **SharedOnceCell** (`OInv`), for any processes that die anywhere. A claimant is
  producing only while the state is INITIALIZING, and the pid is its own, or not
  yet stamped, unless a reclaim is about to wipe it. A reclaimer that is about to
  break a claim has established that its claimant is dead, and nobody but
  another reclaimer could have changed the claim since. Assumption: at most one
  reclaimer; with two it is false (section 5).
* **HeartbeatTable** (`HInv`), for any processes, slots and grace. A slot's pid is
  its owner's (`PidIsOwner`) and its work is its owner's (`WorkIsOwners`); while
  the version is the one a snapshot began with, the slot may have been given back
  and claimed by another process, but that one has not reached its first bump
  and has marked no work (`SnapshotAgrees`). So a snapshot whose second look at
  the version agrees is of one process.
* **EpochBarrier** (`BarrierInv`), for every finite set of peers. While no arrival
  has died or timed out the counter counts the peers that have arrived, who all
  wait for this epoch; who is about to open the barrier has loaded a count that
  reaches the threshold, and the threshold does not rise while peers only leave.
* **LeaderElection** (`TermInv`), for every finite set of claimants and every wrap
  of the term: sums modulo the wrap (`ModSum`).
* **OwnerLease** (`LeaseInv`), for every finite set of users with distinct pids,
  and their beating threads. Until a lease is taken over, who is between its
  claim and its release is the leader (`HolderOwns`), and the value it has read
  is the current one (`ReadIsCurrent`).
* **ReliableUdp** (`UInv`), for any code, any windows with `FlowWindow` at most
  `WindowCap`, any number of sessions and items, and any losses, duplicates and
  reorderings. Every shard, on the wire or in a window, is one of the block whose
  number and session it carries (`ShardsGenuine`); feedback and acknowledgements
  are never ahead of the receiver (`Frontier`), so the sender drops only what has
  been passed, and what it holds lies within the receiver's window (`FlowKept`).
  Delivery is the induction over drains: a drain appends the items of the blocks
  it passes (`DrainDelivers`), and `Joined`, the items of a sequence of blocks,
  of a concatenation is the concatenation (`JoinedConcat`). Assumption of
  `UdpDeliveredAsSent`: no item is empty; with empty ones it is false (section 5).
  `Joined` is a recursive function, about which induction over the numbers up to
  its argument can be carried out in the prover.

Only model-checked: `Failover`, `ErasesOnlyDeadWork`, the Treiber stack with its refinement, the swap
cell, the capacity ring, and all liveness. Liveness under fairness and `ENABLED`
are outside what the prover supports, and so are inductions over data, such as
walks along the links of the stack.

## 5. Where code and documentation disagree

Four disagreements have a run of their own.

* **A lost wakeup** (`waker_mask`). `wait` and `release` store `STATE_FREE` and
  then clear the slot's bit in `parked_mask` (`cross_process_waker.rs:567-568`).
  A parker that reserves the slot between the two and sets the bit has it
  erased. Its own check came before the publication, the scan that follows does
  not visit the slot, and it sleeps on a published sequence. The comment at
  169-174 says the mask is advisory and the double-check covers what a scan does
  not see. With more than 64 slots the mask is not used and `waker` passes.
* **Two producers** (`once_cell_two`). `reclaim` establishes that the claimant
  is dead and then exchanges INITIALIZING for EMPTY (`shared_once_cell.rs:430`).
  When another process has reclaimed and a third has claimed in between, the
  exchange removes the live claim, and a second producer starts. Lines 262-264
  say the value "is produced once however many processes ask at once". With a
  single reclaimer `protocols` passes.
* **A stranded item** (`capacity_prune`). A morph drops a stale backing when
  `r.is_empty() && Arc::strong_count(r) == 1` (`capacity_adaptive_ring.rs:851`),
  in this order. A sender on an older state can push and let go of its state
  between the two, and the backing is dropped with the item. Lines 840-847 argue
  from the sole holder to the emptiness, the other way round: "With this list the
  sole holder, no push can arrive and the emptiness is final".
* **A value of another cell** (`swap_cell_two`). `load` takes the failure of its
  take-back for a payment by a writer of its own cell
  (`src/crates/subetha-core/src/swap_cell.rs:327-331`). When the address it recorded
  has been freed and become the value of another cell, that cell's writer pays the
  debt, and the load returns a guard on a value its cell never held since the load
  began. The module documentation (4-9) describes a read as of the cell's value.
  With one cell `structures` passes.

The others are properties defined in the modules that fail under the settings
given here; check the property by itself with the cfg named to see the trace.

| Property (module) | Settings | What happens | Against |
| --- | --- | --- | --- |
| `TailAdvances` (`SpscRing`) | `MCStructures.cfg`, `PopWhilePeeked = TRUE` | `confirm` stores the position remembered by the peek (`spsc_ring.rs:658`); after a pop in between, the consumer moves back | :655 "advancing the consumer position" |
| `NoCopyRace`, `ImplementsFifo` (`SpscRing`) | `MCStructures.cfg`, `PopWhilePeeked = TRUE` | the pop releases the peeked slot, and the producer copies into it while it is borrowed; the consumer that has moved back pops items again | the same; that `try_pop` is not called while a peek is held is the caller's to see to |
| `EmptyMeansEmpty` (`SharedRing`) | `MCSharedRing.cfg`, as PROPERTY | `try_pop` answers Empty at an unpublished slot although a later one is published (`shared_ring.rs:859`) | :818-819 "the ring is empty" |
| `WatchdogKeepsContract` (`Failover`) | `MCFailover.cfg`, `SlowPublish = TRUE` | a slow live producer is taken for the dead one and healed (`failover.rs:142`) | the contract of `heal_stuck_slot`; :16-17 states the assumption |
| `SendOrderKept` (`CapacityRing`) | `MCStructures.cfg` | a sender whose state was replaced while it was sending leaves its item on a stale backing the receiver has passed, and a later item is received first | `capacity_adaptive_ring.rs:40-42` "every in-flight item still drains in send-order" |
| `SlotStableForThief` (`SharedDeque`) | `MCStructures.cfg` | a thief that has lost its slot reads it while the owner rewrites it; the CAS then discards what it read | `shared_deque.rs:455` "slot bytes are stable" |
| `CountBounded` (`SharedSemaphore`) | `MCSharedSemaphore.cfg` | an acquisition between a surplus release and its rollback lets the rollback take the count below zero, where it wraps (`shared_semaphore.rs:295`) | :388-389 "keeps the count bounded by max_permits" |
| `StandingClaimPublishes` (`SharedOnceCell`) | `MCProtocols.cfg` | `reclaim` clears the pid after the state (:435), over the stamp of the next claimant, whose `publish` answers false | :380-381 |
| `DeadClaimIsSeen` (`SharedOnceCell`) | `MCProtocols.cfg` | a claimant that dies between its CAS and its stamp (:376) is taken for alive for ever | :270-272 |
| `OpensWhenAllArrived` (`EpochBarrier`) | `MCProtocols.cfg`, as PROPERTY | an arrival that has died or timed out (`epoch_barrier.rs:232`) stays counted, and a retry is counted again: the barrier opens before a live peer has come | :7-8 "Releases when all live peers (per the heartbeat) have called `wait`" |
| `DeadLeaderReplaced` (`LeaderElection`) | `MCCoordination.cfg`, `LeaderTicks = TRUE` | the leader's death stops the clock it is judged by | :223-224 "Typically called by the leader" |
| `FreshLeaderKept` (`LeaderElection`) | `MCCoordination.cfg`, as PROPERTY | a new leader is judged by its predecessor's heartbeat (:182) and deposed | :160-166 |
| `NoLostUpdate` (`OwnerLease`) | `MCStructures.cfg` | an owner preempted inside `with_lease` writes after its successor (`owner_lease.rs:300`) | :5 "Mutex-like exclusive access" |
| `OddWhileUpdating` (`HeartbeatTable`) | `MCCoordination.cfg` | `unregister` empties the pid before its second bump (`heartbeat.rs:249`), so the next registrant's first bump makes the version even | :55-56 |
| `DeliveredAsSent` (`ReliableUdp`) | `MCProtocols.cfg`, `Sizes = {0, 1}` | an empty item is taken for the padding of a block and not delivered (`reliable_udp.rs:453-457`, 1457) | :8-10 "ordered, lossless delivery" |

Four more are the conditions inside properties that hold. A process that dies
between the two version bumps leaves the version odd and `snapshot` retries for
ever (`LeftOdd` in `DeadWorkReassigned`; `heartbeat.rs:295`). When live processes
beat late, `clear_dead_bitmap` (`failover.rs:167`), which clears whatever occupies
the slot, can erase the work of the slot's next occupant (`late` in
`DeadWorkReassigned` and `ErasesOnlyDeadWork`). A once cell whose claimant dies
before its stamp or after it has taken its stamp back, or whose claimant's stamp
has been wiped (`StandingClaimPublishes`), stays INITIALIZING with nobody to
blame, and the others wait for ever (`LostClaim` in `AllServed`). A claimant that dies between the CAS of the leader's pid
and the increment of the term leaves a handover that no term counts
(`TermCountsHandovers`; `shared_leader_election.rs:194`, against :12-13).

## 6. Recorded, and not promised by the code

* A consumer that dies between its claim and its release leaves a `SharedRing`
  slot that producers reach a lap later; `heal_stuck_slot` covers producers only.
* A process that dies holding `SharedRWLock`, or registered as a waiting writer,
  shuts the others out; the lock has no recovery.
* Slots of dead processes in `HeartbeatTable` are never emptied.
* Between `register`'s exchange of the pid and its first version bump the new
  pid stands beside the old epoch, and a scan may take it for lapsed.
* Two threads of one process share its pid, so `OwnerLease::try_acquire` answers
  true to both; exclusion is between processes.
* `BlockingSemaphore` returns the waker's `Full` as an error, where the waker
  asks its caller to fall back to spinning (`blocking_semaphore.rs:139`).
* `BlockingMpmc` numbers its wakes with a counter of its own process, while the
  parkers' targets are shared (`blocking_mpmc_ring.rs:103`).
* At its limit `SharedTreiberStack::push` may answer `Full` while another
  thread's overshoot of `bump_next` is being taken back
  (`shared_treiber_stack.rs:253`).
* A NAK that arrives after the acknowledgement that overtook it is counted as
  unservable (`reliable_udp.rs:644-645`), although nobody waits for the block.

## 7. What is not modelled

* Of the modelled parts: creation and attachment of the region (`reset` and
  `create` are `Init`), `flush`, statistics, and accessors that only read.
  In the waker, parkers that die asleep. In the semaphore,
  `mark_waiter_entered` and `mark_waiter_left`, which only `BlockingSemaphore`
  calls. `SharedOnceCell<T>`, the typed sibling of `SharedOnceCellDyn`. In the
  deque, a type whose marshalled value fails to unmarshal, which the contract of
  `Marshal` (`src/crates/subetha-core/src/marshal.rs:84-95`) excludes: `pop` would
  lose the item and leave `bottom` decremented (`shared_deque.rs:423`). In the
  barrier, `NoLivePeers`: a peer in the table that waits counts itself. In the
  capacity ring, `clear_warm`, stamps and the locale of a backing. In the swap
  cell, the end of a thread and the reuse of its record, and `compare_and_set`
  from `None` or with an Arc that is not new. In the UDP transport, the tower
  code over several blocks, the controller that chooses the parity, sensors,
  pacing and the sockets.
* Blocking rings, `BlockingSemaphore`, `BlockingRWLock`: compositions with one or
  two wakers. The waker by itself fills a run, and their product is out of reach
  at this grain; their protocol around it is the one of the condvar's clients.
* Grid rings: every cell is `SpscRing`; the sweep decides which is popped next.
* The other adaptive rings, publish-subscribe and async rings over the modelled
  ones: large compositions, tied in part to the runtime and its executors.
* Slabs and collections under a lock or a seqlock: what is concurrent in them is
  the lock, or a free list like the stack's.
* Sketches, sensors, congestion models, coding over finite fields, cryptography:
  numeric or statistical, out of reach of explicit-state checking.
* Stream bridges, framing, mapping, hugepages, kernel waits: operating-system
  calls and byte layout.
* Bindings, policies, tracing: no protocol of their own.

## 8. Running the checks

    tlc -config MCSharedRing.cfg MCSharedRing
    tlapm SharedRingProofs.tla

Every run of section 3 ends within five minutes on two cores. The proofs take
from seconds to some minutes for each module.
