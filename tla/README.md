# Scal in TLA+

Scal is a collection of concurrent queues, stacks and pools in C++ (header files under
`src/src/datastructures/`), the utilities they are built from (`src/src/util/`) and a
producer/consumer benchmark that drives them (`src/src/benchmark/`). This directory
models the data structures in TLA+, checks the models with TLC and proves the central
properties with TLAPS. `PROJECT.json` maps every definition to the source lines it stands
for, and lists the runs, the mutants, the theorems and the hazards of the code.

## 1. Inventory

All structures implement `put`/`get` of `pool.h`. Threads call them concurrently; there
are no messages and no callbacks, the threads interact only through shared memory: words
that combine a pointer or value with an ABA tag (`util/atomic_value*.h`) and are changed by
compare-and-swap, or, in two structures, a lock. Nothing is persisted, so there are no
crashes to recover from; a thread that stops being scheduled in the middle of an operation is
the failure that matters.

| component | state | operations | what is hard | what makes it correct |
|---|---|---|---|---|
| `ms_queue.h` Michael-Scott queue | list of nodes, `*head_`, `*tail_` | `enqueue`, `dequeue`, `dequeue_return_tail`, `try_enqueue`, `try_dequeue` | three reads before a CAS, helping, the order of the reads | FIFO linearizable, no null dereference, lock-free, empty-state contract |
| `treiber_stack.h` Treiber stack | list, `*top_` | `push`, `pop`, `get_return_empty_state` | stale successor, ABA tag | LIFO linearizable, lock-free, empty-state contract |
| `distributed_queue.h` with `balancer_*.h` | array of backends, `tails_` per thread, round-robin counters | `put`, `get` | emptiness of several backends that are visited one by one | linearizable pool, `get` terminates |
| `flatcombining_queue.h` with `single_list.h` | one record per thread, a lock, a sequential list | `enqueue`, `dequeue` | hand-over of the result between combiner and owner | FIFO linearizable, results not mixed up |
| `lockbased_queue.h` | list, mutex, condition variable | `enqueue`, dequeue in three modes (default, blocking, timeout) | lost wakeup, timeout against a late enqueue | FIFO, no waiter asleep next to an item |
| `random_dequeue_queue.h` | list with `deleted` flags | `enqueue`, `dequeue` of a random one of the oldest | head swing over deleted nodes, `max_retries_` never assigned | bounded overtaking |
| `boundedsize_kfifo.h` | array of segments, head and tail positions | `enqueue`, `dequeue` | `committed()` against `advance_head()`, wrap-around | k-out-of-order FIFO, bounded |
| `unboundedsize_kfifo.h` | list of segments | `enqueue`, `dequeue` | `deleted` flag against `committed()` | k-out-of-order FIFO |
| `kstack.h` | list of segments with remove counters | `push`, `pop` | remove counter against `committed()` | k-out-of-order LIFO |
| `wf_queue_ppopp11.h`, `wf_queue_ppopp12.h` | list, one operation descriptor per thread, help records | `enqueue`, `dequeue` | two-CAS completion by any helper, help that comes too late | FIFO, wait-freedom |
| `dts_queue.h`, `ts_stack.h`, `ts_queue.h`, `ts_deque.h` with `*_buffer.h` and `ts_timestamp.h` | one list per thread, a clock, emptiness-check pointers | insert, then timestamp; remove the youngest or oldest | items without a time yet, elimination, emptiness of many buffers | stack, queue, deque order; no item twice |
| `atomic_value128.h`, `atomic_value64_*.h` | a word with a tag | `raw`, `value`, `aba`, `cas` | a 128-bit read in two halves, bit layout | reads are atomic, tag and value do not leak into each other |
| `malloc.h/.cc` | one bump buffer per thread | `tlget`, `tlget_aligned`, ... | wrap-around with `--reuse_memory` | no object handed out twice |
| `threadlocals.h/.cc` | contexts, a counter | `get`, `prepare` | thread ids by order of first call | ids are distinct |
| `prodcon.cc`, `common.h/.cc` | start barrier, shares of the items | producers, consumers | shares computed from thread ids | every item is collected, the run ends |
| `bfs_sequential.cc`, `spf_sequential.cc`, `graph.*` | a graph, a queue | sequential search | - | distances |
| `barrier.h`, `bitmap.h` | - | - | used by nothing else in the repository | - |
| `operation_logger.h`, `random.*`, `time.h`, `workloads.*`, `platform.h`, glue, tests, `tools/` | logging, random numbers, option parsing | - | no protocol of their own | - |

How they interact: the glue in `benchmark/std_glue` builds one structure per executable and
the benchmark calls `put` and `get` on it. `DistributedQueue` is the one structure built of
others: its backends are `MSQueue`s or `TreiberStack`s, and it relies on the contract of
`distributed_queue_interface.h` that a backend's empty state changes as soon as an item is
put. That contract is therefore a property of the two backends here (`EmptyStateSound`)
and the assumption on the backends there.

## 2. Modules

| module | models | kind |
|---|---|---|
| `PoolCalls` | a call as its caller sees it: begin, one effect, answer | abstract |
| `FifoQueue`, `LifoStack`, `UnorderedPool` | the contracts of `queue.h`, `stack.h`, `pool.h` on top of `PoolCalls` | abstract |
| `MSQueue` | `ms_queue.h` | detailed, refines `FifoQueue` |
| `TreiberStack` | `treiber_stack.h` | detailed, refines `LifoStack` |
| `DistributedQueue` | `distributed_queue.h`, the balancers, the five `glue_dq_*` builds | composes backends and balancer, refines `UnorderedPool` |
| `CallHistory` | the calls of all threads, and what a caller can observe of them | history and properties |
| `LockedQueue` | `lockbased_queue.h`; `flatcombining_queue.h` with `single_list.h` | detailed |
| `WaitfreeQueue` | `wf_queue_ppopp11.h`, `wf_queue_ppopp12.h` | detailed |
| `BoundedKFifo`, `UnboundedKFifo`, `KStack` | `boundedsize_kfifo.h`, `unboundedsize_kfifo.h`, `kstack.h` | detailed |
| `RandomDequeueQueue` | `random_dequeue_queue.h` | detailed |
| `TSTimestamp` | `ts_timestamp.h` | used by the next three |
| `TSStack` | `ts_stack.h` over `ts_stack_buffer.h` | detailed |
| `TSDeque` | `ts_deque.h` over `ts_deque_buffer.h`, and `ts_queue.h` over the same | detailed |
| `TSQueue` | `ts_queue.h` over `ts_queue_buffer.h`; `dts_queue.h` | detailed |
| `StrictQueues` | - | puts `LockedQueue` and `WaitfreeQueue` side by side and asks the same of both |
| `MCQueues` | - | an instance of `StrictQueues` for TLC |
| `MCListPools` | - | composes `TSDeque`, `TSQueue` and `RandomDequeueQueue` for TLC |
| the other `MC...` | - | instances of one module for TLC |
| `MSQueueProofs`, `TreiberStackProofs`, `DistributedQueueProofs`, `UnboundedKFifoProofs`, `KStackProofs`, `TSStackProofs`, `WaitfreeQueueProofs`, `StrictQueuesProofs` | - | theorems |

There are two ways in which the modules state what callers may rely on. The modules of the
structures with one linearization point per operation refine an abstract specification. In the
others the point depends on what happens later (timestamps, helpers), the order is a relaxed
one, or another thread completes the operation. They keep the history of `CallHistory`, and the
properties are those by which a violation shows to callers:

* `Conserved`: an item whose `put` has returned is in the structure, in the hands of one `get`,
  or got; none is got twice, and none is got that was not put;
* `EmptyIsTrue`: a `get` answers false only if at some instant of it (`sight[t]`) every item whose
  `put` had returned was gone;
* `InOrder`: a `get` does not get an item that, for certain, had to come out before one got by a
  `get` that had returned before this one began (`late`); for relaxed structures
  `KOutOfOrder`: an item passes by fewer than k others whose `put` had returned before its own
  began (in the k-stack, that lay above it for the whole call).

The abstract modules model no code: `PROJECT.json` maps nothing to them. They say what the
interfaces promise. Linearizability is stated as refinement: `phase[t]` is the operation a
thread is in until the operation takes effect, then `"inserted"` or `"removed"`; an answer
must agree with the effect, and `"empty"` may be answered only if `seen[t]`, that is, if at
some instant inside the call there was nothing to take. Each detailed module has the mapping
at its end and states the property as `Linearizable`.

### State and steps

**MSQueue.** `head`, `tail`, `next`, `value` are the shared words and fields, `tailOld`,
`headOld`, `nextOld`, `node`, `item` the locals of each thread, `pc` the place in the code. One
action is one access to a shared word: e.g. the loop of `enqueue` is `EnqueueReadTail`
(line 115), `EnqueueReadNext` (116), `EnqueueCheckTail` (117-118), then `EnqueueLink` (120)
or `EnqueueHelp` (126), and `EnqueueSwing` (131) after a successful link. The operations share
the actions; `op[t]` says which one runs and `Retry` makes the one-shot operations give up
where the others loop. `try_enqueue` and `try_dequeue` get a word their caller read
before (`get_tail`, `get_head`): the read is part of the call here. `log` and `rank` are
history variables: the items in the order of the link CASes, and each node's place in it.

**TreiberStack.** The same for `*top_`. `spine` (the nodes in the stack) and `changes` (how
often the top word changed) are history. `PushRead` contains the store to the link of the
thread's own, unpublished node.

**DistributedQueue.** A backend is an atomic container `content[q]` with a counter `state[q]`
of the changes of its word; `tails` is `tails_`. `GetNothing` is a
`get_return_empty_state` that returns false, `GetFound` one that returns an item, and
`GetCheck` one round of the second loop with the comparison `SameState`: for an `MSQueue` the
tail is the same word only if nothing was put (its nodes do not come back), for a
`TreiberStack` the top must be null and its tag equal modulo `TagMod`. Which item a backend
hands out is left open, so FIFO and LIFO backends are both covered. Why one atomic step is
right: a `put` to an `MSQueue` is taken to happen when the tail is swung (by anyone), because
no `dequeue` takes an item before; an empty answer happens at the read of the tail, where
head and tail were the same node. For the `TreiberStack` they are the CAS and the read of
the top. `emptyThen` and `sawEmpty` are history: the backends that were empty when a get
found the last one empty, and whether that was ever all of them. `build` is the combination
of backend and balancer, chosen in `Init` among those the glue builds.

**LockedQueue.** `mode` selects among the three dequeues of `lockbased_queue.h` and flat
combining. `lock`, `waiting` (the threads asleep on `enqueue_cond_`), the list, and
`operations`, a record per thread. A wait releases the mutex and enters `waiting` in one step, and
ends by a broadcast, by chance (`Spurious`) or by its timeout (`TimedOut`); the one that timed
out does not test again. `set_op` of flat combining writes a record in two steps, data before
opcode; the combiner's scan looks at one record per step, and threads that do not get the
lock poll their record. Both share the steps of the list.

**WaitfreeQueue.** `state` holds the descriptors, `enq_tid` and `deq_tid` who added a node or
claims it, and in the later version the head word itself carries the claim. `Help...` steps find
a pending operation, `Put...` and `Get...` carry it out, `End...` are the two completing CASes
(descriptor, then tail or head), which anybody may come to do; `Fast...` is the path
of `wf_queue_ppopp12.h` without a descriptor. The two files differ in little more than names
for what is shared.

**UnboundedKFifo, BoundedKFifo, KStack.** Segments of `K` slots, each a value with a tag. The
steps are those of `find_index` (a slot per step, from a random one on), the CAS into the slot,
`committed` (which undoes the insertion if the segment may have been passed or removed
meanwhile), and the moves of head, tail or top. In `BoundedKFifo` `head.val` and
`tail.val` grow and are reduced only where the code does so. In `KStack`, `Reload` is whether the
build loads `remove` twice in `committed`.

**RandomDequeueQueue.** The list of the Michael-Scott queue; `deleted` is the set of marked nodes.
`max_retries` is any of the values of `RetryLimits`, as the constructor leaves it unassigned.

**TSTimestamp.** A timestamp is a pair; the classes differ in how it is made: the processor's
counter (external; readings that stamp nothing lie between those that do), two
readings, a shared counter, or one clock per thread set beyond the maximum of all, read
one per step. A stamp is taken in one step and stored in another, interval stamps in halves, and
stamps are loaded in halves.

**TSStack, TSDeque, TSQueue.** One list per thread. Inserting and stamping are separate, so a
remover meets items without a time (`Top`). A remover visits the lists from a random one on, keeps
the best item, takes at once what came after its own invocation (`AtOnce`, `eliminate`),
and collects the pointers of empty lists (`seen`) for the emptiness check. `TSDeque` is written
once for both ends. In `TSQueue`, `DTS` tells the DTS queue, which stamps items before it adds
them, draws stamps for dequeues too, and never answers that it is empty.

### What is abstracted

* In each of these modules one step is one access to a shared word, and the header says which
  accesses are merged and why that loses nothing (e.g. a comparison that guards a CAS of
  a word that never comes back).

* Memory is sequentially consistent. The code runs on x86, its CASes are full barriers and
  the words it races on are `volatile`; what a weaker model would allow is not covered.
* A word is read atomically. That is the contract of `AtomicValue128::raw`, which collects
  the word until two collects agree.
* A node is not handed out twice. The allocator is a bump allocator that never frees; only
  its wrap-around under `--reuse_memory` breaks this, and it is left to the allocator's own
  (section 6). Consequently the ABA tags of `MSQueue` and `TreiberStack` are not needed
  for the safety of their lists, and the proofs do not use them there; they do matter for the
  empty state of the stack.
* Items are model values; logging calls are left out.
* The counters of the partitioned round-robin balancer are kept modulo `NumQueues`; that they
  restart at 2^64 is ignored.
* A `*tail_raw` or `*state` written together with an item is left out where no caller reads
  it (`ms_queue.h:188`, `:233-242`, `treiber_stack.h:104`).

## 3. Runs

| run | instance | checks |
|---|---|---|
| `ms_queue` | 3 threads (a producer, a consumer by `dequeue_return_tail`, both fairly scheduled, and one with `try_enqueue` and `try_dequeue` that may halt anywhere), 2 nodes besides the sentinel, 2 items, tags modulo 2 | `TypeOK`, `IInv`, `NoNullDereference`, `EmptyStateSound`, `Linearizable`, `LiveCallsReturn` |
| `treiber_stack` | 3 threads, 2 nodes, 2 items, tags modulo 3, one thread fairly scheduled | `TypeOK`, `IInv`, `EmptyStateSound`, `Linearizable`, `LiveCallsReturn` |
| `distributed_queue` | 3 threads, 2 items, 2 backends, 2 partitions, tags modulo 8, all five builds, two threads fairly scheduled | `TypeOK`, `IInv`, `Linearizable`, `LiveCallsReturn` |
| `kfifo_unbounded` | 2 threads in both roles, 3 items, K = 2, at most 3 segments | `ListSound`, `Conserved`, `EmptyIsTrue`, `KOutOfOrder` |
| `kfifo_bounded` | a producer and a thread in both roles, 4 items, K = 2, 2 segments; the head in its first lap, the tail once round the ring; `Undisturbed` (section 5) | `Conserved`, `EmptyIsTrue`, `KOutOfOrder` |
| `kfifo_bounded_lost` | two producers and a consumer, 2 items, K = 1 | `Conserved`, violated |
| `kfifo_bounded_ring` | a producer and a thread in both roles, 3 items, K = 1, 2 segments, the head up to its second lap | `WithinRing`, violated |
| `k_stack` | 2 threads in both roles, 3 items, K = 2, at most 2 segments | `RemoveCounts`, `Conserved`, `EmptyIsTrue`, `KOutOfOrder` |
| `ts_stack` | 3 threads, 2 items: two lists and a popper (interval stamps), one list and two poppers (atomic) | `Conserved`, `EmptyIsTrue`, `InOrder` |
| `list_pools` | 2-3 threads, 2 items (3 in the random dequeue queue, quasi factor 2): `TSDeque` with three classes of stamps and three uses of its ends, `TSQueue` with two, the DTS queue, the random dequeue queue | `Conserved`, `EmptyIsTrue`, `InOrder` |
| `ts_atomic_queue` | `TSDeque` as a queue, atomic stamps, 2 producers and a consumer | `InOrder`, violated |
| `queues` | lock-based in three modes, flat combining (3 threads), both wait-free queues (2 threads: in the earlier version one dequeues and the other does both, in the later both do both, each dequeuing once), 2 items | `Conserved`, `EmptyIsTrue`, `InOrder`, `NoSleeperByItem`, `Settles`, `DoneOnlyIfCarriedOut`, `NonBlocking` |

What they show:

* `IInv` is the whole inductive invariant that the proofs use. Its parts say what a thread may
  rely on between two accesses: e.g. in `MSQueue`, that a stale tail is a linked node behind
  the present tail, that a stale head with a different stale tail has a successor, that an
  unlinked node belongs to one thread; in `DistributedQueue`, that a backend which is not
  empty when a scan ends has a word that differs from the recorded one.
* `NoNullDereference`: `ms_queue.h:153` uses `next.value()` untested. That is safe only because
  head is read before tail and tail before next.
* `EmptyStateSound` (queue): while the tail equals a recorded empty state, every item in the
  queue belongs to an enqueue that linked it and has not returned. (stack): as long as the tag
  has not gone round, an unchanged empty state means that the top was never touched.
* `Linearizable` (distributed queue): `get` answers false only if all backends were
  empty at one instant inside the call, although it looks at them one after the other.
* `LiveCallsReturn`: no thread that halts, wherever it does, keeps a fairly scheduled one
  from returning.

* `ListSound` (unbounded k-FIFO): head and tail never cross, also when an `advance_head` comes
  late, and a segment is marked before it is left. `RemoveCounts`: the counter of a segment is
  the number of its removers.
* `WithinRing` (bounded k-FIFO): the tail stays within a ring's length of the head, so that a slot
  belongs to one segment. The code does not keep to it: `kfifo_bounded_ring` (section 5).
* `NoSleeperByItem`: nobody sleeps on the condition variable next to an item unless the enqueue
  that is to wake it is under way. `Settles`: if the calls come to an end, all return, but a
  blocking dequeue of an empty queue: no lock is kept, no record overlooked, no wake-up lost.
* `DoneOnlyIfCarriedOut`: a step that marks a descriptor as done finds its operation carried out,
  however late the helper comes. `NonBlocking`: a call on a wait-free queue returns though all
  other threads stop, wherever they are.

Every property has a mutant in `PROJECT.json`: a change a plausible bug would make (a store
instead of a CAS, a forgotten read, a kept tag, a skipped help, an omitted comparison) under
which TLC finds the property violated. The mutated definitions stand in the modules next to
the ones they replace, marked as faults.

**Bounds.** `Nodes` and `Items` bound the insertions of a behaviour; nothing else is bounded
(tags are modular as in the code). Two nodes are enough for a tail that lags, a head that
meets it, a stale copy of each word and two items in the wrong order; three threads for an
enqueuer, a helper and a dequeuer in the same window. Tags modulo 2 go round within a run. In
`distributed_queue`, two backends and two items give the put behind the scan and the get in
front of it; there can be at most four changes of a word, so tags modulo 8, the narrowest the
code can be built with, do not go round. `MCMSQueue.cfg` does not check for deadlock:
`try_enqueue` allocates in the middle of the call and has no memory left once `Nodes` is used
up. `dequeue` itself is not called in this run: it is `dequeue_return_tail` that ignores the state. The
symmetry sets (nodes other than the sentinel, items, threads with the same calls) are used for
safety only.

In the later modules the calls of each thread are given by role (`Calls`), and calls of `get`, which
no supply of items bounds, by `MaxGets` where a failing one changes the state. Segments are bounded
by `MaxSegments` or `MaxHead` and `MaxTail`: two or three are enough for a segment to be filled,
left and removed while an insertion into it is under way. With K = 2, three items leave one for
the wrong side of every bound of k. `MaxSpurious` = 1: one wait that ends by chance. `MaxRetries` =
1 and `HelpingDelay` = 0 are the smallest of the program's flags with which the fast path fails and
the slow one is taken. Two items are what a wrong order or a false empty answer takes; the lists
have up to three owners, since those need an insertion behind a scan and one in front of
it. The 3-bit tags of the timestamped lists are kept modulo 8, as in the code. These
configurations do not check for deadlock: the calls come to an end.

**Fairness.** `FairSpec` lets the threads in `Live` take their next step again and again
(`WF` of `Step`, the steps inside a call); beginning a call is never forced and the other
threads may halt at any access. That is what the operating system's scheduler gives a running
thread, and the algorithms use no lock. Retries are lock-free, not wait-free: a thread can be
overtaken for as long as others succeed. With finitely many insertions there are finitely
many successes, so a call that did not return would be retrying without anybody's progress;
that is what the liveness runs exclude.

In `queues` every thread of the locked structures is scheduled fairly within a call (a lock holder
that stops for good blocks everybody, by design), and a timeout expires; spurious wake-ups and
calls are not forced. Calls are bounded, so nobody fails to get a mutex or a lock forever while
others do, and weak fairness is enough. Of the wait-free queues, only one thread is scheduled.

## 4. Proofs

Proved by TLAPS for every value of the constants that the named assumptions of the modules
(`MSQueueAssumption`, `TreiberStackAssumption`, `DistributedQueueAssumption`,
`UnboundedKFifoAssumption`, `KStackAssumption`, `TSStackAssumption`, `TSTimestampAssumption`,
`StrictQueuesAssumption`, `CallHistoryAssumption`) admit:

| theorem | statement |
|---|---|
| `MSQueueProofs!TypeCorrect`, `Invariance` | `Spec => []TypeOK`, `Spec => []IInv` |
| `MSQueueProofs!NullSafety`, `EmptyAnswers` | `Spec => []NoNullDereference`, `Spec => []EmptyStateSound` |
| `MSQueueProofs!Linearizability` | `Spec => Linearizable` (every behaviour is one of `FifoQueue`) |
| `TreiberStackProofs!TypeCorrect`, `Invariance`, `EmptyAnswers` | as above |
| `TreiberStackProofs!Linearizability` | every behaviour is one of `LifoStack` |
| `DistributedQueueProofs!TypeCorrect` | `Spec => []TypeOK /\ []ItemsApart` |
| `DistributedQueueProofs!Invariance` | `Spec /\ []NoTagRound => []IInv` |
| `DistributedQueueProofs!Linearizability` | `Spec /\ []NoTagRound => Linearizable` |
| `UnboundedKFifoProofs!Inductive`, `ListIsSound` | `Spec => []IInv`, `Spec => []ListSound` |
| `UnboundedKFifoProofs!ItemsConserved`, `EmptyAnswersTrue` | `Spec => []Conserved`, `Spec => []EmptyIsTrue` |
| `UnboundedKFifoProofs!KOutOfOrderHolds` | `Order = "kfifo"`: `Spec => []KOutOfOrder` |
| `KStackProofs!Inductive`, `RemoversCounted` | `~Reload`: `Spec => []IInv`, `Spec => []RemoveCounts` |
| `KStackProofs!ItemsConserved`, `EmptyAnswersTrue` | `~Reload`: `Spec => []Conserved`, `Spec => []EmptyIsTrue` |
| `KStackProofs!KOutOfOrderHolds` | `~Reload`, `Order = "klifo"`: `Spec => []KOutOfOrder` |
| `TSStackProofs!ListsSound` | `Spec => []IInv1` |
| `TSStackProofs!ItemsConserved`, `EmptyAnswersTrue` | `Spec => []Conserved`, `Spec => []EmptyIsTrue` |
| `TSStackProofs!StampsInOrder` | `Spec => [](\A x \in done : \A y \in older[x] : IsLater(ts[x], ts[y]))` |
| `TSStackProofs!StampsSound`, `InOrderHolds` | `Order = "lifo"`: `Spec => []IInv2`, `Spec => []InOrder` |
| `StrictQueuesProofs!NobodySleepsByAnItem` | `Spec => []NoSleeperByItem` |
| `StrictQueuesProofs!NothingLost`, `EmptyWasSeen` | `Spec => []Conserved`, `Spec => []EmptyIsTrue` |
| `StrictQueuesProofs!FifoOrder` | `Order = "fifo"`: `Spec => []InOrder` |
| `StrictQueuesProofs!NoneMarkedTooEarly` | `Spec => DoneOnlyIfCarriedOut` |

*MSQueue.* `Linearizable` and `NoNullDereference` are not inductive: both need that ranks name
the linked nodes one to one along the `next` words (`ListInv`), that the tail is at most one
node behind and not before the head (`EndsInv`), and, for each place in the code, how the
thread's copies relate to the present words (`ThreadInv`), e.g. that a copy of the tail has
a rank no greater than the tail's and equals the tail if it names the same node, so that
a successful CAS is a step by one. The proof has one lemma per kind of step that changes the
words. `EmptyStateSound` needs two more invariants (`TailLag`, `EmptyKnown`): a tail that lags
is about to be swung by the enqueue that linked the last node.

*TreiberStack.* `SpineInv` says that the next pointers run through the spine; a CAS that
succeeds on an equal word may rely on the successor it read because a published node's
`next` never changes (`ThreadInv`, `Published`). `TagInv` ties the tag to `changes`;
`EmptyAnswers` then is modular arithmetic (`ModApart`).

*DistributedQueue.* The first part (types, and every item in one place) needs no assumption on
tags. The second: while scanning, a backend found empty is empty or its word moved past the
recorded one (`ScanInv`), as words never go back (`StepWordsGrow`). When the scan ends, every
backend that is not empty therefore has a word different from the recorded one
(`CheckInv`), and it stays so; under `NoTagRound` the comparison of the code sees that. So all
backends that pass the check were empty when the scan ended, and after a full round that is
all of them, at one instant. `NoTagRound` says that the tag of a Treiber backend does not make
a whole round within one get: with 64-bit tags no run is long enough, with the 3-bit tags of a
build without 128-bit CAS it is an assumption.

*UnboundedKFifo.* `Conserved` says nothing of what is under way, so `IInv` adds it. An item is
in one place (`PlacesInv`). What a thread remembers is behind the present words, and tells it
what its next compare-and-swap relies on (`ThreadInv`): a remembered head has no larger segment, nor
a larger tag in the same one; a `next` that was read is the successor. The heart is `Secured`: an
item whose `enqueue` has returned is taken, or lies in a slot that is `Safe`, that is, not behind
the head and, in the head segment, not `Missed` by a dequeue that could still move the head on.
That is what `committed` establishes in three ways: the segment lies beyond the head; or it is
the head and the tag of the head was raised, so that every dequeue that missed the slot will fail;
or the item was taken meanwhile. A dequeue whose search is over when the last segment is
unchanged has seen the queue empty (`EmptyInv`): the items in other segments of an empty scan
are excluded by `Secured`. For `KOutOfOrder`, items put earlier are not in later segments
(`OrderInv`; `NotBehind` for an enqueue that is about to put its own), so those that are passed by
are in one segment, which has k slots, one of them the taken item's.

*BoundedKFifo.* Nothing is proved of it. What a team would want to prove is false of the code
(`kfifo_bounded_lost`, `kfifo_bounded_ring`), and what remains holds only of behaviours from which the two
races and all laps of the head but the first are excluded. The code excludes neither, so a
theorem with these hypotheses would say little; the restricted claim is model-checked.

*KStack.* The same plan from the top down, with three more parts. `CountInv` is `RemoveCounts` and
that the removers are finitely many. The double collect of `is_empty` records words and compares them:
a recorded slot was empty and its word is the same or has a larger tag (`Recorded`), so that at the
comparison either nothing changed, and the stack was empty when the record was complete, or a slot that
is still to be compared did (`Changed`). And k-LIFO: the items that lie above the popped one and
were pushed before the call are in the segment of the pop (`StartInv`, `PopInv`, `PassInv`), as a
pop of a lower segment finds the top unchanged after its scan. `~Reload` stands for the builds that
load the removal counter once; the others lose items (section 5). `IInv` was model-checked with two
and with three segments before it was proved.

*TSStack.* `IInv1` says of the shared state that an item is in one place and what is taken is in a
thread's hands or out (`PlacesInv`); that a list leads to inserted items only, from each to older ones,
and that whatever is not taken is in a list (`ListInv`, `OlderInv`); and that the ring of buffers only
grows, right behind its entry, with a list that is empty until its thread has registered (`RingInv`).
Then what a thread remembers. All that is not taken of the list it read is reached from its candidate too
(`RememberInv`: `Known`, `Cuttable`), so a compare-and-swap of the list's head that succeeds, to cut off
taken items or to put a new item before what was first, loses nothing; that is `Conserved`. The top
pointers saved for the emptiness check lead to taken items only (`SeenInv`). `EmptyIsTrue` is about a
round over the ring that finds every list empty at some time, while a pop may answer empty only if all
were empty at once. `EmptyInv` says: if there was no such time during the pop, one of the buffers that
the round has still to visit (`Left`) has a list that starts outside a set D of taken items, where the
pointer saved of it lies, and that no cut under way can bring back into D (`Buried`); the round then
finds it changed. The tags (`aba`) of the words play no part: none of the theorems needs them. `IInv1`
was model-checked on the configurations of `ts_stack` before it was proved.

`InOrder` needs `IInv2`, of the stamps. `TimeInv`: items are stamped in the order of their pushes, and
an item whose stamp is set is before any reading of the time that begins now (`Ticked`, `WillTick`);
no clock reaches `UINT64_MAX`, the stamp of an item that has none, since an item draws at most one
first and one second part. With one clock per thread this asks that whoever pushes has a clock,
which `TSStackAssumption` says. `StampsInOrder` follows for every `Order`. `PopInv`: the items put
before a pop have stamps that are not after the time it read, and what the pop remembers of such a
stamp is the stamp, though it is read in halves (`Recalls`, `SecondLater`). `PassInv`: such an item
that is not taken is ahead of the round (`Meets`) or not later than the best item so far
(`Matched`). So the item taken is in `older` of none of them (`Newest`), and `late` stays empty
(`NoneLate`). `IInv2` was model-checked, with three threads and interval stamps too, before it was proved.

*LockedQueue.* One invariant, `LInv`, for the four modes. Only the holder of the lock is at the list
(`LockInv`: in mode "combining" that is the combiner, also while it sets the last word of a record). The
list is a chain without a cycle from the sentinel to the tail, but for the one node that an enqueue has
linked and not yet made the tail (`ChainInv`); `Held` of the model is what comes after the head
(`HeldIs`, by the least set that is closed under `next`, as induction over data is out of reach). With a
condition variable (`BlockInv`): who sleeps or has timed out has seen the queue empty. With records
(`CombineInv`): what a thread has submitted is what its record says, until a combiner ends it, field by
field; past its own record a combiner's operation is done, so it may leave without another look. An
item that has left the list but reached no hand is in a pocket (`LPlacesInv`): in the record of a
dequeue, or with the combiner that is about to write it there. `LOrderInv` is the order: an item put
later comes after, so none that a dequeue passes by is still held. `LInv` was model-checked before it
was proved.

*WaitfreeQueue.* One invariant, `WInv`, for both versions, in `WaitfreeQueueProofs`. The list grows only at its
end: `Before` is the order in which nodes were linked (again by least closed sets), total on what was
linked (`Ordered`), with the tail at the last node or at the one before it (`ListInv`). What a thread
remembers was so once and will not be again if it no longer is: a head or tail that was read is the
present one or before it (`WasHead`, `WasTail`), a descriptor is the present one or has been followed by
a `Newer` one (`UpToNow`), which a compare-and-swap with it cannot hit. What each thread may rely on, by its
place in the code: that the node about to be linked is pending and not in the list if the last
node still is (`LinkAt`); that the tail is swung only after the node behind it belongs to no pending
descriptor (`EndPutAt`); that the head is claimed only for a pending descriptor that names it, so
that whoever looked at an older descriptor finds the head claimed or gone (`GetAt`, `Claimable`); that a
claim is ended before the head moves (`EndGetAt`, `ClaimInv`); that the queue was empty during the
operation whose descriptor says so, whoever looked (`LookAt`). `HelpAt` and `PhaseAt`: nobody returns with
a descriptor pending, and no helper with an earlier phase takes part in a later operation. An
item that left the list is in hand, or behind the node in the descriptor of the one that will
fetch it (`Behind`, `PlacesInv`), and `OrderInv` ties the order of enqueues to `Before`. The proof has a lemma
per action for the thread that takes the step (`...Kept`), and one for the other threads for each part of
`ThreadInv` (`Other...`), which rests only on how words may move (`Moves`). `WInv` was
model-checked on instances of the size of `queues` before it was proved. The bounds of the model (`MaxGets`,
`MaxRetries`, `HelpingDelay`) are constants of any value here.

Only model-checked: `BoundedKFifo`, `RandomDequeueQueue`, `TSDeque` and `TSQueue`; the liveness properties, as the proof system has no fairness rules; and that
the mutants break the properties. That `MSQueue` and `TreiberStack` behave like the
backends of `DistributedQueue` is proved in part (`Linearizability`, `EmptyAnswers`) and
argued in section 2.

## 5. Findings

Three runs violate what the code says of itself.

* `kfifo_bounded_lost`, `boundedsize_kfifo.h:138`. `committed` reads the tail and then the head. If the
  head passes that tail in between, `in_valid_region` takes the tail that is behind the head for a
  wrap round the ring and the insertion, into a segment the head has left, for valid: `enqueue`
  returns, and the item lies where no dequeue looks until the head has gone round. Three threads
  and two items are enough; a consumer of the benchmark waits for the item for ever
  (`prodcon.cc:141`).
* `kfifo_bounded_ring`, `boundedsize_kfifo.h:254-256`. An enqueue to a full queue whose head segment is
  empty advances the head and then the tail, without looking at the result of the first. If a
  commit has raised the tag of the head meanwhile (line 184), only the tail moves, onto the segment
  of the head: the queue spans one segment more than the "number of k-segments in the
  bounded-size version" (`glue_bskfifo.cc:12-13`), and the next item is put before earlier ones.
  Nor does the code need the race once the head has gone round the ring (by default after 80
  million slots): the positions are never reduced (`advance_head`, `advance_tail`), but `queue_full`
  compares the reduced end of the tail segment with the head as it is (line 118), so no queue is
  ever found full again, and the tail is moved over segments that hold items. With `CONSTRAINT
  Undisturbed`, which excludes the race, TLC finds that violation of `WithinRing` within the same bounds.
* `ts_atomic_queue`, `ts_timestamp.h:229`. With the atomic counter, `read_time` returns the very
  value that the next item will be stamped with. A dequeue takes an item that is not later
  than the start of its round, hence also one stamped after the start of the round with that
  value: an older item that had no stamp yet when its list was visited is overtaken, contrary to
  `ts_deque_buffer.h:461-462`. With the processor's clock or stuttering clocks it is not
  (`list_pools`).

Observations of which no document says otherwise:

* `boundedsize_kfifo.h`: both violations also break `Conserved` or `KOutOfOrder`, e.g. with K = 1, 2 segments, 5
  items, `MaxHead` = 2 and `MaxTail` = 5, a producer and a consumer violate `KOutOfOrder` in the head's second
  lap. `kfifo_bounded` is therefore about behaviours in the head's first lap (`MaxHead` < `QueueSize`)
  without the race of either finding (`Undisturbed`: `TailOvertaken`, `HeadContested`), and about nothing else.
* The DTS queue is no FIFO queue. A dequeue may visit an empty list, into which an item is put, then
  one into a list not visited yet; it takes the latter. Only the items of one thread come out in
  order, and that is what `InOrder` asks of it.
* `wf_queue_ppopp12.h`: a help record is built once, with thread 0 and phase -1, and never reset
  (lines 104-108 are not called again), while a pending descriptor has a phase of 0 or more. So
  `help_if_needed` (228-236) never helps, and an operation may be overtaken again and again: the
  queue is lock-free, not wait-free. `NonBlocking` is what is checked.
* `kstack.h:164-166`: `committed` uses `remove` twice. A build that loads it twice (the unoptimized
  debug build of `configure.ac:14-21`) commits a push into a segment about to be removed, if the
  counter is raised and lowered in between: with `Reload` TRUE, `Conserved` is violated. The
  optimized build loads it once.
* `unboundedsize_kfifo.h:105-113`: the case of `advance_head` for head and tail in one segment is
  dead code, as `ListSound` shows.
* `random_dequeue_queue.h:55`: `max_retries_` has no determined value; the order holds with any
  (`list_pools`), but the bound on retries that the flag promises does not exist.

## 6. Not modelled

* Tagged words (`atomic_value*.h`): the models read a word in one step and keep its tag where it
  matters; the bit layout and the 128-bit read in two halves are below their level.
* The allocator: its contract (no node handed out twice) is assumed; `--reuse_memory` breaks it.
* `SimulatedIntervalTimestamp`, which no program is built with, and `unregister_thread` of
  `ts_stack_buffer.h`, which nobody calls.
* The benchmarks, thread contexts, option parsing, logger, random numbers, time, work loads,
  platform macros, unit tests and `tools/`: drivers, or no protocol of their own. A random index is
  a free choice in the models.
* The 3-bit build of the distributed queue (`NoTagRound` is assumed in the proofs).
* Memory reordering below sequential consistency.

## 7. Plan

What is left is proof.

1. The backend refinement (`MSQueue` and `TreiberStack` implement the atomic backend of
   `DistributedQueue`).
