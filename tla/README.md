# TLA+ models of the CUDA-QX decoding runtime

The repository holds the CUDA-QX libraries. The part with state, threads and
failure paths of its own is the runtime of `libs/qec`: decoding task graphs and
the decoding server. These modules model its core. Source paths below are
relative to `src/`; `decoding_task/` stands for `libs/qec/lib/decoding_task/`
and `realtime/` for `libs/qec/lib/realtime/`.

## 1. Inventory

### Components and their state

| component | state it keeps | operations | how it interacts |
|---|---|---|---|
| thread pool (`decoding_task/thread_pool.*`) | `phase_`, `remaining_workers_`, `shutdown_`, the work descriptor, the first error of a phase | constructor, `parallel_for`, `run_workers`, destructor | one caller at a time, which is worker 0; owned workers park on `phase_`. One-shot graph runs and asynchronous sessions run on it |
| asynchronous stream (`decoding_task/decoding_task_stream_executor.cpp`, `..._graph_impl.h`) | a ring of record slots, `submitted`, `completed`, the lifecycle flags, four park-and-wake words, a result snapshot | `enqueue_syndrome`, `streaming_result`, `clear_corrections`, `reset_decoder`, destruction | caller threads publish, one persistent coordinator thread consumes; both park on atomics |
| record scheduler and dispatcher (`decoding_task/decoding_task_graph_executor.cpp`) | record contexts, the admission position, `stop`, `running`, an event queue per session | admit, activate, retire, flush, fail, discard | the coordinator dispatches; pool workers execute events and report back under a mutex |
| task graph facade (`decoding_task/decoding_task_graph.cpp`) | the single-flight token, the compiled topology, the streaming result: generations, coverage, stagers, releases, counters | one-shot, batch and streaming entry points; refresh, stage, release, consume, fail, reset of results | owns the stream and the scheduler; retiring a record folds what its nodes published into the result |
| task graph nodes (`decoding_task/*_node.cpp`) | buffered rounds, rounds committed, the corrections not yet consumed | enqueue, flush, clear, reset | called by the scheduler's workers, one node at a time |
| decoding server session (`realtime/decoding-server-cqr/DecodingSession.cpp`) | shot state, measurements accepted in the volume | `handle_enqueue`, `handle_get_corrections`, `handle_get_logical_measurements`, `handle_reset` | one dispatcher thread serves it inline; it drives a decoder or a graph through `decode_target.h` |
| decoder base (`libs/qec/lib/decoder.cpp`) | measurement buffer and write index, detector buffer and ready cursor, accumulated corrections | `enqueue_syndrome`, `get_obs_corrections`, `clear_corrections`, `reset_decoder` | called by a session or by the realtime API |
| session registry, transport, realtime API, configuration | tables filled at start-up; rings shared with devices | look-up, dispatch, parsing | carry requests to sessions |
| realtime pipeline (`realtime/*.cu`) | a slot ring shared by GPU kernels and host workers | submit, dispatch, complete | GPU and host threads |
| sliding window decoder, other decoders | per-window state; none for most decoders | decode | behind the decoder base |
| codes, detector error models, matrices | none between calls | construction | inputs of all of the above |

`PROJECT.json` lists every component with its status and, for those left out,
the reason.

### What is hard here

* *Lost wake-ups.* Five places check a condition and then park on an atomic.
* *Stores that are two steps.* A session is opened by two stores, closed by
  several, and a failing worker, a cancel and the producer act between them.
* *Ring reuse with in-place reads.* A record may be cut into several contexts,
  or several records joined into one, while the producer waits for the slot.
* *Failure at any point*: a constructor half way through starting threads, a
  task that throws, a worker that fails before it holds a record, a decode that
  throws behind an `OK` response.
* *Two counters for one fact.* A session budgets measurements separately from
  the decoder it feeds.
* *Many records at once through nodes with state.* Workers run events of
  several records; order comes from turns handed from record to record, joins
  are completed by whichever record brings the last input, and a flush must tell
  inputs that are late from inputs that never come.
* *Progress by counting.* A result's generation, coverage and completed
  operations are derived from publication counts that are folded when a record
  retires, whether it held one operation, several, or a piece of one.
* *Buffers that are not cleared.* The decoder reduces detectors as measurements
  arrive and relies on a cursor, not on clearing, to keep shots apart.

The complete list, with the line where each bites and the property that would
catch it, is `hazards` in `PROJECT.json`.

### What makes each component correct

* Thread pool: a call runs every task once and returns after the last; a
  worker never works from the descriptor of another call; no thread outlives
  the pool; no call hangs.
* Stream and dispatcher: records enter the result once and in order, no live
  slot is overwritten, FINAL returns the whole shot, a session leaves nothing
  behind, every call returns.
* Scheduler: a node with state sees the order a single worker would give it,
  a join fires once and with exactly its inputs, nothing stalls, no shot leaves
  anything to the next.
* Result: an asynchronous graph reports what a synchronous one would; a frame
  holds exactly the flips of the rounds it claims to cover; a released logical
  measurement never changes; a session misses no result.
* Session and decoder: no measurement is dropped in silence, a decode sees its
  own volume only, an answer covers exactly what was sent.

## 2. Modules

| module | models |
|---|---|
| `ForkJoin` | the contract of a fork-join pool, without threads |
| `ThreadPool` | `thread_pool.{h,cpp}`, one step per shared access |
| `ThreadPoolProofs` | its safety invariants, and that it implements `ForkJoin`, proved |
| `RecordStream` | the contract of an asynchronous graph: a bounded queue of records folded in order, without threads, slots or contexts |
| `AsyncStream` | the stream, its coordinator and the session dispatcher, composed |
| `AsyncStreamInvariant` | the inductive invariants of `AsyncStream` (definitions only) |
| `AsyncStreamProofs` | the theorems about it, and its refinement of `RecordStream` |
| `ParkHandshake` | the two park-and-wake handshakes of the stream, with store buffers |
| `ParkHandshakeProofs` | the theorems about them |
| `TaskGraph` | the compiled wires of a graph: reachability, overlap, publication counts |
| `RecordScheduler` | the event scheduler of `decoding_task_graph_executor.cpp` on such a graph |
| `RecordSchedulerInvariant` | its inductive invariant (definitions only) |
| `FoldInduction` | induction over a fold, for the operator and the property an instance names |
| `RecordSchedulerSteps`, `RecordSchedulerProofs` | what each operation of the scheduler keeps; the theorems about the whole |
| `StreamResult` | the progress model of a streaming graph, as operators on its result state |
| `GraphSession` | a server session around a streaming graph; composes `StreamResult` with the nodes, the retirement of records and the snapshot |
| `GraphSessionProofs` | the theorems about it |
| `DecodingSession` | a server session around a plain decoder, with that decoder's realtime half |
| `DecodingSessionProofs` | the theorems about it |
| `MCThreadPool`, `MCAsyncStream`, `MCStreamLive`, `MCParkHandshake`, `MCRecordScheduler`, `MCGraphSession`, `MCDecodingSession` | instances for TLC |

### ThreadPool

`pc[0]` is the caller (constructor, `run_phase`, `stop_and_join_workers`),
`pc[w]` the loop of owned worker `w`. A step is one access to a shared atomic
or one critical section of `phase_error_mutex_`. `phase_.wait` blocks in one
step with its comparison, and a blocked worker moves only after a notification,
so a lost wake-up would be a behaviour of the model. The constructor may fail
after any number of threads. A task body is abstract: it returns or throws.
CPU pinning appears only as an operation that can fail. `ran`, `threw` and
`outcome` record what the caller can observe.

`ImplementsForkJoin` is the refinement: under the mapping `Status` (and `width`,
`size` from the pool's own variables) every behaviour of the pool is one of
`ForkJoin`.

### AsyncStream

Threads: `user` is the one caller that the class comment allows; `ctl` is the
second thread the unit tests use, a reader or a watchdog that resets; `coord` is
the coordinator. Pool workers are anonymous: a context is claimed, then
finished or failed. `MayStart` is the callers' contract: public calls do not
overlap, except that a second thread may read at any time and may reset while
the user is idle, reads, or is blocked behind FINAL.

| model | code |
|---|---|
| `slots`, `submitted`, `completed` | the ring and its two counters |
| `lc` | `active`, `accepting`, `failed`, `finish_requested`, `flush_requested`, `cancel_requested`, `shutdown`, `finish_target`, and the graph's `streaming_needs_reset` |
| `inFlight`, `finalized` | the single-flight token and the closed-shot flag |
| `producerActive`, `producerWaiters`, `completionWaiters`, `coordinatorWaiting`, `moved` | the park-and-wake words. `moved` keeps of the wake epoch what is ever compared: whether it differs from what a frame observed |
| `ctxs`, `admitted`, `cutAt` | the record contexts in admission order and the point admission has reached, in records and bytes |
| `running`, `stop`, `stopError`, `workerWaking` | the scheduler's count, stop flag and error, and a worker that has still to notify |
| `strays` | workers whose context was discarded under them |
| `pc`, `op`, `ret` | each thread's position, the public call it is in, and where a helper returns |

Payloads are abstract: a record is its number, round type and length, and what
is checked is which records and byte ranges reach the result, in which order.
A context executes as one event. Two places are finer than the code: a run of
retired (or activated) contexts is one step each, so other threads may act in
between.

`ImplementsRecordStream` is the refinement: with `open`, `accepted`, `done`,
`published` and `needsReset` read from `lc.active`, `submitted`, `completed`,
`snapshot` and `lc.needsReset`, every behaviour of the stream is one of
`RecordStream`. A session opens on a graph in order with an empty queue; a record
is accepted while there is room and the shot is open; what leaves the queue is
folded, in its turn, or the graph needs a reset; the flush takes the last record
accepted and closes the shot; nothing but a consumption or a reset follows.

### ParkHandshake

`AsyncStream` interleaves atomic accesses sequentially consistently. The code
uses release and acquire, which on x86-64 allows a store to wait in the store
buffer while a later load goes ahead. This module isolates the two handshakes
where that matters and gives each thread a store buffer. Read-modify-writes
and notifying system calls drain it.

### RecordScheduler

`sched` is what the runtime lock protects: the contexts with their event stores
and ready lists, the turn of every node, the join tables and the dropped
instances. Each critical section is one step. `worker` is each worker's place
in `execute_loop`: it looks, takes an event, runs the node, publishes wire by
wire, settles. `coord` is `dispatch_async_session`, or the caller of a
synchronous or one-shot graph. The graph is a constant of the run: nodes are
record-ordered, pooled or joined by index, wires may carry an index offset or
only completion. A node's decision to fire is left open; the ingest node
publishes the windows of a given layout. `seen` records which values each node
was given, and which operation each result was counted with.

Two cascades run inside a critical section, and are folds here so that they can
be reasoned about. `TryRelease` is `try_release_locked`, which recurses into the
record's dependents and into the next record: `HandOver` is one level of that
recursion, and those it asks hand over in the next. A level moves on by a node or
by a record, so there are no more levels than nodes and contexts.
`CompleteOrContinue` is the mutual recursion of `complete_or_continue_locked` and
`retire_locked` up the ancestors: `Drain` is one event, `Climb` the step to its
parent, and there are no more steps than events in the store.

The hash layout of the join table is abstracted to a map (`JoinTableFits` states
the distance between live instances that makes the layout collision free), the
bounded ring of dropped instances to a set. No node of the repository overrides
`supports_streaming_rendezvous`; the topology `rendezvous` exercises the code
path anyway. Two publications of *different* branches during a flush to one
record-ordered node are not ordered by the code and no order is claimed for
them: `SequentialOrder` is about enqueued records.

### StreamResult and GraphSession

`StreamResult` holds the control of `refresh_streaming_progress`, `stage_delta`,
`fold_whole_shot`, `release_logical`, `consume_streaming_result`,
`apply_record_context`, `process_streaming_record` and the reset and failure
paths, one operator each, over one record that is the graph's result state. A
correction vector is the set of flips in it, combined by symmetric difference.

`GraphSession` adds the actors. The client enqueues, reads, consumes and resets;
the dispatcher retires records: `RetireRecord` one operation or several queued
ones, `RetirePiece` a piece of a long one, `RetireFlush` FINAL's flush. What the
nodes publish for an operation is fixed when it is enqueued, since every node
sees its rounds in order (`RecordScheduler`). The environment chooses how many
rounds an operation has, how far each native decoder commits, which nodes hold
their last publication back until the flush, and whether a decoder throws. A
`twin` graph runs the same operations synchronously, one at a time; it is
history, and what `AsyncAsSync` compares with.

| model | code |
|---|---|
| `graph` | `streaming_result_state`, the per-node and per-output counters, `output_stagers`, `finalized`, `shot_open` |
| `queue`, `cut`, `flushing` | accepted operations not yet retired; the cut inside the first; FINAL's flush still to come |
| `retiring` | `retiring_generation`, `retiring_revision` |
| `snapshot` | `result_snapshot`, `snapshot_valid`, `read_snapshot` |
| `stream` | the nodes: rounds seen, committed, held back, their coverage |
| `session` | `shot_state` and the frozen `graph_result_` |

Left out of both: closures and convergence flags, untagged shots and shots a
decoder seals by itself, contributors that disagree on where a shot begins, a
finish without FINAL, and memory windows. A shot shorter than its prefix and
suffix rounds throws in the readout node; that is one of the failures the
environment may inject, so topologies with a readout have a least length.

### DecodingSession

A session is served by one thread, so a handler is one action, split by how it
ends. A measurement is its number in the client's stream, a detector the set of
measurements it was reduced from, and the corrections the set of measurements
decoded into them; flipping is symmetric difference, so a volume counted twice
cancels out just as it does in the code. The decoder's own overflow check is
kept, although `CountsAgree` shows that it never fires. `sent`, `base`,
`consumed` and `decoded` are history. `Reads`, the detector map, is sorted by
the columns needed, as the decoder's constructor sorts it. A capture or device
failure is an action of its own. A client may send anything in any order.

## 3. Runs

| run | instance | shows |
|---|---|---|
| `thread_pool` | 1 or 3 threads asked for (or the hardware's 2), up to 4 tasks, 2 calls | phases confined, join count exact, no thread left, refinement of `ForkJoin`, every operation returns |
| `stream_ring` | ring 2, 2 contexts, 3 records, a worker that fails without a record | once and in order under cutting and joining, slots held, FINAL whole, contexts dropped only when the workers that hold one have left |
| `stream_watchdog` | ring 1, 2 contexts, 2 records, all calls, a resetting second thread, workers that fail without a record | the single-flight token is always free, a session leaves nothing behind, no session starts on a failed or closed graph, a cancelled FINAL is not taken for a decoded shot, refinement of `RecordStream` |
| `stream_live` | ring 1, 1 context; 2 records and a resetting second thread, or 1 record, clear, destruction and a reading second thread | every call returns |
| `record_scheduler` | 13 graphs, 2 contexts, 2 workers, up to 5 records | sequential order at nodes with state, joins exact and attributed to the right operation, no stall, no internal error, clean shots |
| `graph_session` | 6 graphs, shots of up to 6 rounds, 2 shots, 1 reset, ring of 2 | asynchronous as synchronous, exact frames and coverage, final releases, current snapshots, no missed result, a closed shot readable |
| `park_handshakes` | 4 publications, store buffers | the exchange handshake loses no wake-up, the counted one recovers at the next publication |
| `decoding_session` | volumes of 3, 5 detectors, chunks of 1 to 4, 9 measurements | the counts agree, a decode sees its own volume, an answer is whole |
| `stream_begin_race`, `park_count_tso`, `graph_next_shot`, `stream_discard` | minimal | findings 1 to 4 of section 5 |

### Why the bounds are enough

* `thread_pool`: with 3 threads and 4 tasks one thread has two tasks in its
  stride, so an exception can skip one; two calls give a second phase its stale
  workers and its stale error; one thread takes the inline path.
* `stream_ring`: with `RecordBytes` 2, records of length 1 join, records of
  length 3 are cut, and a third record must reuse a slot of a ring of two while
  the first two may be in two contexts. Three records are enough for the wrap.
  The watchdog is left to its own run: a FINAL that a watchdog cancels and
  resets returns with no result, by design, so `FinalIsWhole` is stated for
  shots nobody cancels. `IdleFailures` bounds how many workers of a session fail
  before they hold a record. One is enough to uncount a worker that runs, and
  `DiscardCountsWorkers` says that it does no more than that: when contexts are
  dropped, at most as many workers still run as failed that way. That there may
  be one at all is finding 4.
* `stream_watchdog`: a ring of one slot makes every second record wait; two
  records are two sessions, or one session and its FINAL. `FinalWholeOrReset`
  says what is left of `FinalIsWhole` when a watchdog cancels the shot: FINAL's
  caller may see its target completed although nothing was decoded, but then
  the graph needs a reset, or the reset has released it and withdrawn whatever
  the shot had published.
* `stream_live` has one context and one slot, where every wait of the code is
  reached: for a slot, for FINAL, for a prefix, for a cancel, for the destructor.
  `MCStreamLive` chooses one scenario per behaviour, because a watchdog and a
  reader in one behaviour make the state space too large for liveness. The
  instance that adds idle worker failures is a violation, below.
* `record_scheduler`: each graph has one feature of the scheduler and just
  enough records to make it matter: two branches that meet (a diamond, two
  sources, an ensemble), a pool of two copies, layers and sliding windows joined
  by index with negative offsets, optional inputs that never come and an event
  store so small that the flush needs several passes, records that are cut or
  hold two operations, faults with cancellation, and a second shot. Two contexts
  are enough for a record to overtake another, two workers for two events to run
  at once; five records of one window each, on two contexts, make contexts and
  join entries reused. The workers are symmetric. No liveness is checked: that
  a session ends is `NoStall` (an unfinished record always has a running or a
  ready event, and not all workers sleep beside one) with the finite number of
  events of a record.
* `graph_session`: the lattice has windows of two layers whose intervals are
  committed out of round order, an observable completed by the first round, one
  by the third, one at the end of the shot. `backlog` completes six windows in
  one operation, with a stager of three intervals: that is enough when they are
  folded in round order and not when they are folded node by node. The code
  sizes the stager the same way from the graph, with larger numbers. `native`
  has one shot only, because of finding 3; a reset still starts another.
  `exact` has decoders that do not know the length of their shot. A reset read
  mid-shot, at the end of a shot and after a failure are all reached.
* `decoding_session`: three volumes, so a volume can fail, be reset, and be
  followed by two more; chunks of 4 never fit. Two of the detectors need the
  last column, the others are ready earlier. The theorems hold for every size.

Deadlock is checked except in the two `ParkHandshake` runs, where the publisher
stops after `Last` values. `Destroyed` and `Terminated` are the only stuttering
steps and stand for a program that is done with the object.

### Fairness

* `ThreadPool`: weak fairness of each thread. The caller owes no further call;
  it is fair only inside the pool.
* `AsyncStream`: weak fairness of each caller inside a call, of the coordinator,
  of the claims of ready contexts, and of each executing worker, which finishes
  or fails (a decoder that never returns would hang the code as well). One strong
  fairness: a thread waiting for the producer's guard is not starved by a
  user whose enqueues are refused again and again. The guarded section is a few
  instructions and the flag is down between any two calls; a waiter that looks
  again only inside that section, for ever, is not a schedule a preemptive
  system produces.
* `ParkHandshake`: weak fairness of both threads, and stores reach memory.

## 4. Proofs

Every theorem is proved for all values of the constants, from the named
assumption of its module alone; a theorem with a further hypothesis says so
below. TLC evaluates the assumptions in the runs, and has checked each inductive
invariant on small instances before it was proved.

| module | theorem | property |
|---|---|---|
| `ThreadPoolProofs` | `PoolTypeCorrect`, `PoolPhaseConfined`, `PoolJoinCounts`, `PoolLeavesNoThread` | `TypeOK`, `PhaseConfined`, `JoinCounts`, `NoThreadOutlivesPool` |
| `ThreadPoolProofs` | `PoolImplementsForkJoin` | `ImplementsForkJoin` |
| `AsyncStreamProofs` | `StreamInvariant`, `StreamTyped`, `RingNeverOverflows`, `NoSlotReused`, `StreamInOrder`, `CallsNeverRefused`, `InactiveLeavesNothing`, `EverySessionStartsClean` | `StreamInv`, `TypeOK`, `RingBound`, `SlotsHeld`, `InOrder`, `NeverRefused`, `InactiveIsClean`, `CleanStart` |
| `AsyncStreamProofs` | `DiscardWaitsForWorkers` | `DiscardCountsWorkers` |
| `AsyncStreamProofs` | `FinalReturnsWhole`, if no second thread resets | `FinalIsWhole` |
| `AsyncStreamProofs` | `StreamImplementsContract` | `ImplementsRecordStream` |
| `RecordSchedulerProofs` | `SchedulerInvariant`, `SchedulerTyped` | `IInv`, `TypeOK` (proved only: no run repeats it) |
| `RecordSchedulerProofs` | `SchedulerNodesExclusive`, `SchedulerWorkersInTurn` | `NodesExclusive`, `WorkersInTurn` |
| `RecordSchedulerProofs` | `SchedulerRecordOrder` | `RecordOrder`, the record part of `SequentialOrder` |
| `RecordSchedulerProofs` | `SchedulerEndsIdle` | `EndedIsIdle`, the context part of `CleanShot`, also of a session that failed |
| `RecordSchedulerProofs` | `SchedulerNoLostWakeup` | `NoLostWakeup`, the second half of `NoStall` |
| `GraphSessionProofs` | `GraphInvariant`, `GraphTyped` | `GraphInv`, `TypeOK` |
| `GraphSessionProofs` | `GraphProgressCurrent` | `ProgressCurrent`, the first part of `SnapshotCurrent` |
| `GraphSessionProofs` | `GraphReaderMonotone`, `GraphFailureLatched` | `ReaderStep`, `LatchStep` (action properties) |
| `GraphSessionProofs` | `GraphFailureShown`, `GraphFinalAnswered`, `GraphFrozenBehind` | `FailureShown`, `FinalAnswered`, `FrozenBehind` |
| `ParkHandshakeProofs` | `ExchangeLosesNoWakeup`, `CountWakesNext` | `ExchangeWakes`, `NextRecordWakes` (an action property) |
| `DecodingSessionProofs` | `SessionTypeCorrect`, `SessionCountsAgree`, `SessionDecodesOwnVolume`, `SessionReadIsWhole` | `TypeOK`, `CountsAgree`, `DecodesOwnVolume`, `ReadIsWhole` |

### Thread pool

`ThreadPoolProofs` works for any number of threads, tasks and calls, from
`PoolAssumption` (the parameters are naturals within their bounds). The
argument is one inductive invariant, `PoolInv`. `PhaseConfined` is not inductive:
that a worker is not a phase behind when the caller leaves `run_phase` follows
only from the join counter being exact, and the counter is exact only if every
worker is level with the phase between calls (`LevelWhenQuiet`) and at most one
behind during a call (`OneBehindInCall`). `Pending` names the threads that still
owe a decrement; `JoinCounts` equates its cardinality with
`remaining_workers_`, so a spin that ends proves `Pending` empty. `Births` and
`ShutdownFlag` tie the threads created to those joined, which gives
`NoThreadOutlivesPool` for a constructor that fails half way too. The control
part and the counter are proved per action in separate lemmas.

The refinement shows that every step of the pool is a step of `ForkJoin`
or changes nothing the caller can see. `PoolInv` says nothing of tasks, so a
second invariant, `StrideInv`, follows each thread through the tasks it owns:
a thread that has not begun has touched none of its stride, one in its loop has
run exactly those below its index, one that unwinds has run up to the task that
threw, one that is done has run all but those behind its own exception
(`Progress`); and an exception is kept, or about to be stored, from the throw to
the rethrow (`ErrorKept`). `PoolInv` is used to know when a thread may still
start: the counter at zero and nobody pending make every thread `Finished`. The
strides `t, t + n, t + 2n, ...` partition the tasks, which rests on a few lemmas
on remainders (no multiple of `n` lies strictly between 0 and `n`, the next
index of a stride has no other in between, ...).

### Asynchronous stream

`AsyncStreamInvariant` defines `StreamInv`, for rings, context pools, records and
call sets of any size, from `StreamAssumption` (a ring and a pool that are not
empty, records that are not empty). None of the checked properties is inductive.
The invariant has five parts, in the order in which one needs the other:

* `ControlInv`: where each thread can be, given the call it makes and the helper
  it is in; the waiter counters count exactly the threads behind them. It stands
  alone.
* `LifecycleInv`: a session in progress is active and holds the single-flight
  token (`TokenHeld`); a call past its wait finds it inactive (`Released`); a
  cancel has a caller that waits for it (`CancelArmed`); nobody closes a session
  under a user that publishes (`KeptOpen`); a finish covers all that was
  submitted and somebody waits for it (`Finishing`); a closed session accounts for
  all it accepted (`Accounted`). Here the contract of the callers is used: without
  `Contract` a reset could run under a publication.
* `RingInv`: the window between `completed` and `submitted` holds its records, and
  FINAL only as the last (`WindowHeld`); the producer's check of the counters
  is still valid when it publishes (`Publishing`).
* `ContextInv`: the contexts in flight lie in admission order between the last
  retired and the next admitted record; a context that does not close its record
  is followed by one that does; the flush is the last (`ContextsLined`).
  `InOrder` and `SlotsHeld` follow: the first context to retire starts where the
  result ends, and what it reads in place is still in the window. Behind a
  failure that covers the queue, contexts outlive the window; `Sealed` says that
  nothing is published until they are dropped.
* `WorkerInv`: the scheduler's count never exceeds the contexts executing, and
  falls behind it by no more than the workers that failed without one
  (`idleFailed`).

Most steps leave most parts alone. The proofs say so once, in frame lemmas
(what a step of a caller, of the coordinator, of a worker may write), and then
treat one by one the steps that write what a part is about. The steps that write
the record of lifecycle flags have a lemma each.

`CleanStart` is an action property: only `Enqueue` makes a session active
(`OnlyEnqueueBegins`), behind its checks, and `Accounted` gives the empty ring.

`FinalIsWhole` needs a second invariant, `FinalInv`: a FINAL that neither a failure
nor a cancel answered has the flushed result published before the ring reaches
its target, and a failure is marked before it moves `completed`. The theorem asks
for a call set without a resetting second thread, because a reset under FINAL
takes its answer away by design. `DiscardCountsWorkers` follows from `WorkerInv`
alone, for any number of idle failures; with none it says that no worker runs.

The refinement shows that every step is a step of `RecordStream` or changes
nothing the contract names, with no further hypothesis. `StreamInv` does not say
what a shot may still take, so a third invariant, `ShotInv`, does: the dispatcher
runs on a graph that needs no reset until it has failed, and an active session on
a graph that needs one has failed or is being cancelled (`InOrderUntilFailed`);
behind the flush no record is on its way, none is queued and no context is left
(`ClosedByFlush`). The steps that count are

| step of `AsyncStream` | step of `RecordStream` | what it rests on |
|---|---|---|
| `Enqueue`, beginning a session | `Open` | `Accounted`, `FailedNeedsReset` |
| `TryPublish` | `Accept` | `Publishing`: the producer's check is still valid |
| `Retire` | `Fold`, or `Flush` | the flush is the only context left, and FINAL the only record queued (`ContextsLined`, `Admission`) |
| `Fail` | `Fail` | `InOrderUntilFailed` |
| `FailCover`, `Cancelled` | `Abandon` | `FailMarked` |
| `Inactivate` | `Close` | `Accounted` |
| `ClearApply`, `CancelEnd`, `ResetApply` | `Consume`, `Withdraw`, `Reset` | `Released`, `TokenHeld` |

All others are invisible (`ShotFrame`). That `Accept` is refused beyond the
capacity makes `RingBound` part of the contract; `RingNeverOverflows` states it on
its own.

### Record scheduler

The theorems hold for every graph whose nodes, wires, copies and raw inputs are
consistent (`WellFormed`, which `compile_wires` guarantees), any number of contexts
and any finite set of workers. Nothing is assumed of the
topology, so they also cover graphs too large to model-check.

`IInv` is stated of any scheduler state `s`, because a critical section goes
through several before it unlocks:

* `Core`: every context is well formed. Its events form a tree, in which the
  children of an event are exactly those that name it as their parent (`Tree`);
  its ready list holds queued events, each once (`ReadyQueue`); a complete context
  has no event and no lease. Records in the gate have numbers of their own
  (`Numbered`).
* `Exclusive`: at most one running event uses a node that may not be shared
  (`NodeExclusive`); a copy is leased to one record or held by one fire
  (`LeasesDistinct`, `FiresApart`, `DeliveriesLeased`); an event of a
  record-ordered node runs in its record's turn (`TurnHeld`).
* `ActiveOK`: the active list names the contexts in use, each once, and the
  others are as `reset` leaves them.
* `WorkersOK`: a busy worker's event exists, is running, and is no other
  worker's. This is what makes `NodesExclusive` a statement about workers.
* `SeenOK`, `EndedClean`: what the nodes saw last is not ahead of their turn, and
  a session that ended has no record.

The argument separates the one step that starts an event from all others. Every
operation but `Claim` satisfies `Follows(s, t)`: `t` is well formed and `Calm`, that is,
its running events ran in `s` on the same node with the same copy, a lease is
given up only when no running delivery uses it, and a turn moves only past
records that run nothing on the node. `Follows` is transitive, so that it passes
from `push_locked` to an edge, a wire, a publication, a join and a whole handler,
and `Exclusive` follows once for all of them. `Claim` alone must find the node
free, and does, behind `Runnable`.

Each of these operations is a fold: over the children of an event, the wires of a
node, the indices it skipped, the levels of a handover, the ancestors that
drain. `FoldInduction` is how the proofs go over them: a library theorem with an
operator for a parameter cannot be applied, but a module with operators for
constants can be instantiated, and its lemmas are then facts about these
operators. Its proof constructs the function by which the library defines a fold.

`SchedulerRecordOrder` is an action property: a node that sees a value of a record
is in its turn, turns never decrease, and the next value it sees comes in a turn
that is not earlier.

`SchedulerNoLostWakeup` needs that every step that can make an event runnable
notifies. The workers announce under the lock whatever their step made ready
(`Notified`), and a worker parks only behind a look that found nothing. The
coordinator's steps are the interesting ones: retiring a record frees no node,
no copy and no turn that a parked worker could have been waiting for
(`RetiredReady`, `RetireWakes`), so `retire_record_context` may do without a
notification, as it does.

### Graph session

The theorems hold for every topology that `IsTopology` describes (numbered
outputs, lengths that are naturals): any number of nodes and outputs, staged or
not, any schedule, any record length, any choice the nodes make. They are about
what a reader and the session can rely on, not about which flips a value holds.

The first half of the module is lemmas about `StreamResult`, one per operation.
`apply_record_context` and catching up touch nothing a reader gets (`Keeps`); a
refresh moves outputs and releases, and makes a new revision whenever the
reader's part changed (`RefreshOK`); consumption, hiding and failure always do.
Each operation therefore `Advances` the result: revision and completed operations
grow, and the revision changes if the progress does. The loops over outputs,
operations and pieces are folds, and go through `FoldInduction`.

`GraphInv` is the invariant of the actors around it, stated of values rather than
variables (`InvAt`) so that it can be applied to the next state:

* `QueueAt`: FINAL's operation is the last of the queue as long as its call
  waits, and a graph run by its caller has no queue.
* `CutAt`: an operation half retired, or waiting for its flush, is still first
  in the queue.
* `SnapshotAt`: the reader's result is of the graph's epoch and never ahead; it
  has the graph's revision between operations, and while one is being retired
  the revision that one started from, which is `retiring.revision`. This is what
  skipping a publication relies on: the comparison with
  `retiring_revision` at the end of an operation cut into pieces is a comparison
  with what the reader has, whatever the pieces in between did. `SnapshotCurrent`
  alone is not inductive, because it says nothing in the middle of an operation.
* `EndAt`: a failure has emptied the queue and is what the reader sees; FINAL's
  call ends with the flushed result or with a failure.
* `SessionAt`: what the session froze is behind what the reader gets.

The three ways a record retires, and a node that throws, are one lemma
(`ContextStep`), which knows only what `Retire` leaves (`Outcome`).

### Park-and-wake

`ExchangeCatchesUp` is a liveness property and stays with TLC. Its safety half is
proved for any number of publications: a waiter asleep behind a value it has not
seen has a notification on its way. For the exchange handshake this holds with
store buffers. Its invariant says that between advertisement and withdrawal the
flag is up, or was taken by a publisher that notifies; that a waiter parks only
knowing the newest value, buffered or not, or with the publisher's look at the
flag still to come; and that no buffer holds more than one store, none across a
locked instruction (`BuffersShort`). The count handshake loses a wake-up with
store buffers (finding 2); what is proved of it, with store buffers too, is how
much it loses. `NextRecordWakes` is an action property: a look at the count made
while a waiter is parked finds it, and wakes it. A waiter counts itself in with a
locked instruction before it parks and out only after it wakes, so no buffer
hides a parked waiter (`CountInv`, `CountLoads`); the wake-up is lost only if the
look comes before the waiter counted itself in and the store after it looked at
the counter. The next record's look finds it; only the last record of a shot can
therefore strand a waiter.

### Decoder session

`DecodingSessionProofs` works for every volume size, detector map and
chunking, from `SessionAssumption` (a non-empty volume, detectors over its
columns, sorted by readiness). Its invariant `SessionInv` says that unless the
shot has failed (`Live`): the two counts agree and the volume is open; the buffer
below the write index holds this volume's measurements (`BufferIsOwn`); the
detectors behind the cursor are reduced from them (`ReducedAreOwn`); and the
corrections hold exactly the volumes since the last consumption
(`CorrectionsCover`). Each is needed by the next: a decode's input is its own
because the cursor skips only detectors already reduced from this volume's
buffer, and a read is whole because every decode flips in its own, disjoint
volume. Nothing is claimed of a failed shot's buffers, which is why a reset must
restore all of it except the detectors, and does.

### Only model-checked

* Liveness (`EveryOperationReturns`, `CallsReturn`, `ExchangeCatchesUp`): fairness and `ENABLED` are beyond the prover.
* `RecordScheduler`: the order of the branches of one record (the rest of
  `SequentialOrder`), `ValuesIntact`, `WindowsWhole`, `JoinsExact`,
  `OperationAttribution`, `JoinTableFits`, `NoInternalError`, the joins in `CleanShot`
  and `SomethingToDo`, the first half of `NoStall`. They depend on the shape of the
  graph (which paths meet, how far an index runs ahead, how large the event store
  is made), and hold for the graphs the compiler accepts, not for every
  record that is `WellFormed`.
* `GraphSession`: what a value holds. `AsyncAsSync` compares two groupings of the
  same folds, `FrameExact`, `CoverageFollows` and `ReleasedIsWhole` a fold with a
  closed form, which is induction over data; so are the values, the completed
  operations and the flag in the rest of `SnapshotCurrent`. `NoMissedResult`
  compares with the synchronous twin, and so rests on `AsyncAsSync`.
  `NoInternalFailure` depends on the layout of the windows.

## 5. Where code and comments disagree

1. `stream_begin_race`. `begin_async_streaming` stores `active` and then
   `accepting`. A session that starts and fails in between is reopened by the
   second store; FINAL is accepted and its caller waits for ever. A test
   comment says that FINAL rethrows the error instead. It takes a worker that
   fails before it holds a record and a coordinator already awake.
2. `park_count_tso`. A release store of `completed` followed by an acquire load
   of `completion_waiters` is not ordered; with store buffers the notification
   is skipped and a waiter parks behind a value that is already there. The
   exchange handshake of the same file does not have this gap.
3. `graph_next_shot`. Consuming a complete shot clears the coverage of the
   contributors but keeps their publication counts. If two decoders that share
   an output published a different number of times, the first publication of the
   slower one in the next shot moves the output alone: it is available, with a
   round range from the schedule that nobody has committed. A test comment says
   that such an output covers only the rounds both have committed. It takes
   commit rates that differ from shot to shot, which `committed_round_count`
   allows.

4. `stream_discard`. `record_scheduler::fail` decrements `running` also for a
   worker that never incremented it, so a cancelled session discards a context
   that another worker still executes, although a comment
   (`decoding_task_stream_executor.cpp:694-695`) says that it does so after the
   decoder returns.

Without a run of their own:

5. A FINAL whose session is cancelled can return while the session is still
   active (`decoding_task_stream_executor.cpp:677`), although
   `decoding_task_graph_impl.h:491-492` says the session releases the graph
   first. The next call waits for the release (`NeverRefused` holds) and the
   cancelled shot cannot be taken for a decoded one (`FinalWholeOrReset`
   holds), so the effect is limited to the comment's promise.
6. A round sent after FINAL is dropped by the graph, but the session goes back
   to collecting (`DecodingSession.cpp:260`), and the result can then be read by
   nobody until a reset, although the graph's warning says to read the
   corrections and clear them. It is the only way to lose a closed shot's
   result: `NoMissedResult` shows that a session that answers `NOT_READY` for
   one had that very result before.
7. A comment in `retire_record_context` calls the snapshot it skips identical.
   It is, in everything a reader may rely on (`SnapshotCurrent`); an unstaged
   value ahead of its coverage and a logical reading not yet released can
   differ, which is why `Stable` leaves them out.
8. When correction outputs enter a shot with different generations, the
   aggregate's generation, and with it `operation_completed`, can advance
   before the aggregate is readable, and need not advance when it becomes so.
   `NoMissedResult` therefore speaks of readable results only.

## 6. Not modelled

Details of modelled code that are left out:

* `ThreadPool`: a call with no tasks, which returns at once, and an affinity mask
  that is refused before any thread exists. `ResetError` merges the critical
  section that clears the error with the relaxed store that follows it; no worker
  is in the phase then.
* `AsyncStream`: exceptions thrown on the coordinator's own thread while it
  admits or retires (`decoding_task_graph_executor.cpp:2558-2563`, `2652-2668`,
  `2696-2701`), which fail the session the way a worker's exception does; records
  of length zero. A worker whose context was discarded under it (finding 4)
  returns without effect in the model, where the code touches a context that is
  already reset.
* `RecordScheduler` (lines of `decoding_task_graph_executor.cpp`): the check that an instance is not published twice (`721-732`,
  an error `JoinsExact` makes unreachable), null ports to record-ordered
  consumers, and the reading of a value in place (`879-881`). `Guaranteed` asks
  that the producer's instance exists where the code only compares its index with
  the first, which is the same for the windows modelled. `FlushNode` and
  `SettleFlush` merge critical sections of a node that is quiescent between them
  (`1351-1394`), and `ResolveJoins` goes by index where the code goes by table
  entry; the entries are independent.
* `StreamResult`: the branch that adds the captured delta of a pooled or indexed
  node to that node's latest corrections (`decoding_task_graph_executor.cpp:2302-2306`). `ReportedOutput` takes the
  latest begin of the contributors, which agree in the modelled topologies.
* `GraphSession`: `Reset` publishes once, where the code publishes a hidden,
  pending snapshot on the way (`decoding_task_graph.cpp:2028-2030`); only a reader
  in another thread could see it, and the session is served by one. A reset that
  fails on a graph that has failed already is left out. The synchronous twin of an
  asynchronous graph gets the accepted rounds only; a dropped round clears
  `operation_completed` of a synchronous graph (`Dropped`).

Parts that are left out:

* The rollback of `prepare_async_streaming` when it throws, a finish without a
  FINAL record (no public call reaches it), the refusal of a second producer, a
  slot allocation or a publication that throws.
* Batches of shots, one-shot calls that run through the stream, closures,
  convergence, untagged and sealed shots, disagreeing shot begins, memory
  windows, the ensemble's selection of a candidate and predecoders.
* Device graph capture, statistics counters, streaming-layout decoders and
  `decode_async`.
* The session registry, transport and configuration (filled or parsed once),
  GPU code, numeric decoders, code and matrix construction, logging, tools.

## 7. Plan

Done: `ThreadPool` with its invariants and its refinement of `ForkJoin` proved;
`AsyncStream` with all its safety properties and its refinement of `RecordStream`
proved; `ParkHandshake` with what each handshake guarantees proved;
`DecodingSession` with proofs; `TaskGraph` and `RecordScheduler` with exclusion,
record order and wake-ups proved; `StreamResult` and `GraphSession` with what a
reader can rely on proved. Left, in order:

1. The stager of one output: its frontier never moves back and its pending
   intervals lie behind none, for any order of commits; with it the frame part
   of `FrameExact` for a single output.
2. `ValuesIntact` and the branch order of `SequentialOrder`, from the blocking of
   siblings whose paths meet; then `JoinsExact`, with the conditions on a graph
   it needs written down as an assumption.
3. The ensemble: members racing for a selection, and cancellation of the rest.
4. The streaming layout of the decoder base and the sliding window decoder:
   which rounds a window commits.
5. The slot ring of the realtime pipeline and the ring consumer of the server.
