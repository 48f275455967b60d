---------------------------- MODULE AsyncStream ----------------------------
(***************************************************************************)
(* The asynchronous stream of a decoding task graph                        *)
(* (libs/qec/lib/decoding_task/decoding_task_stream_executor.cpp and the   *)
(* dispatcher dispatch_async_session() of decoding_task_graph_executor.cpp)*)
(*                                                                         *)
(* Threads.  "user" is the caller the class comment allows: it enqueues    *)
(* records, reads results, consumes shots, resets and destroys the graph.  *)
(* "ctl" is the second thread the unit tests run: a result reader, and a   *)
(* watchdog that calls reset_decoder() while the user is idle or blocked   *)
(* behind FINAL.  "coord" is the persistent coordinator: async_stream_loop *)
(* and, inside a session, the dispatcher.  Pool workers are anonymous: a   *)
(* worker claims a ready context, and finishes it or fails.                *)
(*                                                                         *)
(* Every shared atomic is written by a step of its own, so all the orders  *)
(* in which the threads' loads and stores can interleave are behaviours    *)
(* (sequentially consistent ones: ParkHandshake.tla has the weaker ones).  *)
(* A thread blocked in std::atomic::wait is in `asleep' and takes no step  *)
(* until a notify on that atomic removes it.                               *)
(***************************************************************************)
EXTENDS Integers, Sequences, FiniteSets

CONSTANTS
    Capacity,     \* async_queue_capacity: slots of the ring
    Contexts,     \* record contexts of the scheduler
    Records,      \* records the user sends: round type and payload length
    RecordBytes,  \* record_bytes; 0 turns cutting and coalescing off
    SpinIters,    \* spin_pause_iters # 0
    Calls,        \* which thread makes which public calls
    IdleFailures, \* bound: workers of a session that fail holding no record
    MaxRecords    \* bound: records a behaviour submits

ASSUME StreamAssumption ==
    /\ Capacity \in Nat \ {0} /\ Contexts \in Nat \ {0}
    /\ RecordBytes \in Nat
    /\ Records \subseteq [type : {"BULK", "NONE", "FINAL"}, len : Nat \ {0}]
    /\ Records # {}
    /\ Calls \subseteq {"user", "ctl"} \X
                  {"enqueue", "read", "clear", "reset", "destroy"}
    /\ SpinIters \in BOOLEAN /\ IdleFailures \in Nat /\ MaxRecords \in Nat

VARIABLES
    \* async_streaming_state: the ring
    slots, submitted, completed,
    \* async_streaming_state: lifecycle flags, and the graph's own
    lc, finalized, inFlight,
    \* async_streaming_state: park and wake
    producerActive, producerWaiters, completionWaiters, coordinatorWaiting,
    moved,        \* by frame: wake_epoch differs from its observed_epoch
    asleep,       \* by thread: the atomic it is parked on, or "none"
    \* result published to readers
    result, snapshot,
    \* thread control: program counter, public call in progress, return label
    \* and the call's locals
    pc, op, ret, rec, status, observed, target,
    \* the dispatcher and the scheduler it drives
    frame, ctxs, admitted, cutAt, finalPending, flushAdmitted, progressed,
    stop, stopError, running, strays, workerWaking,
    idleFailed    \* workers of this session that failed holding no record

ring      == <<slots, submitted, completed>>
graph     == <<lc, finalized, inFlight>>
results   == <<result, snapshot>>
store     == <<ring, graph, results>>
producers == <<producerActive, producerWaiters>>
epochs    == <<coordinatorWaiting, moved>>
parking   == <<producers, completionWaiters, epochs, asleep>>
call      == <<rec, status, observed, target>>
locals    == <<op, ret, call>>
admission == <<admitted, cutAt, finalPending, flushAdmitted>>
dispatch  == <<frame, ctxs, admission, progressed>>
sched     == <<stop, stopError, running, strays, workerWaking, idleFailed>>
engine    == <<dispatch, sched>>
world     == <<store, engine>>
vars      == <<world, parking, pc, locals>>

Callers == {"user", "ctl"}
Threads == Callers \union {"coord"}
Frames  == {"loop", "dispatch"}
Types   == {"BULK", "NONE", "FINAL"}   \* NONE: enqueued without a round type

NoRecord  == [id |-> -1, type |-> "NONE", len |-> 0]
SlotRange == {NoRecord} \union [id : Nat, type : Types, len : Nat]

----------------------------------------------------------------------------
(* Shared pieces of control.                                               *)

Goto(t, label) == pc' = [pc EXCEPT ![t] = label]

Call(t, label, back) ==
    /\ Goto(t, label)
    /\ ret' = [ret EXCEPT ![t] = back]

\* A helper returns to the call that made it, ...
Back(t) ==
    /\ Goto(t, ret[t])
    /\ ret' = [ret EXCEPT ![t] = "idle"]

\* ... and a public call returns or throws.
Return(t) ==
    /\ Goto(t, "idle")
    /\ op' = [op EXCEPT ![t] = "none"]

\* std::atomic::notify_all: every thread parked on `what' runs again.
Notify(what) ==
    asleep' = [t \in Threads |-> IF asleep[t] = what THEN "none" ELSE asleep[t]]

Sleep(t, what) == asleep' = [asleep EXCEPT ![t] = what]

At(t, label) == pc[t] = label /\ asleep[t] = "none"

\* wake_epoch.fetch_add: no live observed_epoch is current any more.
BumpEpoch == moved' = [f \in Frames |-> f = "loop" \/ frame = "dispatch"]

Free == Len(ctxs) < Contexts

\* Contexts at the front that have finished executing (complete_prefix() # 0).
PrefixDone == ctxs # <<>> /\ ctxs[1].exec = "done"

\* A session that published its result and is about to release the graph.
Settling == lc.active /\ lc.finish /\ completed >= lc.target

Init ==
    /\ slots = [i \in 0..(Capacity - 1) |-> NoRecord]
    /\ submitted = 0 /\ completed = 0
    /\ lc = [active |-> FALSE, accepting |-> FALSE, failed |-> FALSE,
             finish |-> FALSE, flush |-> FALSE, cancel |-> FALSE,
             shutdown |-> FALSE, target |-> 0, needsReset |-> FALSE]
    /\ finalized = FALSE /\ inFlight = 0
    /\ producerActive = FALSE /\ producerWaiters = 0 /\ completionWaiters = 0
    /\ coordinatorWaiting = FALSE
    /\ moved = [f \in Frames |-> FALSE]
    /\ asleep = [t \in Threads |-> "none"]
    /\ result = "pending" /\ snapshot = "none"
    /\ pc = [t \in Threads |-> IF t = "coord" THEN "wait" ELSE "idle"]
    /\ op = [t \in Callers |-> "none"]
    /\ ret = [t \in Threads |-> "idle"]
    /\ rec = CHOOSE r \in Records : TRUE
    /\ status = "accepted"
    /\ observed = [t \in Callers |-> 0] /\ target = [t \in Callers |-> 0]
    /\ frame = "loop" /\ ctxs = <<>> /\ admitted = 0 /\ cutAt = 0
    /\ finalPending = FALSE /\ flushAdmitted = FALSE /\ progressed = FALSE
    /\ stop = FALSE /\ stopError = FALSE /\ running = 0 /\ strays = 0
    /\ workerWaking = FALSE /\ idleFailed = 0

----------------------------------------------------------------------------
(* wait_for_producer: advertise, check, park, withdraw.                    *)

ProducerAdvertise(t) ==
    /\ At(t, "wpAdvertise")
    /\ producerWaiters' = producerWaiters + 1
    /\ Goto(t, "wpCheck")
    /\ UNCHANGED <<world, locals, epochs, producerActive, completionWaiters,
                   asleep>>

ProducerCheck(t) ==
    /\ At(t, "wpCheck")
    /\ IF producerActive
          THEN Sleep(t, "producer") /\ UNCHANGED <<producerWaiters, ret, pc>>
          ELSE /\ producerWaiters' = producerWaiters - 1
               /\ Back(t)
               /\ UNCHANGED asleep
    /\ UNCHANGED <<world, call, epochs, producerActive, completionWaiters, op>>

(* wait_for_completion_change: spin, advertise, check and park, withdraw.  *)

ChangeSpin(t) ==
    /\ At(t, "change") /\ completed # observed[t]
    /\ Back(t)
    /\ observed' = [observed EXCEPT ![t] = 0]
    /\ UNCHANGED <<world, parking, op, rec, status, target>>

ChangeAdvertise(t) ==
    /\ At(t, "change")
    /\ completionWaiters' = completionWaiters + 1
    /\ Goto(t, "changeCheck")
    /\ UNCHANGED <<world, locals, producers, epochs, asleep>>

ChangeCheck(t) ==
    /\ At(t, "changeCheck")
    /\ IF completed = observed[t]
          THEN /\ Sleep(t, "completed")
               /\ UNCHANGED <<completionWaiters, ret, observed, pc>>
          ELSE /\ completionWaiters' = completionWaiters - 1
               /\ Back(t)
               /\ observed' = [observed EXCEPT ![t] = 0]
               /\ UNCHANGED asleep
    /\ UNCHANGED <<world, producers, epochs, op, rec, status, target>>

(* wait_until_inactive.                                                    *)

Inactive(t) ==
    /\ At(t, "inactive")
    /\ IF lc.active
          THEN Sleep(t, "active") /\ UNCHANGED <<ret, pc>>
          ELSE Back(t) /\ UNCHANGED asleep
    /\ UNCHANGED <<world, call, producers, epochs, completionWaiters, op>>

(* wake_async_stream: advance the epoch, then notify a parked coordinator. *)

WakeBump(t) ==
    /\ At(t, "wake")
    /\ BumpEpoch
    /\ Goto(t, "wakeNotify")
    /\ UNCHANGED <<world, locals, producers, completionWaiters,
                   coordinatorWaiting, asleep>>

WakeNotify(t) ==
    /\ At(t, "wakeNotify")
    /\ IF coordinatorWaiting THEN Notify("epoch") ELSE UNCHANGED asleep
    /\ Back(t)
    /\ UNCHANGED <<world, call, producers, epochs, completionWaiters, op>>

----------------------------------------------------------------------------
(* The callers' contract: calls of one graph do not overlap, except that a *)
(* second thread may read, and may reset while the user is idle, reads, or *)
(* is blocked behind FINAL.                                                *)

BehindFinal ==
    \/ pc["user"] \in {"finWait", "finCheck", "finEnd"}
    \/ /\ pc["user"] \in {"change", "changeCheck", "inactive"}
       /\ ret["user"] \in {"finWait", "finEnd"}

MayStart(t, name) ==
    /\ <<t, name>> \in Calls
    /\ At(t, "idle") /\ ~lc.shutdown
    /\ CASE name = "read" -> "destroy" \notin {op[u] : u \in Callers}
         [] name = "reset" /\ t = "ctl" ->
              op["user"] \in {"none", "read"} \/ BehindFinal
         [] name = "destroy" -> t = "user" /\ op["ctl"] = "none"
         [] OTHER -> t = "user" /\ op["ctl"] \in {"none", "read"}

\* Start a call; the lifecycle calls first wait for a finished session to
\* release the graph (settle_async_streaming).
Start(t, name, label) ==
    /\ MayStart(t, name)
    /\ op' = [op EXCEPT ![t] = name]
    /\ IF Settling THEN Call(t, "inactive", label) ELSE Call(t, label, "idle")
    /\ UNCHANGED <<world, parking, status, observed, target>>

----------------------------------------------------------------------------
(* enqueue_syndrome: enqueue_syndrome_async and what it calls.             *)

EnqueueStart(r) ==
    /\ submitted < MaxRecords
    /\ rec' = r
    /\ Start("user", "enqueue", "enq")

\* Drop a record after FINAL, start a session, or go on with the open one.
\* begin_async_streaming refuses a graph that needs a reset or is in use.
Enqueue ==
    /\ At("user", "enq")
    /\ IF finalized \/ (~lc.active /\ (lc.needsReset \/ inFlight # 0))
          THEN Return("user") /\ UNCHANGED <<lc, inFlight, snapshot, ret>>
          ELSE /\ IF lc.active
                    THEN Goto("user", "try") /\ UNCHANGED <<lc, inFlight,
                                                            snapshot>>
                    ELSE /\ inFlight' = 1
                         /\ snapshot' = "none"
                         /\ lc' = [lc EXCEPT !.failed = FALSE, !.finish = FALSE,
                                             !.flush = FALSE, !.cancel = FALSE,
                                             !.active = TRUE]
                         /\ Goto("user", "accept")
               /\ UNCHANGED <<op, ret>>
    /\ UNCHANGED <<engine, parking, ring, call, finalized, result>>

BeginAccepting ==
    /\ At("user", "accept")
    /\ lc' = [lc EXCEPT !.accepting = TRUE]
    /\ Call("user", "wake", "try")
    /\ UNCHANGED <<engine, parking, ring, results, call, finalized, inFlight,
                   op>>

\* Mutant: one record too many fits the ring.
OverFull == submitted - completed > Capacity

\* The ring has no free slot.
QueueFull == submitted - completed >= Capacity

\* try_enqueue_syndrome_async takes the publication guard ...
TryGuard ==
    /\ At("user", "try")
    /\ producerActive' = TRUE
    /\ Goto("user", "tryCheck")
    /\ UNCHANGED <<world, locals, epochs, producerWaiters, completionWaiters,
                   asleep>>

\* ... reads the flags and the counters ...
TryCheck ==
    /\ At("user", "tryCheck")
    /\ LET outcome == IF ~lc.active \/ ~lc.accepting
                          THEN IF lc.failed THEN "failed" ELSE "closed"
                       ELSE IF QueueFull
                          THEN "queue_full" ELSE "accepted"
       IN  /\ status' = outcome
           /\ Goto("user", IF outcome = "accepted" THEN "write" ELSE "release")
    /\ UNCHANGED <<world, parking, op, ret, rec, observed, target>>

\* ... fills the slot, and for FINAL arms the end of the session ...
TryWrite ==
    /\ At("user", "write")
    /\ slots' = [slots EXCEPT ![submitted % Capacity] =
                    [id |-> submitted, type |-> rec.type, len |-> rec.len]]
    /\ lc' = IF rec.type = "FINAL"
                THEN [lc EXCEPT !.target = submitted + 1, !.flush = TRUE,
                                !.finish = TRUE, !.accepting = FALSE]
                ELSE lc
    /\ Goto("user", "publish")
    /\ UNCHANGED <<engine, parking, results, locals, submitted, completed,
                   finalized, inFlight>>

\* ... publishes it ...
TryPublish ==
    /\ At("user", "publish")
    /\ submitted' = submitted + 1
    /\ Goto("user", "release")
    /\ UNCHANGED <<engine, parking, graph, results, locals, slots, completed>>

\* ... and releases the guard (release_producer).
ReleaseProducer ==
    /\ At("user", "release")
    /\ producerActive' = FALSE
    /\ Goto("user", "releaseNotify")
    /\ UNCHANGED <<world, locals, epochs, producerWaiters, completionWaiters,
                   asleep>>

ReleaseNotify ==
    /\ At("user", "releaseNotify")
    /\ IF producerWaiters # 0 THEN Notify("producer") ELSE UNCHANGED asleep
    /\ CASE status = "accepted" -> Goto("user", "recWake") /\ UNCHANGED op
         [] status = "queue_full" -> Goto("user", "slot") /\ UNCHANGED op
         [] OTHER -> Return("user")
    /\ status' = "accepted"
    /\ UNCHANGED <<world, producers, epochs, completionWaiters, ret, rec,
                   observed, target>>

\* After publication: BULK work returns, FINAL waits for its result.
Published == IF rec.type = "FINAL" THEN Goto("user", "finish") /\ UNCHANGED op
                                   ELSE Return("user")

\* wake_async_stream_for_record: only a parked coordinator, or one that
\* spins on the epoch, needs the epoch to move.
RecordExchange ==
    /\ At("user", "recWake")
    /\ coordinatorWaiting' = FALSE
    /\ IF coordinatorWaiting
          THEN Goto("user", "recNotify") /\ UNCHANGED <<moved, op>>
          ELSE /\ IF SpinIters THEN BumpEpoch ELSE UNCHANGED moved
               /\ Published
    /\ UNCHANGED <<world, call, producers, completionWaiters, asleep, ret>>

RecordNotify ==
    /\ At("user", "recNotify")
    /\ BumpEpoch
    /\ Notify("epoch")
    /\ Published
    /\ UNCHANGED <<world, call, producers, completionWaiters,
                   coordinatorWaiting, ret>>

\* wait_for_async_enqueue_slot: throw, try again, or wait for a retirement.
WaitForSlot ==
    /\ At("user", "slot")
    /\ IF lc.failed \/ ~lc.active \/ ~lc.accepting
          THEN Return("user") /\ UNCHANGED <<ret, observed>>
          ELSE /\ IF ~QueueFull
                    THEN Goto("user", "try") /\ UNCHANGED <<ret, observed>>
                    ELSE /\ observed' = [observed EXCEPT !["user"] = completed]
                         /\ Call("user", "change", "slot")
               /\ UNCHANGED op
    /\ UNCHANGED <<world, parking, rec, status, target>>

(* finish_async_streaming, entered behind FINAL, which armed the finish.   *)

FinishStart ==
    /\ At("user", "finish")
    /\ Goto("user", IF lc.active THEN "finWait" ELSE "finEnd")
    /\ UNCHANGED <<world, parking, locals>>

FinishWait ==
    /\ At("user", "finWait")
    /\ IF completed < lc.target /\ ~lc.failed /\ ~lc.cancel
          THEN /\ observed' = [observed EXCEPT !["user"] = completed]
               /\ Call("user", "change", "finWait")
          ELSE Goto("user", "finCheck") /\ UNCHANGED <<ret, observed>>
    /\ UNCHANGED <<world, parking, op, rec, status, target>>

FinishCheck ==
    /\ At("user", "finCheck")
    /\ IF completed < lc.target \/ lc.failed
          THEN Call("user", "inactive", "finEnd")
          ELSE Goto("user", "finEnd") /\ UNCHANGED ret
    /\ UNCHANGED <<world, parking, call, op>>

\* Rethrow the session's failure, or return the published result.
FinishEnd ==
    /\ At("user", "finEnd")
    /\ Return("user")
    /\ UNCHANGED <<world, parking, call, ret>>

----------------------------------------------------------------------------
(* streaming_result and get_obs_corrections: synchronize_async_streaming,  *)
(* then a copy of the latest publication.                                  *)

ReadStart(t) ==
    /\ MayStart(t, "read")
    /\ op' = [op EXCEPT ![t] = "read"]
    /\ Call(t, "wpAdvertise", "syncTarget")
    /\ UNCHANGED <<world, parking, call>>

SyncTarget(t) ==
    /\ At(t, "syncTarget")
    /\ target' = [target EXCEPT ![t] = submitted]
    /\ Call(t, "wake", "syncWait")
    /\ UNCHANGED <<world, parking, op, rec, status, observed>>

SyncWait(t) ==
    /\ At(t, "syncWait")
    /\ IF completed < target[t]
          THEN /\ observed' = [observed EXCEPT ![t] = completed]
               /\ Call(t, "change", "syncWait")
               /\ UNCHANGED <<op, target>>
          ELSE Return(t) /\ target' = [target EXCEPT ![t] = 0]
                         /\ UNCHANGED <<ret, observed>>
    /\ UNCHANGED <<world, parking, rec, status>>

----------------------------------------------------------------------------
(* clear_corrections: drain an open session, then consume the shot.        *)

ClearStart == Start("user", "clear", "clear") /\ UNCHANGED rec

\* drain_async_streaming stops publication ...
Clear ==
    /\ At("user", "clear")
    /\ IF lc.active
          THEN /\ lc' = [lc EXCEPT !.accepting = FALSE]
               /\ Call("user", "wpAdvertise", "drain")
          ELSE Goto("user", "clearApply") /\ UNCHANGED <<lc, ret>>
    /\ UNCHANGED <<engine, parking, ring, results, call, finalized, inFlight,
                   op>>

\* ... asks for an end without a flush, and waits it out.
Drain ==
    /\ At("user", "drain")
    /\ lc' = [lc EXCEPT !.target = submitted, !.flush = FALSE, !.finish = TRUE]
    /\ Call("user", "wake", "drainWait")
    /\ UNCHANGED <<engine, parking, ring, results, call, finalized, inFlight,
                   op>>

DrainWait ==
    /\ At("user", "drainWait")
    /\ Call("user", "inactive", "drainEnd")
    /\ UNCHANGED <<world, parking, call, op>>

DrainEnd ==
    /\ At("user", "drainEnd")
    /\ IF lc.failed THEN Return("user")
                    ELSE Goto("user", "clearApply") /\ UNCHANGED op
    /\ UNCHANGED <<world, parking, call, ret>>

\* The body runs under in_flight_guard, which refuses a graph in use.  A
\* failed result is not consumed away (consume_streaming_result).
ClearApply ==
    /\ At("user", "clearApply")
    /\ Return("user")
    /\ IF inFlight = 0
          THEN /\ finalized' = FALSE /\ snapshot' = "none"
               /\ result' = IF result = "failed" THEN "failed" ELSE "pending"
          ELSE UNCHANGED <<results, finalized>>
    /\ UNCHANGED <<engine, parking, ring, call, lc, inFlight, ret>>

----------------------------------------------------------------------------
(* reset_decoder: cancel an open session, then reset every node.           *)

ResetStart(t) == Start(t, "reset", "reset") /\ UNCHANGED rec

\* cancel_async_streaming stops publication ...
Reset(t) ==
    /\ At(t, "reset")
    /\ IF lc.active
          THEN /\ lc' = [lc EXCEPT !.accepting = FALSE]
               /\ Call(t, "wpAdvertise", "cancel")
          ELSE Goto(t, "resetApply") /\ UNCHANGED <<lc, ret>>
    /\ UNCHANGED <<engine, parking, ring, results, call, finalized, inFlight,
                   op>>

\* ... requests the cancel, and waits for the coordinator to release.
Cancel(t) ==
    /\ At(t, "cancel")
    /\ lc' = [lc EXCEPT !.cancel = TRUE]
    /\ Call(t, "wake", "cancelWait")
    /\ UNCHANGED <<engine, parking, ring, results, call, finalized, inFlight,
                   op>>

CancelWait(t) ==
    /\ At(t, "cancelWait")
    /\ Call(t, "inactive", IF op[t] = "destroy" THEN "shutdown" ELSE "cancelEnd")
    /\ UNCHANGED <<world, parking, call, op>>

CancelEnd(t) ==
    /\ At(t, "cancelEnd")
    /\ lc' = [lc EXCEPT !.failed = FALSE]
    /\ snapshot' = "none"
    /\ Goto(t, "resetApply")
    /\ UNCHANGED <<engine, parking, ring, locals, finalized, inFlight, result>>

\* The body, under in_flight_guard: a node that throws leaves the graph
\* failed and still in need of a reset.
ResetApply(t) ==
    /\ At(t, "resetApply")
    /\ Return(t)
    /\ IF inFlight # 0
          THEN UNCHANGED <<results, lc, finalized>>
          ELSE /\ finalized' = FALSE /\ snapshot' = "none"
               /\ \E ok \in BOOLEAN :
                    /\ lc' = [lc EXCEPT !.needsReset = ~ok]
                    /\ result' = IF ok THEN "pending" ELSE "failed"
    /\ UNCHANGED <<engine, parking, ring, call, inFlight, ret>>

----------------------------------------------------------------------------
(* ~decoding_task_graph: shutdown_async_streaming.                         *)

DestroyStart ==
    /\ MayStart("user", "destroy")
    /\ op' = [op EXCEPT !["user"] = "destroy"]
    /\ IF lc.active
          THEN /\ lc' = [lc EXCEPT !.accepting = FALSE, !.cancel = TRUE]
               /\ Call("user", "wake", "cancelWait")
          ELSE Goto("user", "shutdown") /\ UNCHANGED <<lc, ret>>
    /\ UNCHANGED <<engine, parking, ring, results, call, finalized, inFlight>>

Shutdown ==
    /\ At("user", "shutdown")
    /\ lc' = [lc EXCEPT !.shutdown = TRUE]
    /\ Call("user", "wake", "join")
    /\ UNCHANGED <<engine, parking, ring, results, call, finalized, inFlight,
                   op>>

\* thread.join() returns once the coordinator has left its loop.
Join ==
    /\ At("user", "join") /\ pc["coord"] = "exit"
    /\ Return("user")
    /\ UNCHANGED <<world, parking, call, ret>>

----------------------------------------------------------------------------
(* wait_for_async_wake, on behalf of the loop or of the dispatcher.        *)

WorkReady ==
    IF frame = "loop"
       THEN lc.active /\ completed < submitted
       ELSE stop \/ PrefixDone \/ (admitted < submitted /\ Free)

\* The dispatcher spins longer while records are in flight, and so always.
Spins == lc.active /\ (SpinIters \/ (frame = "dispatch" /\ ctxs # <<>>))

Resume == IF frame = "loop" THEN "check" ELSE "step"

SpinWake ==
    /\ At("coord", "wait") /\ Spins /\ moved[frame]
    /\ moved' = [moved EXCEPT ![frame] = FALSE]
    /\ Goto("coord", Resume)
    /\ UNCHANGED <<world, locals, producers, completionWaiters,
                   coordinatorWaiting, asleep>>

Advertise ==
    /\ At("coord", "wait") /\ ~(Spins /\ moved[frame])
    /\ coordinatorWaiting' = TRUE
    /\ Goto("coord", "ready")
    /\ UNCHANGED <<world, locals, producers, completionWaiters, moved, asleep>>

CheckReady ==
    /\ At("coord", "ready")
    /\ Goto("coord", IF WorkReady THEN "withdraw" ELSE "park")
    /\ UNCHANGED <<world, parking, locals>>

Park ==
    /\ At("coord", "park")
    /\ IF moved[frame]
          THEN Goto("coord", "withdraw") /\ UNCHANGED asleep
          ELSE Sleep("coord", "epoch") /\ UNCHANGED pc
    /\ UNCHANGED <<world, locals, producers, epochs, completionWaiters>>

Withdraw ==
    /\ At("coord", "withdraw")
    /\ coordinatorWaiting' = FALSE
    /\ Goto("coord", "observe")
    /\ UNCHANGED <<world, locals, producers, completionWaiters, moved, asleep>>

Observe ==
    /\ At("coord", "observe")
    /\ moved' = [moved EXCEPT ![frame] = FALSE]
    /\ Goto("coord", Resume)
    /\ UNCHANGED <<world, locals, producers, completionWaiters,
                   coordinatorWaiting, asleep>>

----------------------------------------------------------------------------
(* async_stream_loop.                                                      *)

LoopCheck ==
    /\ At("coord", "check")
    /\ IF ~lc.shutdown /\ lc.active /\ ~lc.cancel /\ ~lc.failed
          THEN \* run_async_session: begin_session, then the dispatcher
               /\ frame' = "dispatch"
               /\ admitted' = completed /\ cutAt' = 0
               /\ finalPending' = FALSE /\ flushAdmitted' = FALSE
               /\ progressed' = FALSE
               /\ moved' = [moved EXCEPT !["dispatch"] = FALSE]
               /\ stop' = FALSE /\ stopError' = FALSE /\ idleFailed' = 0
               /\ Goto("coord", "step")
          ELSE /\ Goto("coord", IF lc.shutdown THEN "exit"
                                ELSE IF ~lc.active THEN "wait"
                                ELSE IF lc.cancel THEN "cancelled" ELSE "ending")
               /\ UNCHANGED <<admission, moved, frame, progressed, stop,
                              stopError, idleFailed>>
    /\ UNCHANGED <<store, locals, producers, completionWaiters,
                   coordinatorWaiting, asleep, ctxs, running, strays,
                   workerWaking>>

\* Back from a session, its workers joined: honour a cancel first.
SessionOver ==
    /\ At("coord", "over") /\ strays = 0
    /\ Goto("coord", IF lc.cancel THEN "cancelled" ELSE "ending")
    /\ UNCHANGED <<world, parking, locals>>

\* A failed session keeps the graph until a finish or a cancel asks for it.
Ending ==
    /\ At("coord", "ending")
    /\ Goto("coord", IF lc.finish /\ completed >= lc.target
                        THEN "deactivate" ELSE "wait")
    /\ UNCHANGED <<world, parking, locals>>

\* Mutant: a cancel leaves the queued records outstanding.
CancelledOutstanding ==
    /\ At("coord", "cancelled")
    /\ lc' = [lc EXCEPT !.needsReset = TRUE]
    /\ Goto("coord", "cancelNotify")
    /\ UNCHANGED <<engine, parking, ring, results, locals, finalized,
                   inFlight>>

\* Mutant: a cancelled graph may be used again without a reset.
CancelledUsable ==
    /\ At("coord", "cancelled")
    /\ completed' = submitted
    /\ Goto("coord", "cancelNotify")
    /\ UNCHANGED <<engine, parking, graph, results, locals, slots, submitted>>

\* cancel: every accepted record counts as completed.
Cancelled ==
    /\ At("coord", "cancelled")
    /\ lc' = [lc EXCEPT !.needsReset = TRUE]
    /\ completed' = submitted
    /\ Goto("coord", "cancelNotify")
    /\ UNCHANGED <<engine, parking, results, locals, slots, submitted,
                   finalized, inFlight>>

\* Mutant: retiring a record notifies nobody.
NotifyNobody(label, next) ==
    /\ At("coord", label)
    /\ Goto("coord", next)
    /\ UNCHANGED <<world, parking, locals>>

\* notify_completion_waiters, after a store to completed.
CompletionNotify(label, next) ==
    /\ At("coord", label)
    /\ IF completionWaiters # 0 THEN Notify("completed") ELSE UNCHANGED asleep
    /\ Goto("coord", next)
    /\ UNCHANGED <<world, locals, producers, epochs, completionWaiters>>

\* Mutant: the session reads as inactive before the graph is released.
InactiveFirst ==
    /\ At("coord", "deactivate")
    /\ lc' = [lc EXCEPT !.accepting = FALSE, !.flush = FALSE, !.cancel = FALSE,
                        !.active = FALSE]
    /\ Notify("active")
    /\ Goto("coord", "inactivate")
    /\ UNCHANGED <<engine, ring, results, locals, producers, epochs, finalized,
                   inFlight, completionWaiters>>

\* deactivate: the graph is released before the session reads as inactive.
Deactivate ==
    /\ At("coord", "deactivate")
    /\ lc' = [lc EXCEPT !.accepting = FALSE, !.flush = FALSE, !.cancel = FALSE]
    /\ inFlight' = inFlight - 1
    /\ Goto("coord", "inactivate")
    /\ UNCHANGED <<engine, parking, ring, results, locals, finalized>>

\* Mutant: the single-flight token is given back twice.
ReleaseTwice ==
    /\ At("coord", "inactivate")
    /\ lc' = [lc EXCEPT !.active = FALSE]
    /\ inFlight' = inFlight - 1
    /\ Notify("active")
    /\ Goto("coord", "wait")
    /\ UNCHANGED <<engine, ring, results, locals, producers, epochs, finalized,
                   completionWaiters>>

Inactivate ==
    /\ At("coord", "inactivate")
    /\ lc' = [lc EXCEPT !.active = FALSE]
    /\ Notify("active")
    /\ Goto("coord", "wait")
    /\ UNCHANGED <<engine, ring, results, locals, producers, epochs, finalized,
                   inFlight, completionWaiters>>

----------------------------------------------------------------------------
(* dispatch_async_session, one iteration: stop, retire, admit, flush, end. *)
(* The code retires, and activates, a run of contexts between two loads of *)
(* the shared state; here each context is a step, so the threads may also  *)
(* act in between.                                                         *)

\* Mutant: a stopped session does not wait for its workers.
IdleAtOnce == TRUE

\* wait_until_idle_locked has nothing left to wait for.
WorkersIdle == running = 0

\* A stopped session waits for executing workers; a cancel stops one.
Step ==
    /\ At("coord", "step")
    /\ progressed' = FALSE
    /\ IF stop
          THEN /\ WorkersIdle
               /\ Goto("coord", IF stopError THEN "fail" ELSE "discard")
               /\ UNCHANGED stop
          ELSE IF lc.cancel
             THEN stop' = TRUE /\ UNCHANGED pc
             ELSE Goto("coord", "retire") /\ UNCHANGED stop
    /\ UNCHANGED <<store, parking, locals, admission, frame, ctxs, stopError,
                   running, strays, workerWaking, idleFailed>>

\* retire_record_context, oldest first.  A flush closes the shot.  Only what
\* changed the result is published, so a BULK record may leave the snapshot.
Retire ==
    /\ At("coord", "retire") /\ PrefixDone
    /\ LET c == Head(ctxs) IN
         /\ result' = IF c.flush THEN "final" ELSE "partial"
         /\ finalized' = (finalized \/ c.flush)
         /\ snapshot' \in IF c.flush THEN {result'}
                          ELSE IF c.closes THEN {snapshot, result'} ELSE {snapshot}
         /\ completed' = IF c.closes THEN c.seq + 1 ELSE completed
         /\ Goto("coord", IF c.closes THEN "retireNotify" ELSE "retire")
    /\ ctxs' = Tail(ctxs)
    /\ progressed' = TRUE
    /\ UNCHANGED <<parking, locals, sched, admission, slots, submitted, lc,
                   inFlight, frame>>

RetireDone ==
    /\ At("coord", "retire") /\ ~PrefixDone
    /\ Goto("coord", "admit")
    /\ UNCHANGED <<world, parking, locals>>

SlotAt(n) == slots[n % Capacity]

\* A tagged record longer than record_bytes is admitted in pieces.
Cut == /\ RecordBytes # 0 /\ SlotAt(admitted).type # "NONE"
       /\ cutAt # 0 \/ SlotAt(admitted).len > RecordBytes

\* BULK records queued behind a BULK record join it while they fit a batch.
SumLens(n) == LET sum[k \in 0..n] ==
                    IF k = 0 THEN 0 ELSE sum[k - 1] + SlotAt(admitted + k - 1).len
              IN  sum[n]

Joins(n) ==
    /\ \A k \in 0..(n - 1) : SlotAt(admitted + k).type = "BULK"
    /\ SumLens(n) <= RecordBytes

Take ==
    IF RecordBytes = 0 \/ ~Joins(1) THEN 1
    ELSE CHOOSE n \in 1..(submitted - admitted) :
            /\ Joins(n)
            /\ n = submitted - admitted \/ ~Joins(n + 1)

\* Mutants: every piece closes its record; FINAL does not wait for its flush.
ClosesEachPiece(type, last) == type # "FINAL"
ClosesFinal(type, last) == last

\* Retiring the last piece closes the ring sequence; FINAL's flush closes it.
Closes(type, last) == last /\ type # "FINAL"

\* The context the record at `admitted' fills: what it covers, whether it
\* reads its slot in place, and whether retiring it closes a ring sequence.
Piece ==
    LET s == SlotAt(admitted)
        size == IF Cut /\ RecordBytes < s.len - cutAt THEN RecordBytes
                                                      ELSE s.len - cutAt
        last == cutAt + size = s.len
        take == IF Cut THEN 1 ELSE Take
    IN  [first |-> admitted, seq |-> admitted + take - 1, lo |-> cutAt,
         hi |-> cutAt + size, last |-> last, inPlace |-> take = 1,
         closes |-> Closes(s.type, last), flush |-> FALSE, exec |-> "ready"]

\* Mutant: the next record starts where the last cut left off.
CutCarriesOver(c) == c.hi

\* Bytes of the record at `admitted' already admitted, after context c.
CutAfter(c) == IF c.last THEN 0 ELSE c.hi

Admit ==
    /\ At("coord", "admit") /\ admitted < submitted /\ Free
    /\ LET c == Piece IN
         /\ ctxs' = Append(ctxs, c)
         /\ cutAt' = CutAfter(c)
         /\ admitted' = IF c.last THEN c.seq + 1 ELSE admitted
         /\ finalPending' =
              (finalPending \/ (c.last /\ SlotAt(admitted).type = "FINAL"))
    /\ progressed' = TRUE
    /\ UNCHANGED <<store, parking, locals, sched, frame, flushAdmitted, pc>>

AdmitDone ==
    /\ At("coord", "admit") /\ ~(admitted < submitted /\ Free)
    /\ Goto("coord", "flush")
    /\ UNCHANGED <<world, parking, locals>>

\* FINAL's flush follows it as a context of its own.
FlushAdmit ==
    /\ At("coord", "flush") /\ finalPending /\ ~flushAdmitted /\ Free
    /\ ctxs' = Append(ctxs,
         [first |-> admitted - 1, seq |-> admitted - 1, lo |-> 0, hi |-> 0,
          last |-> TRUE, inPlace |-> FALSE, closes |-> TRUE, flush |-> TRUE,
          exec |-> "ready"])
    /\ flushAdmitted' = TRUE
    /\ Goto("coord", "step")
    /\ UNCHANGED <<store, parking, locals, sched, frame, admitted, cutAt,
                   finalPending, progressed>>

MayEnd == /\ lc.finish /\ admitted >= lc.target /\ ctxs = <<>>
          /\ flushAdmitted \/ finalized \/ ~lc.flush

EndSession ==
    /\ At("coord", "flush")
    /\ ~(finalPending /\ ~flushAdmitted /\ Free) /\ MayEnd
    /\ frame' = "loop"
    /\ Goto("coord", "over")
    /\ UNCHANGED <<store, parking, locals, sched, admission, ctxs, progressed>>

StepAgain ==
    /\ At("coord", "flush")
    /\ ~(finalPending /\ ~flushAdmitted /\ Free) /\ ~MayEnd
    /\ Goto("coord", IF progressed THEN "step" ELSE "wait")
    /\ UNCHANGED <<world, parking, locals>>

----------------------------------------------------------------------------
(* handle_async_stream_error and store_async_stream_error.                 *)

\* Mutant: a failed graph may be used again without a reset.
FailWithoutReset ==
    /\ At("coord", "fail")
    /\ result' = "failed" /\ snapshot' = "failed"
    /\ lc' = [lc EXCEPT !.failed = TRUE]
    /\ Goto("coord", "failClose")
    /\ UNCHANGED <<engine, parking, ring, locals, finalized, inFlight>>

Fail ==
    /\ At("coord", "fail")
    /\ result' = "failed" /\ snapshot' = "failed"
    /\ lc' = [lc EXCEPT !.needsReset = TRUE, !.failed = TRUE]
    /\ Goto("coord", "failClose")
    /\ UNCHANGED <<engine, parking, ring, locals, finalized, inFlight>>

FailClose ==
    /\ At("coord", "failClose")
    /\ lc' = [lc EXCEPT !.accepting = FALSE]
    /\ Call("coord", "wpAdvertise", "failCover")
    /\ UNCHANGED <<engine, parking, ring, results, call, finalized, inFlight,
                   op>>

\* Every sequence accepted before publication stopped counts as completed.
FailCover ==
    /\ At("coord", "failCover")
    /\ completed' = submitted
    /\ Goto("coord", "failNotify")
    /\ UNCHANGED <<engine, parking, graph, results, locals, slots, submitted>>

\* discard_all: drop every context of a cancelled or failed session.  The
\* workers executing one, if there are any, return on their own.
Discard ==
    /\ At("coord", "discard")
    /\ ctxs' = <<>> /\ stop' = FALSE /\ stopError' = FALSE
    /\ strays' = Cardinality({i \in DOMAIN ctxs : ctxs[i].exec = "running"})
    /\ frame' = "loop"
    /\ Goto("coord", "over")
    /\ UNCHANGED <<store, parking, locals, admission, progressed, running,
                   workerWaking, idleFailed>>

----------------------------------------------------------------------------
(* Pool workers (execute_loop), for which a context is one event.          *)

SetExec(i, value) == ctxs' = [ctxs EXCEPT ![i].exec = value]

\* "if (running != 0) --running"
CountOut == IF running # 0 THEN running - 1 ELSE 0

WorkerClaim(i) ==
    /\ frame = "dispatch" /\ ~workerWaking /\ ~stop
    /\ ctxs[i].exec = "ready"
    /\ SetExec(i, "running")
    /\ running' = running + 1
    /\ UNCHANGED <<store, parking, locals, admission, frame, progressed, stop,
                   stopError, strays, workerWaking, idleFailed, pc>>

\* finish_locked: a stopped session only counts the worker out; otherwise the
\* context is complete and the coordinator is woken under the lock.
WorkerFinish(i) ==
    /\ ~workerWaking /\ ctxs[i].exec = "running"
    /\ running' = CountOut
    /\ IF stop
          THEN SetExec(i, "dropped") /\ UNCHANGED <<moved, workerWaking>>
          ELSE SetExec(i, "done") /\ BumpEpoch /\ workerWaking' = TRUE
    /\ UNCHANGED <<store, locals, admission, producers, completionWaiters,
                   coordinatorWaiting, asleep, frame, progressed, stop,
                   stopError, strays, idleFailed, pc>>

\* fail: a worker whose event threw.
WorkerFail(i) ==
    /\ ~workerWaking /\ ctxs[i].exec = "running"
    /\ SetExec(i, "dropped")
    /\ stop' = TRUE /\ stopError' = TRUE
    /\ running' = CountOut
    /\ BumpEpoch /\ workerWaking' = TRUE
    /\ UNCHANGED <<store, locals, admission, producers, completionWaiters,
                   coordinatorWaiting, asleep, frame, progressed, strays,
                   idleFailed, pc>>

\* fail: a worker that could not select its device, and so held no event.
WorkerIdleFail ==
    /\ frame = "dispatch" /\ ~workerWaking /\ idleFailed < IdleFailures
    /\ pc["coord"] \notin {"discard", "over"}
    /\ idleFailed' = idleFailed + 1
    /\ stop' = TRUE /\ stopError' = TRUE
    /\ running' = CountOut
    /\ BumpEpoch /\ workerWaking' = TRUE
    /\ UNCHANGED <<store, locals, dispatch, producers, completionWaiters,
                   coordinatorWaiting, asleep, strays, pc>>

\* The rest of the worker's wake_async_stream.
WorkerNotify ==
    /\ workerWaking
    /\ workerWaking' = FALSE
    /\ IF coordinatorWaiting THEN Notify("epoch") ELSE UNCHANGED asleep
    /\ UNCHANGED <<store, locals, dispatch, producers, epochs,
                   completionWaiters, stop, stopError, running, strays,
                   idleFailed, pc>>

\* A worker comes back from a context that was discarded under it.
StrayReturns ==
    /\ strays # 0
    /\ strays' = strays - 1
    /\ UNCHANGED <<store, parking, locals, dispatch, stop, stopError, running,
                   workerWaking, idleFailed, pc>>

----------------------------------------------------------------------------
CallerNext(t) ==
    \/ ProducerAdvertise(t) \/ ProducerCheck(t)
    \/ ChangeSpin(t) \/ ChangeAdvertise(t) \/ ChangeCheck(t)
    \/ Inactive(t) \/ WakeBump(t) \/ WakeNotify(t)
    \/ SyncTarget(t) \/ SyncWait(t)
    \/ Reset(t) \/ Cancel(t) \/ CancelWait(t) \/ CancelEnd(t) \/ ResetApply(t)

\* The steps of the calls only the user makes.
UserNext ==
    \/ Enqueue \/ BeginAccepting \/ TryGuard \/ TryCheck \/ TryWrite \/ TryPublish
    \/ ReleaseProducer \/ ReleaseNotify \/ RecordExchange \/ RecordNotify
    \/ WaitForSlot \/ FinishStart \/ FinishWait \/ FinishCheck \/ FinishEnd
    \/ Clear \/ Drain \/ DrainWait \/ DrainEnd \/ ClearApply
    \/ Shutdown \/ Join

\* A caller decides to make a call.
StartNext ==
    \/ \E r \in Records : EnqueueStart(r)
    \/ ClearStart \/ DestroyStart
    \/ \E t \in Callers : ReadStart(t) \/ ResetStart(t)

CoordNext ==
    \/ ProducerAdvertise("coord") \/ ProducerCheck("coord")
    \/ SpinWake \/ Advertise \/ CheckReady \/ Park \/ Withdraw \/ Observe
    \/ LoopCheck \/ SessionOver \/ Ending \/ Cancelled
    \/ CompletionNotify("cancelNotify", "deactivate")
    \/ Deactivate \/ Inactivate
    \/ Step \/ Retire \/ CompletionNotify("retireNotify", "retire")
    \/ RetireDone \/ Admit \/ AdmitDone \/ FlushAdmit \/ EndSession \/ StepAgain
    \/ Fail \/ FailClose \/ FailCover
    \/ CompletionNotify("failNotify", "discard") \/ Discard

WorkerNext ==
    \/ \E i \in DOMAIN ctxs : WorkerClaim(i) \/ WorkerFinish(i) \/ WorkerFail(i)
    \/ WorkerIdleFail \/ WorkerNotify \/ StrayReturns

\* After the destructor nothing is left to do.
Destroyed == lc.shutdown /\ pc["user"] = "idle" /\ UNCHANGED vars

Next ==
    \/ \E t \in Callers : CallerNext(t)
    \/ UserNext \/ StartNext \/ CoordNext \/ WorkerNext \/ Destroyed

Spec == Init /\ [][Next]_vars

\* The fairness of a preemptive scheduler and of decoders that return:
\* every thread that can run does, an executing worker finishes (or fails),
\* and ready contexts are claimed.  Callers need not make another call.  A
\* thread waiting for the producer is not starved by calls that are refused
\* again and again: one of its re-checks falls outside the short guarded
\* section (strong fairness; the flag is down between any two calls).
Fairness ==
    /\ WF_vars(CallerNext("user") \/ UserNext)
    /\ WF_vars(CallerNext("ctl"))
    /\ WF_vars(CoordNext)
    /\ \A t \in {"ctl", "coord"} : SF_vars(~producerActive /\ ProducerCheck(t))
    /\ WF_vars(WorkerNotify \/ StrayReturns)
    /\ \A i \in 1..Contexts :
         /\ WF_vars(i \in DOMAIN ctxs /\ WorkerClaim(i))
         /\ WF_vars(i \in DOMAIN ctxs /\ (WorkerFinish(i) \/ WorkerFail(i)))

FairSpec == Spec /\ Fairness

----------------------------------------------------------------------------
(* Properties.                                                             *)

Labels == {"idle", "wpAdvertise", "wpCheck", "change", "changeCheck", "inactive",
           "wake", "wakeNotify", "enq", "accept", "try", "tryCheck", "write",
           "publish", "release", "releaseNotify", "recWake", "recNotify", "slot",
           "finish", "finWait", "finCheck", "finEnd", "syncTarget", "syncWait",
           "clear", "drain", "drainWait", "drainEnd", "clearApply", "reset",
           "cancel", "cancelWait", "cancelEnd", "resetApply", "shutdown", "join",
           "wait", "ready", "park", "withdraw", "observe", "check", "over",
           "ending", "cancelled", "cancelNotify", "deactivate", "inactivate",
           "step", "retire", "retireNotify", "admit", "flush", "fail",
           "failClose", "failCover", "failNotify", "discard", "exit"}

ContextRange ==
    [first : Nat, seq : Nat, lo : Nat, hi : Nat, last : BOOLEAN,
     inPlace : BOOLEAN, closes : BOOLEAN, flush : BOOLEAN,
     exec : {"ready", "running", "done", "dropped"}]

RingType ==
    /\ slots \in [0..(Capacity - 1) -> SlotRange]
    /\ submitted \in Nat /\ completed \in Nat

LifecycleFlags ==
    [active : BOOLEAN, accepting : BOOLEAN, failed : BOOLEAN, finish : BOOLEAN,
     flush : BOOLEAN, cancel : BOOLEAN, shutdown : BOOLEAN, target : Nat,
     needsReset : BOOLEAN]

GraphType ==
    /\ lc \in LifecycleFlags
    /\ finalized \in BOOLEAN /\ inFlight \in {0, 1}
    /\ result \in {"pending", "partial", "final", "failed"}
    /\ snapshot \in {"none", "pending", "partial", "final", "failed"}

ParkingType ==
    /\ producerActive \in BOOLEAN /\ producerWaiters \in 0..3
    /\ completionWaiters \in 0..2 /\ coordinatorWaiting \in BOOLEAN
    /\ moved \in [Frames -> BOOLEAN]
    /\ asleep \in [Threads -> {"none", "producer", "completed", "active", "epoch"}]

ControlType ==
    /\ pc \in [Threads -> Labels] /\ ret \in [Threads -> Labels]
    /\ op \in [Callers -> {"none", "enqueue", "read", "clear", "reset", "destroy"}]
    /\ rec \in Records
    /\ status \in {"accepted", "queue_full", "failed", "closed"}

WaitType == observed \in [Callers -> Nat] /\ target \in [Callers -> Nat]

DispatchType ==
    /\ frame \in Frames /\ ctxs \in Seq(ContextRange) /\ Len(ctxs) <= Contexts
    /\ admitted \in Nat /\ cutAt \in Nat
    /\ finalPending \in BOOLEAN /\ flushAdmitted \in BOOLEAN
    /\ progressed \in BOOLEAN

SchedType ==
    /\ stop \in BOOLEAN /\ stopError \in BOOLEAN /\ running \in 0..Contexts
    /\ strays \in 0..Contexts
    /\ workerWaking \in BOOLEAN /\ idleFailed \in 0..IdleFailures

\* Type correctness; the counters stay within the ring and the contexts.
TypeOK ==
    /\ RingType /\ GraphType /\ ParkingType /\ ControlType /\ WaitType
    /\ DispatchType /\ SchedType

\* Ring bound: the producer is never more than the ring ahead of the last
\* retired record, and nothing is retired that was not submitted (the check
\* of try_enqueue_syndrome_async against completed, with a failure, a cancel
\* and a drain moving the counters from the other side).
RingBound == completed <= submitted /\ submitted - completed <= Capacity

\* No slot is overwritten while the coordinator or a worker still needs it:
\* every record not yet retired, and every context that reads its slot in
\* place, still finds its own record there ("the completed counter prevents
\* slot reuse").
SlotsHeld ==
    /\ \A n \in completed..(submitted - 1) : SlotAt(n).id = n
    /\ \A i \in DOMAIN ctxs :
         ctxs[i].inPlace /\ ~ctxs[i].flush => SlotAt(ctxs[i].seq).id = ctxs[i].seq

\* The context after c starts where c stops.
Follows(c, d) ==
    IF ~c.last THEN d.first = c.first /\ d.lo = c.hi
    ELSE IF d.flush THEN d.first = c.seq
    ELSE d.first = c.seq + 1 /\ d.lo = 0

\* Records reach the result exactly once and in order, whatever is cut or
\* joined: in a running session the contexts in flight tile the stream from
\* the first record not retired to the point admission has reached.
InOrder ==
    frame = "dispatch" /\ pc["coord"] \notin {"failNotify", "discard"} =>
      /\ \A i \in 1..(Len(ctxs) - 1) : Follows(ctxs[i], ctxs[i + 1])
      /\ IF ctxs = <<>>
            THEN admitted = completed + (IF finalPending /\ ~flushAdmitted THEN 1 ELSE 0)
            ELSE LET c == ctxs[Len(ctxs)] IN
                   /\ ctxs[1].first = completed
                   /\ IF c.last THEN admitted = c.seq + 1 /\ cutAt = 0
                               ELSE admitted = c.first /\ cutAt = c.hi

\* No lifecycle call is refused: by the time clear_corrections, reset_decoder
\* or a new session asks for the single-flight token, the previous session has
\* given it back (settle, drain and cancel wait for the session to be inactive,
\* "Release graph exclusivity before publishing inactive").
NeverRefused ==
    /\ \A t \in Callers : pc[t] \in {"clearApply", "resetApply"} => inFlight = 0
    /\ pc["user"] = "enq" /\ ~lc.active => inFlight = 0

\* A session that has released the graph leaves nothing behind: every record
\* it accepted is accounted for and no context is in use, however it ended.
InactiveIsClean == ~lc.active => completed = submitted /\ ctxs = <<>>

\* Every session starts on a graph that is neither failed nor closed, with an
\* empty ring: a failure or a cancel cannot be skipped over without a reset.
CleanStart ==
    [][~lc.active /\ lc'.active =>
         result # "failed" /\ ~finalized /\ completed = submitted]_vars

\* FINAL hands out the whole shot: a call that returns without a failure has
\* the flushed result published, every record of the shot folded into it.
FinalIsWhole ==
    pc["user"] = "finEnd" /\ ~lc.failed /\ ~lc.needsReset =>
      completed >= lc.target /\ finalized /\ snapshot = "final"

\* A target that counts as completed has been decoded or reset away: when a
\* FINAL returns on a graph that reads as sound, either the whole shot is
\* published, or a watchdog's reset has released the graph and withdrawn what
\* the shot had published, so no part of it can be mistaken for its answer (a
\* cancel marks every record completed, as retiring the flush does).
FinalWholeOrReset ==
    pc["user"] = "finEnd" /\ ~lc.failed /\ ~lc.needsReset =>
      \/ completed >= lc.target /\ finalized /\ snapshot = "final"
      \/ ~lc.active /\ snapshot = "none"

\* No call blocks for good: every caller is out of its call again, because no
\* wake-up is lost, and a finish, a cancel and a failure always end the session
\* some call waits for.
CallsReturn == \A t \in Callers : []<>(op[t] = "none")

\* A stopped session drops its contexts from under no more workers than
\* failed holding no record: fail() counts one worker out whether or not it
\* was counted in ("if (running != 0) --running"), so each such failure lets
\* wait_until_idle_locked miss one executing worker, and nothing else does.
DiscardCountsWorkers ==
    pc["coord"] = "discard" =>
      Cardinality({i \in DOMAIN ctxs : ctxs[i].exec = "running"}) <= idleFailed

\* A cancel asks "to discard queued sequences after any currently executing
\* decoder returns" (the comment of cancel_async_streaming): its contexts are
\* dropped only when no worker runs one.
DiscardAfterWorkers ==
    lc.cancel /\ pc["coord"] = "discard" =>
      \A i \in DOMAIN ctxs : ctxs[i].exec # "running"

\* The stream as its callers know it: a bounded queue folded in order.
RS == INSTANCE RecordStream WITH
    open <- lc.active, accepted <- submitted, done <- completed,
    published <- snapshot, needsReset <- lc.needsReset

\* The stream, its coordinator and its workers implement the contract of
\* begin_async_streaming to cancel_async_streaming: whatever the threads
\* interleave, a record leaves the queue folded, in its turn, or the graph
\* needs a reset; nothing enters or is folded into a shot that FINAL closed;
\* and no session opens on a graph that is failed, closed or not drained.
ImplementsRecordStream == RS!Spec
============================================================================
