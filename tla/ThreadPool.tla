----------------------------- MODULE ThreadPool -----------------------------
(***************************************************************************)
(* The persistent fork-join pool of libs/qec/lib/decoding_task/thread_pool *)
(* .{h,cpp}: one caller, which is worker 0, and the owned workers          *)
(* 1 .. n_threads - 1, which park on the atomic phase_ between calls.      *)
(*                                                                         *)
(* An access to a shared atomic and a critical section of                  *)
(* phase_error_mutex_ is one step.  The relaxed stores of run_phase come   *)
(* before its release increment of phase_, which is what makes an          *)
(* interleaving model of them sound; a plain field that one thread writes  *)
(* while another reads it would be a data race, which PhaseConfined rules  *)
(* out.  A task's body is abstract: it returns or it throws.               *)
(***************************************************************************)
EXTENDS Integers, FiniteSets

CONSTANTS Requested,    \* values of the constructor's num_threads
          Hardware,     \* values of std::thread::hardware_concurrency()
          Masks,        \* sizes of a RoundRobin affinity mask; 0 is no such mask
          MaxThreads,   \* bound on Requested and Hardware
          MaxTasks,     \* bound on num_tasks of one call
          MaxCalls      \* bound on the calls made on one pool

ASSUME PoolAssumption ==
    /\ Requested \subseteq Nat
    /\ Hardware \subseteq Nat
    /\ Masks \subseteq Nat
    /\ MaxThreads \in Nat \ {0}
    /\ \A n \in Requested \cup Hardware : n <= MaxThreads
    /\ MaxTasks \in Nat \ {0}
    /\ MaxCalls \in Nat

VARIABLES n_threads,    \* n_threads_, fixed by the constructor
          started,      \* workers_.size(): owned threads created so far
          phase,        \* phase_
          remaining,    \* remaining_workers_
          shutdown,     \* shutdown_
          desc,         \* current_trampoline_, current_ctx_, current_n_tasks_
          error,        \* phase_error_: the task whose exception is kept, or NoError
          error_seen,   \* phase_error_seen_
          pc,           \* where each thread is
          my_phase,     \* my_phase of each owned worker
          cur_phase,    \* current_phase of each owned worker
          local,        \* the descriptor each thread works from
          task,         \* each thread's loop index
          calls,        \* calls made so far: the identity of a callable
          ran,          \* ghost: how often each task of this call ran
          threw,        \* ghost: the tasks of this call that threw
          outcome       \* how the last call returned to its caller

shared == <<n_threads, started, phase, remaining, shutdown, desc, error, error_seen>>
private == <<pc, my_phase, cur_phase, local, task>>
observed == <<calls, ran, threw, outcome>>
vars == <<shared, private, observed>>

TaskIds == 0 .. MaxTasks - 1
Threads == 0 .. n_threads - 1
Workers == 1 .. n_threads - 1

\* phase_error_ and a call's outcome name the task whose exception they hold.
NoError == -1

\* A work descriptor: which call's callable, and how many tasks it has.
NoDescriptor == [ctx |-> 0, n |-> 0]
Descriptor == [ctx : 0 .. MaxCalls, n : 0 .. MaxTasks]

Participating == {"task", "store", "seen", "dec"}
CallerPcs == Participating \cup
    {"spawn", "affinity", "idle", "inline", "unwind", "reset", "describe", "arm", "publish",
     "notify", "join", "rethrow", "stop", "bump", "wake", "joining", "gone"}
WorkerPcs == Participating \cup
    {"unborn", "check", "wait", "parked", "load", "gate", "snap", "exited"}

-----------------------------------------------------------------------------
(* The constructor, thread_pool::thread_pool.                              *)

\* The number of threads the constructor settles on.
ResolveThreads(requested, hardware, mask) ==
    LET base == IF requested # 0 THEN requested
                ELSE IF hardware # 0 THEN hardware ELSE 1
    IN  IF mask > 0 /\ base > mask + 1 THEN mask + 1 ELSE base

Init ==
    /\ \E r \in Requested, h \in Hardware, m \in Masks :
           n_threads = ResolveThreads(r, h, m)
    /\ started = 0
    /\ phase = 0
    /\ remaining = 0
    /\ shutdown = FALSE
    /\ desc = NoDescriptor
    /\ error = NoError
    /\ error_seen = FALSE
    /\ pc = [t \in Threads |-> IF t # 0 THEN "unborn"
                               ELSE IF n_threads = 1 THEN "idle" ELSE "spawn"]
    /\ my_phase = [w \in Workers |-> 0]
    /\ cur_phase = [w \in Workers |-> 0]
    /\ local = [t \in Threads |-> NoDescriptor]
    /\ task = [t \in Threads |-> 0]
    /\ calls = 0
    /\ ran = [t \in TaskIds |-> 0]
    /\ threw = {}
    /\ outcome = NoError

Goto(t, label) == pc' = [pc EXCEPT ![t] = label]

\* workers_.emplace_back: the next owned thread exists and may run at once.
SpawnWorker ==
    /\ pc[0] = "spawn"
    /\ started' = started + 1
    /\ pc' = [pc EXCEPT ![0] = "affinity", ![started + 1] = "check"]
    /\ UNCHANGED <<n_threads, phase, remaining, shutdown, desc, error, error_seen,
                   my_phase, cur_phase, local, task, observed>>

\* apply_worker_affinity succeeded for the thread just created.
PinWorker ==
    /\ pc[0] = "affinity"
    /\ Goto(0, IF started = n_threads - 1 THEN "idle" ELSE "spawn")
    /\ UNCHANGED <<shared, my_phase, cur_phase, local, task, observed>>

\* Creating or pinning a thread throws: stop_and_join_workers, then rethrow.
\* With no thread created yet there is nothing to stop.
StartupFails ==
    /\ pc[0] \in {"spawn", "affinity"}
    /\ Goto(0, IF started = 0 THEN "gone" ELSE "stop")
    /\ UNCHANGED <<shared, my_phase, cur_phase, local, task, observed>>

-----------------------------------------------------------------------------
(* The caller: parallel_for, run_workers and run_phase.                    *)

\* A call with num tasks (run_workers is the call with num = n_threads).  A
\* pool of one thread runs it inline.  local[0] holds the arguments.
Call(num) ==
    /\ pc[0] = "idle"
    /\ calls < MaxCalls
    /\ calls' = calls + 1
    /\ local' = [local EXCEPT ![0] = [ctx |-> calls + 1, n |-> num]]
    /\ task' = [task EXCEPT ![0] = 0]
    /\ ran' = [t \in TaskIds |-> 0]
    /\ threw' = {}
    /\ Goto(0, IF n_threads = 1 THEN "inline" ELSE "reset")
    /\ UNCHANGED <<shared, my_phase, cur_phase, outcome>>

\* The body of task k of the current call: it returns, or it throws.
Body(k, returns, throws) ==
    /\ ran' = [ran EXCEPT ![k] = @ + 1]
    /\ \/ threw' = threw /\ returns
       \/ threw' = threw \cup {k} /\ throws

InlineTask ==
    /\ pc[0] = "inline"
    /\ task[0] < local[0].n
    /\ Body(task[0],
            task' = [task EXCEPT ![0] = @ + 1] /\ UNCHANGED pc,
            Goto(0, "unwind") /\ UNCHANGED task)
    /\ UNCHANGED <<shared, my_phase, cur_phase, local, calls, outcome>>

\* The loop ends, or the task's exception leaves it.
InlineReturn ==
    /\ \/ pc[0] = "inline" /\ task[0] >= local[0].n /\ outcome' = NoError
       \/ pc[0] = "unwind" /\ outcome' = task[0]
    /\ Goto(0, "idle")
    /\ UNCHANGED <<shared, my_phase, cur_phase, local, task, calls, ran, threw>>

KeepLastError ==
    /\ pc[0] = "reset"
    /\ Goto(0, "describe")
    /\ UNCHANGED <<shared, my_phase, cur_phase, local, task, observed>>

\* run_phase clears the previous call's error ...
ResetError ==
    /\ pc[0] = "reset"
    /\ error' = NoError
    /\ error_seen' = FALSE
    /\ Goto(0, "describe")
    /\ UNCHANGED <<n_threads, started, phase, remaining, shutdown, desc,
                   my_phase, cur_phase, local, task, observed>>

\* ... writes the plain descriptor fields ...
Describe ==
    /\ pc[0] = "describe"
    /\ desc' = local[0]
    /\ Goto(0, "arm")
    /\ UNCHANGED <<n_threads, started, phase, remaining, shutdown, error, error_seen,
                   my_phase, cur_phase, local, task, observed>>

\* The threads that take part in a phase: the owned workers and the caller.
OwnedOnly == n_threads - 1
NeverArmed == remaining
Participants == n_threads

\* ... sets the number of threads the join waits for ...
Arm ==
    /\ pc[0] = "arm"
    /\ remaining' = Participants
    /\ Goto(0, "publish")
    /\ UNCHANGED <<n_threads, started, phase, shutdown, desc, error, error_seen,
                   my_phase, cur_phase, local, task, observed>>

\* ... and publishes the phase.
Publish ==
    /\ pc[0] = "publish"
    /\ phase' = phase + 1
    /\ Goto(0, "notify")
    /\ UNCHANGED <<n_threads, started, remaining, shutdown, desc, error, error_seen,
                   my_phase, cur_phase, local, task, observed>>

\* phase_.notify_all(): every thread blocked in phase_.wait looks again.
Unparked(next) ==
    pc' = [t \in Threads |-> IF t = 0 THEN next
                             ELSE IF pc[t] = "parked" THEN "wait" ELSE pc[t]]

Notify ==
    /\ pc[0] = "notify"
    /\ Unparked("task")
    /\ UNCHANGED <<shared, my_phase, cur_phase, local, task, observed>>

\* The spin of run_phase sees that the last participant is done.
JoinPhase ==
    /\ pc[0] = "join"
    /\ remaining = 0
    /\ Goto(0, "rethrow")
    /\ UNCHANGED <<shared, my_phase, cur_phase, local, task, observed>>

\* rethrow_phase_error: the call returns or raises the kept exception.
Rethrow ==
    /\ pc[0] = "rethrow"
    /\ outcome' = IF error_seen THEN error ELSE NoError
    /\ Goto(0, "idle")
    /\ UNCHANGED <<shared, my_phase, cur_phase, local, task, calls, ran, threw>>

-----------------------------------------------------------------------------
(* A thread's share of a phase: the stride of run_phase (thread 0) and of  *)
(* worker_loop, with store_phase_error on the way out of a throwing task.  *)

RunTask(t) ==
    /\ pc[t] = "task"
    /\ task[t] < local[t].n
    /\ Body(task[t],
            task' = [task EXCEPT ![t] = @ + n_threads] /\ UNCHANGED pc,
            Goto(t, "store") /\ UNCHANGED task)
    /\ UNCHANGED <<shared, my_phase, cur_phase, local, calls, outcome>>

StrideDone(t) ==
    /\ pc[t] = "task"
    /\ task[t] >= local[t].n
    /\ Goto(t, "dec")
    /\ UNCHANGED <<shared, my_phase, cur_phase, local, task, observed>>

\* store_phase_error under phase_error_mutex_: only the first one is kept.
StoreError(t) ==
    /\ pc[t] = "store"
    /\ error' = IF error = NoError THEN task[t] ELSE error
    /\ Goto(t, "seen")
    /\ UNCHANGED <<n_threads, started, phase, remaining, shutdown, desc, error_seen,
                   my_phase, cur_phase, local, task, observed>>

LeaveOnError(t) ==
    /\ pc[t] = "seen"
    /\ error_seen' = TRUE
    /\ Goto(t, IF t = 0 THEN "join" ELSE "check")
    /\ UNCHANGED <<n_threads, started, phase, remaining, shutdown, desc, error,
                   my_phase, cur_phase, local, task, observed>>

MarkSeen(t) ==
    /\ pc[t] = "seen"
    /\ error_seen' = TRUE
    /\ Goto(t, "dec")
    /\ UNCHANGED <<n_threads, started, phase, remaining, shutdown, desc, error,
                   my_phase, cur_phase, local, task, observed>>

\* Thread 0 goes on to join; a worker goes back to the top of its loop, where
\* current_phase starts as my_phase.
Decrement(t) ==
    /\ pc[t] = "dec"
    /\ remaining' = remaining - 1
    /\ Goto(t, IF t = 0 THEN "join" ELSE "check")
    /\ UNCHANGED <<n_threads, started, phase, shutdown, desc, error, error_seen,
                   my_phase, cur_phase, local, task, observed>>

-----------------------------------------------------------------------------
(* worker_loop between phases.                                             *)

\* The loop condition: wait only while no new phase and no shutdown is seen.
Check(w) ==
    /\ pc[w] = "check"
    /\ Goto(w, IF cur_phase[w] = my_phase[w] /\ ~ shutdown THEN "wait" ELSE "gate")
    /\ UNCHANGED <<shared, my_phase, cur_phase, local, task, observed>>

\* phase_.wait(my_phase): blocks if the value is unchanged, in one step with
\* the comparison; a blocked thread moves again only after a notification.
Wait(w) ==
    /\ pc[w] = "wait"
    /\ Goto(w, IF phase = my_phase[w] THEN "parked" ELSE "load")
    /\ UNCHANGED <<shared, my_phase, cur_phase, local, task, observed>>

LoadPhase(w) ==
    /\ pc[w] = "load"
    /\ cur_phase' = [cur_phase EXCEPT ![w] = phase]
    /\ Goto(w, "check")
    /\ UNCHANGED <<shared, my_phase, local, task, observed>>

\* The second look at shutdown_ decides between leaving and joining the phase.
Gate(w) ==
    /\ pc[w] = "gate"
    /\ IF shutdown THEN Goto(w, "exited") /\ UNCHANGED my_phase
       ELSE Goto(w, "snap") /\ my_phase' = [my_phase EXCEPT ![w] = cur_phase[w]]
    /\ UNCHANGED <<shared, cur_phase, local, task, observed>>

Snapshot(w) ==
    /\ pc[w] = "snap"
    /\ local' = [local EXCEPT ![w] = desc]
    /\ task' = [task EXCEPT ![w] = w]
    /\ Goto(w, "task")
    /\ UNCHANGED <<shared, my_phase, cur_phase, observed>>

-----------------------------------------------------------------------------
(* stop_and_join_workers, called by the destructor and by a constructor    *)
(* that fails half way.                                                    *)

Destroy ==
    /\ pc[0] = "idle"
    /\ Goto(0, IF n_threads = 1 THEN "gone" ELSE "stop")
    /\ UNCHANGED <<shared, my_phase, cur_phase, local, task, observed>>

StopShutdown ==
    /\ pc[0] = "stop"
    /\ shutdown' = TRUE
    /\ Goto(0, "bump")
    /\ UNCHANGED <<n_threads, started, phase, remaining, desc, error, error_seen,
                   my_phase, cur_phase, local, task, observed>>

StopWithoutBump ==
    /\ pc[0] = "bump"
    /\ Goto(0, "wake")
    /\ UNCHANGED <<shared, my_phase, cur_phase, local, task, observed>>

StopBump ==
    /\ pc[0] = "bump"
    /\ phase' = phase + 1
    /\ Goto(0, "wake")
    /\ UNCHANGED <<n_threads, started, remaining, shutdown, desc, error, error_seen,
                   my_phase, cur_phase, local, task, observed>>

StopNotify ==
    /\ pc[0] = "wake"
    /\ Unparked("joining")
    /\ UNCHANGED <<shared, my_phase, cur_phase, local, task, observed>>

\* The threads that stop_and_join_workers joins: all that were created.
JoinPinned == 1 .. started - 1
Joined == 1 .. started

\* Every std::thread created has been joined; its state may go away.
StopJoined ==
    /\ pc[0] = "joining"
    /\ \A w \in Joined : pc[w] = "exited"
    /\ Goto(0, "gone")
    /\ UNCHANGED <<shared, my_phase, cur_phase, local, task, observed>>

-----------------------------------------------------------------------------
Caller ==
    \/ SpawnWorker \/ PinWorker \/ StartupFails
    \/ \E num \in 1 .. MaxTasks : Call(num)
    \/ InlineTask \/ InlineReturn
    \/ ResetError \/ Describe \/ Arm \/ Publish \/ Notify \/ JoinPhase \/ Rethrow
    \/ Destroy \/ StopShutdown \/ StopBump \/ StopNotify \/ StopJoined

Share(t) ==
    RunTask(t) \/ StrideDone(t) \/ StoreError(t) \/ MarkSeen(t) \/ Decrement(t)

Worker(w) ==
    Check(w) \/ Wait(w) \/ LoadPhase(w) \/ Gate(w) \/ Snapshot(w) \/ Share(w)

\* The pool is destroyed, or its user makes no further call.
Terminated == pc[0] = "gone" /\ UNCHANGED vars

Next ==
    \/ Caller
    \/ Share(0)
    \/ \E w \in Workers : Worker(w)
    \/ Terminated

\* The operating system runs every thread that can run.  The caller owes the
\* pool no further call and no destruction, only that it leaves run_phase, the
\* constructor and stop_and_join_workers once it is inside them.
Fairness ==
    /\ WF_vars(pc[0] # "idle" /\ (Caller \/ Share(0)))
    /\ \A w \in 1 .. MaxThreads - 1 : WF_vars(w \in Workers /\ Worker(w))

Spec == Init /\ [][Next]_vars
FairSpec == Spec /\ Fairness

-----------------------------------------------------------------------------
SharedType ==
    /\ n_threads \in 1 .. MaxThreads
    /\ started \in 0 .. n_threads - 1
    /\ phase \in Nat
    /\ remaining \in 0 .. n_threads
    /\ shutdown \in BOOLEAN
    /\ desc \in Descriptor
    /\ error \in TaskIds \cup {NoError}
    /\ error_seen \in BOOLEAN

ControlType ==
    /\ pc \in [Threads -> CallerPcs \cup WorkerPcs]
    /\ pc[0] \in CallerPcs
    /\ \A w \in Workers : pc[w] \in WorkerPcs

PrivateType ==
    /\ my_phase \in [Workers -> Nat]
    /\ cur_phase \in [Workers -> Nat]
    /\ local \in [Threads -> Descriptor]
    /\ task \in [Threads -> Nat]

ObservedType ==
    /\ calls \in 0 .. MaxCalls
    /\ ran \in [TaskIds -> Nat]
    /\ threw \in SUBSET TaskIds
    /\ outcome \in TaskIds \cup {NoError}

TypeOK == SharedType /\ ControlType /\ PrivateType /\ ObservedType

\* The threads whose decrement of remaining_workers_ is still to come in the
\* phase that the caller is preparing or joining.
Pending ==
    {t \in Threads :
        \/ pc[t] \in Participating \cup {"snap"}
        \/ t = 0 /\ pc[0] \in {"publish", "notify"}
        \/ t # 0 /\ (my_phase[t] < phase \/ pc[0] = "publish")}

InCall == {"notify", "join"} \cup Participating

\* A worker reads the descriptor, and works from its copy, only while the
\* caller is inside the run_phase that wrote it: the callable on the caller's
\* stack is alive, the plain fields do not change under the reader, and no
\* worker is a phase behind or ahead (thread_pool.cpp:173-182, 207-217).
PhaseConfined ==
    \A w \in Workers :
        pc[w] \in Participating \cup {"snap"} =>
            /\ pc[0] \in InCall
            /\ my_phase[w] = phase
            /\ desc = local[0]
            /\ pc[w] # "snap" => local[w] = local[0]

\* The join counter counts exactly the participants still to come, so the
\* caller neither leaves early nor waits for a thread that has finished
\* (thread_pool.cpp:161, 171, 174, 217).
JoinCounts ==
    pc[0] \in InCall \cup {"publish"} => remaining = Cardinality(Pending)

\* Once the pool is gone no owned thread can touch its state again.
NoThreadOutlivesPool ==
    pc[0] = "gone" => \A w \in Workers : pc[w] \in {"unborn", "exited"}

\* The caller's view: the pool is a fork-join service.
Status ==
    IF pc[0] = "gone" THEN "gone"
    ELSE IF pc[0] \in {"spawn", "affinity"} \/ started < n_threads - 1 THEN "starting"
    ELSE IF pc[0] \in InCall \cup {"inline", "unwind", "reset", "describe", "arm",
                                   "publish", "rethrow"}
         THEN "running" ELSE "idle"

FJ == INSTANCE ForkJoin WITH status <- Status, width <- n_threads, size <- local[0].n

\* parallel_for and run_workers implement the fork-join contract: every task
\* once, strides cut short only by their own exception, and a return only after
\* the last task, raising one of this call's exceptions exactly when there is one.
ImplementsForkJoin == FJ!Spec

\* Every constructor, call and destructor that is entered returns: no phase or
\* shutdown notification is lost between a worker's check and its wait.
EveryOperationReturns == (pc[0] \notin {"idle", "gone"}) ~> (pc[0] \in {"idle", "gone"})
=============================================================================
