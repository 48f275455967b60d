-------------------------- MODULE ThreadPoolProofs --------------------------
(***************************************************************************)
(* Proofs, for every number of threads, tasks and calls, that ThreadPool   *)
(* keeps its type, confines every phase to the call that published it,     *)
(* counts the threads still to join and leaves no thread behind.           *)
(*                                                                         *)
(* Then, that the pool implements the fork-join contract: every step of    *)
(* ThreadPool is a step of ForkJoin or changes nothing the caller sees.    *)
(* The invariant of that part says how far every thread is with the stride *)
(* of tasks it owns, and which exception the call will raise.              *)
(***************************************************************************)
EXTENDS ThreadPool, FiniteSetTheorems, TLAPS

-----------------------------------------------------------------------------
(* The inductive invariant.                                                *)

\* While the caller is anywhere here, no worker takes part in a phase.
Quiet == {"spawn", "affinity", "idle", "inline", "unwind", "reset", "describe",
          "arm", "publish", "rethrow", "stop", "bump"}
Stopped == {"wake", "joining", "gone"}
Busy == Participating \cup {"snap"}

\* A thread that is about to report an exception names a task of the call.
ErrorIndex ==
    /\ pc[0] \in {"store", "unwind"} => task[0] < MaxTasks
    /\ \A w \in Workers : pc[w] = "store" => task[w] < MaxTasks

\* The workers created so far are the ones that have left "unborn".
Births ==
    /\ \A w \in Workers : w > started <=> pc[w] = "unborn"
    /\ pc[0] = "spawn" => started < n_threads - 1
    /\ pc[0] \in CallerPcs \ {"spawn", "affinity", "stop", "bump", "wake", "joining", "gone"}
           => started = n_threads - 1

ShutdownFlag ==
    /\ pc[0] \in {"bump", "wake", "joining"} => shutdown
    /\ shutdown => pc[0] \in {"bump", "wake", "joining", "gone"}

\* Between calls every worker is level with the published phase and idle.
LevelWhenQuiet ==
    pc[0] \in Quiet =>
        \A w \in Workers :
            /\ my_phase[w] = phase
            /\ cur_phase[w] = phase
            /\ pc[w] \notin Busy
            /\ pc[w] = "gate" => pc[0] = "bump"

\* In a call every worker is level with the phase or exactly one behind, and
\* the ones that take part are level.
OneBehindInCall ==
    pc[0] \in InCall =>
        \A w \in Workers :
            /\ my_phase[w] = phase \/ my_phase[w] + 1 = phase
            /\ cur_phase[w] = my_phase[w] \/ cur_phase[w] = phase
            /\ pc[w] \in Busy => my_phase[w] = phase
            /\ pc[w] = "gate" => my_phase[w] # phase /\ cur_phase[w] = phase

IdleWhenStopped == pc[0] \in Stopped => \A w \in Workers : pc[w] \notin Busy

PhaseOrder == LevelWhenQuiet /\ OneBehindInCall /\ IdleWhenStopped

Descriptors ==
    /\ pc[0] \in InCall \cup {"arm", "publish"} => desc = local[0]
    /\ pc[0] \in InCall =>
           \A w \in Workers : pc[w] \in Participating => local[w] = local[0]

PoolInv ==
    /\ TypeOK
    /\ ErrorIndex
    /\ Births
    /\ ShutdownFlag
    /\ PhaseOrder
    /\ Descriptors
    /\ JoinCounts
    /\ NoThreadOutlivesPool

-----------------------------------------------------------------------------
\* Everything but the join counter.
ControlInv ==
    TypeOK /\ ErrorIndex /\ Births /\ ShutdownFlag /\ PhaseOrder /\ Descriptors /\ NoThreadOutlivesPool

\* The constructor's initial state satisfies the control invariant.
LEMMA InitControl == Init => ControlInv
  <1> SUFFICES ASSUME Init PROVE ControlInv
    OBVIOUS
  <1> USE PoolAssumption
  <1>1. n_threads \in 1 .. MaxThreads
    <2>1. PICK r \in Requested, h \in Hardware, m \in Masks :
              n_threads = ResolveThreads(r, h, m)
      BY DEF Init
    <2> QED
      BY <2>1 DEF ResolveThreads
  <1>2. NoDescriptor \in Descriptor
    BY DEF NoDescriptor, Descriptor
  <1>3. SharedType
    <2>1. started \in 0 .. n_threads - 1 /\ phase \in Nat /\ remaining \in 0 .. n_threads
      BY <1>1 DEF Init
    <2> QED
      BY <1>1, <1>2, <2>1 DEF Init, SharedType
  <1>4. PrivateType
    BY <1>1, <1>2 DEF Init, PrivateType
  <1>5. ObservedType
    BY DEF Init, ObservedType, TaskIds
  <1>6. ControlType
    BY <1>1 DEF Init, ControlType, Threads, Workers, CallerPcs, WorkerPcs
  <1>7. ErrorIndex /\ Births /\ ShutdownFlag /\ PhaseOrder /\ Descriptors /\ NoThreadOutlivesPool
    BY <1>1 DEF Init, ErrorIndex, Births, ShutdownFlag, PhaseOrder, Descriptors,
                NoThreadOutlivesPool, Threads, Workers, CallerPcs, Participating,
                LevelWhenQuiet,
                OneBehindInCall,
                IdleWhenStopped, Quiet, InCall, Stopped, Busy
  <1> QED
    BY <1>3, <1>4, <1>5, <1>6, <1>7 DEF ControlInv, TypeOK

-----------------------------------------------------------------------------
(* The join counter.                                                       *)

\* Only finitely many threads can be pending.
LEMMA PendingFinite == SharedType => IsFiniteSet(Pending)
  <1>1. SharedType => IsFiniteSet(Threads)
    BY FS_Interval DEF SharedType, Threads
  <1> QED
    BY <1>1, FS_Subset DEF Pending

\* The spin ends only when nobody is pending.
LEMMA JoinedEmpty ==
    ASSUME SharedType, JoinCounts, pc[0] \in InCall, remaining = 0
    PROVE  Pending = {}
  BY PendingFinite, FS_EmptySet DEF JoinCounts

\* A pending thread that decrements leaves one pending thread fewer.
LEMMA PendingRemove ==
    ASSUME SharedType, JoinCounts, pc[0] \in InCall, NEW t \in Pending
    PROVE  /\ remaining \in Nat \ {0}
           /\ Cardinality(Pending \ {t}) = remaining - 1
  <1>1. IsFiniteSet(Pending)
    BY PendingFinite
  <1>2. Cardinality(Pending \ {t}) = Cardinality(Pending) - 1
    BY <1>1, FS_RemoveElement
  <1>3. Cardinality(Pending) # 0 /\ Cardinality(Pending) \in Nat
    BY <1>1, FS_EmptySet, FS_CardinalityType
  <1> QED
    BY <1>2, <1>3 DEF JoinCounts

-----------------------------------------------------------------------------
(* A step moves the caller or one worker; every other thread stays.        *)

CallerMoves(l) ==
    /\ n_threads' = n_threads
    /\ pc'[0] = l
    /\ \A w \in Workers : pc'[w] = pc[w]

WorkerMoves(w, l) ==
    /\ n_threads' = n_threads
    /\ pc'[0] = pc[0]
    /\ pc'[w] = l
    /\ \A v \in Workers \ {w} : pc'[v] = pc[v]

\* A move of the caller keeps the labels well typed.
LEMMA CallerGoto ==
    ASSUME SharedType, ControlType, NEW l \in CallerPcs, n_threads' = n_threads, Goto(0, l)
    PROVE  CallerMoves(l) /\ ControlType'
  BY DEF SharedType, ControlType, Goto, CallerMoves, Threads, Workers

\* A move of a worker keeps the labels well typed.
LEMMA WorkerGoto ==
    ASSUME SharedType, ControlType, NEW w \in Workers, NEW l \in WorkerPcs,
           n_threads' = n_threads, Goto(w, l)
    PROVE  WorkerMoves(w, l) /\ ControlType'
  BY DEF SharedType, ControlType, Goto, WorkerMoves, Threads, Workers

\* PinWorker preserves the types and the control invariant.
LEMMA PinWorkerControl ==
    ASSUME ControlInv, JoinCounts, PinWorker
    PROVE  ControlInv'
  <1> USE PoolAssumption DEF ControlInv, TypeOK
  <1> DEFINE l == IF started = n_threads - 1 THEN "idle" ELSE "spawn"
  <1>1. CallerMoves(l) /\ ControlType'
    <2>1. l \in CallerPcs
      BY DEF CallerPcs, Participating
    <2> QED
      BY <2>1, CallerGoto DEF PinWorker, shared
  <1>2. SharedType'
    BY DEF PinWorker, SharedType, ErrorIndex, shared, private
  <1>3. PrivateType'
    BY DEF PinWorker, SharedType, PrivateType, ObservedType, shared, Workers, Threads
  <1>4. ObservedType'
    BY DEF PinWorker, SharedType, PrivateType, ObservedType, ErrorIndex, observed, TaskIds,
           Threads, Descriptor
  <1>5. ErrorIndex'
    BY <1>1 DEF PinWorker, CallerMoves, SharedType, PrivateType, ErrorIndex, TaskIds,
       Descriptor, Threads, Workers
  <1>6. Births' /\ ShutdownFlag' /\ NoThreadOutlivesPool'
    BY <1>1 DEF PinWorker, CallerMoves, SharedType, Births, ShutdownFlag,
       NoThreadOutlivesPool, shared, Threads, Workers, CallerPcs, WorkerPcs,
       Participating
  <1>7. PhaseOrder'
    BY <1>1 DEF PinWorker, CallerMoves, SharedType, PrivateType, PhaseOrder, Births, shared,
       LevelWhenQuiet, OneBehindInCall, IdleWhenStopped, Quiet, InCall, Stopped, Busy,
       Threads, Workers, CallerPcs, WorkerPcs, Participating
  <1>8. Descriptors'
    BY <1>1 DEF PinWorker, CallerMoves, SharedType, PrivateType, Descriptors, PhaseOrder,
       shared, LevelWhenQuiet, OneBehindInCall, IdleWhenStopped, Quiet, InCall, Stopped,
       Busy, Threads, Workers, CallerPcs, WorkerPcs, Participating
  <1> QED
    BY <1>1, <1>2, <1>3, <1>4, <1>5, <1>6, <1>7, <1>8

\* StartupFails preserves the types and the control invariant.
LEMMA StartupFailsControl ==
    ASSUME ControlInv, JoinCounts, StartupFails
    PROVE  ControlInv'
  <1> USE PoolAssumption DEF ControlInv, TypeOK
  <1> DEFINE l == IF started = 0 THEN "gone" ELSE "stop"
  <1>1. CallerMoves(l) /\ ControlType'
    <2>1. l \in CallerPcs
      BY DEF CallerPcs, Participating
    <2> QED
      BY <2>1, CallerGoto DEF StartupFails, shared
  <1>2. SharedType'
    BY DEF StartupFails, SharedType, ErrorIndex, shared, private
  <1>3. PrivateType'
    BY DEF StartupFails, SharedType, PrivateType, ObservedType, shared, Workers, Threads
  <1>4. ObservedType'
    BY DEF StartupFails, SharedType, PrivateType, ObservedType, ErrorIndex, observed,
           TaskIds, Threads, Descriptor
  <1>5. ErrorIndex'
    BY <1>1 DEF StartupFails, CallerMoves, SharedType, PrivateType, ErrorIndex, TaskIds,
       Descriptor, Threads, Workers
  <1>6. Births' /\ ShutdownFlag' /\ NoThreadOutlivesPool'
    BY <1>1 DEF StartupFails, CallerMoves, SharedType, Births, ShutdownFlag,
       NoThreadOutlivesPool, shared, Threads, Workers, CallerPcs, WorkerPcs,
       Participating
  <1>7. PhaseOrder'
    BY <1>1 DEF StartupFails, CallerMoves, SharedType, PrivateType, PhaseOrder, Births,
       shared, LevelWhenQuiet, OneBehindInCall, IdleWhenStopped, Quiet, InCall, Stopped,
       Busy, Threads, Workers, CallerPcs, WorkerPcs, Participating
  <1>8. Descriptors'
    BY <1>1 DEF StartupFails, CallerMoves, SharedType, PrivateType, Descriptors, PhaseOrder,
       shared, LevelWhenQuiet, OneBehindInCall, IdleWhenStopped, Quiet, InCall, Stopped,
       Busy, Threads, Workers, CallerPcs, WorkerPcs, Participating
  <1> QED
    BY <1>1, <1>2, <1>3, <1>4, <1>5, <1>6, <1>7, <1>8

\* Call preserves the types and the control invariant.
LEMMA CallControl ==
    ASSUME ControlInv, JoinCounts, NEW num \in 1 .. MaxTasks, Call(num)
    PROVE  ControlInv'
  <1> USE PoolAssumption DEF ControlInv, TypeOK
  <1> DEFINE l == IF n_threads = 1 THEN "inline" ELSE "reset"
  <1>1. CallerMoves(l) /\ ControlType'
    <2>1. l \in CallerPcs
      BY DEF CallerPcs, Participating
    <2> QED
      BY <2>1, CallerGoto DEF Call, shared
  <1>2. SharedType'
    BY DEF Call, SharedType, ErrorIndex, shared, private
  <1>3. PrivateType'
    <2>1. [ctx |-> calls + 1, n |-> num] \in Descriptor
      BY DEF Call, Descriptor, ObservedType
    <2> QED
      BY <2>1 DEF Call, SharedType, PrivateType, shared, Workers, Threads
  <1>4. ObservedType'
    BY DEF Call, SharedType, PrivateType, ObservedType, ErrorIndex, observed, TaskIds,
           Threads, Descriptor
  <1>5. ErrorIndex'
    <2>1. \A w \in Workers : task'[w] = task[w]
      BY DEF Call, PrivateType, Threads, Workers
    <2> QED
      BY <1>1, <2>1 DEF CallerMoves, SharedType, ErrorIndex, Workers
  <1>6. Births' /\ ShutdownFlag' /\ NoThreadOutlivesPool'
    BY <1>1 DEF Call, CallerMoves, SharedType, Births, ShutdownFlag, NoThreadOutlivesPool,
       shared, Threads, Workers, CallerPcs, WorkerPcs, Participating
  <1>7. PhaseOrder'
    BY <1>1 DEF Call, CallerMoves, SharedType, PrivateType, PhaseOrder, Births, shared,
       LevelWhenQuiet, OneBehindInCall, IdleWhenStopped, Quiet, InCall, Stopped, Busy,
       Threads, Workers, CallerPcs, WorkerPcs, Participating
  <1>8. Descriptors'
    BY <1>1 DEF Call, CallerMoves, SharedType, PrivateType, Descriptors, PhaseOrder, shared,
       LevelWhenQuiet, OneBehindInCall, IdleWhenStopped, Quiet, InCall, Stopped, Busy,
       Threads, Workers, CallerPcs, WorkerPcs, Participating
  <1> QED
    BY <1>1, <1>2, <1>3, <1>4, <1>5, <1>6, <1>7, <1>8

\* InlineReturn preserves the types and the control invariant.
LEMMA InlineReturnControl ==
    ASSUME ControlInv, JoinCounts, InlineReturn
    PROVE  ControlInv'
  <1> USE PoolAssumption DEF ControlInv, TypeOK
  <1> DEFINE l == "idle"
  <1>1. CallerMoves(l) /\ ControlType'
    <2>1. l \in CallerPcs
      BY DEF CallerPcs, Participating
    <2> QED
      BY <2>1, CallerGoto DEF InlineReturn, shared
  <1>2. SharedType'
    BY DEF InlineReturn, SharedType, ErrorIndex, shared, private
  <1>3. PrivateType'
    BY DEF InlineReturn, SharedType, PrivateType, ObservedType, shared, Workers, Threads
  <1>4. ObservedType'
    BY SMTT(60) DEF InlineReturn, SharedType, PrivateType, ObservedType, ErrorIndex, observed,
           TaskIds, Threads, Descriptor
  <1>5. ErrorIndex'
    BY <1>1 DEF InlineReturn, CallerMoves, SharedType, PrivateType, ErrorIndex, TaskIds,
       Descriptor, Threads, Workers
  <1>6. Births' /\ ShutdownFlag' /\ NoThreadOutlivesPool'
    BY <1>1 DEF InlineReturn, CallerMoves, SharedType, Births, ShutdownFlag,
       NoThreadOutlivesPool, shared, Threads, Workers, CallerPcs, WorkerPcs,
       Participating
  <1>7. PhaseOrder'
    BY <1>1 DEF InlineReturn, CallerMoves, SharedType, PrivateType, PhaseOrder, Births,
       shared, LevelWhenQuiet, OneBehindInCall, IdleWhenStopped, Quiet, InCall, Stopped,
       Busy, Threads, Workers, CallerPcs, WorkerPcs, Participating
  <1>8. Descriptors'
    BY <1>1 DEF InlineReturn, CallerMoves, SharedType, PrivateType, Descriptors, PhaseOrder,
       shared, LevelWhenQuiet, OneBehindInCall, IdleWhenStopped, Quiet, InCall, Stopped,
       Busy, Threads, Workers, CallerPcs, WorkerPcs, Participating
  <1> QED
    BY <1>1, <1>2, <1>3, <1>4, <1>5, <1>6, <1>7, <1>8

\* ResetError preserves the types and the control invariant.
LEMMA ResetErrorControl ==
    ASSUME ControlInv, JoinCounts, ResetError
    PROVE  ControlInv'
  <1> USE PoolAssumption DEF ControlInv, TypeOK
  <1> DEFINE l == "describe"
  <1>1. CallerMoves(l) /\ ControlType'
    <2>1. l \in CallerPcs
      BY DEF CallerPcs, Participating
    <2> QED
      BY <2>1, CallerGoto DEF ResetError, shared
  <1>2. SharedType'
    BY DEF ResetError, SharedType, ErrorIndex, shared, private
  <1>3. PrivateType'
    BY DEF ResetError, SharedType, PrivateType, ObservedType, shared, Workers, Threads
  <1>4. ObservedType'
    BY DEF ResetError, SharedType, PrivateType, ObservedType, ErrorIndex, observed, TaskIds,
           Threads, Descriptor
  <1>5. ErrorIndex'
    BY <1>1 DEF ResetError, CallerMoves, SharedType, PrivateType, ErrorIndex, TaskIds,
       Descriptor, Threads, Workers
  <1>6. Births' /\ ShutdownFlag' /\ NoThreadOutlivesPool'
    BY <1>1 DEF ResetError, CallerMoves, SharedType, Births, ShutdownFlag,
       NoThreadOutlivesPool, shared, Threads, Workers, CallerPcs, WorkerPcs,
       Participating
  <1>7. PhaseOrder'
    BY <1>1 DEF ResetError, CallerMoves, SharedType, PrivateType, PhaseOrder, Births,
       shared, LevelWhenQuiet, OneBehindInCall, IdleWhenStopped, Quiet, InCall, Stopped,
       Busy, Threads, Workers, CallerPcs, WorkerPcs, Participating
  <1>8. Descriptors'
    BY <1>1 DEF ResetError, CallerMoves, SharedType, PrivateType, Descriptors, PhaseOrder,
       shared, LevelWhenQuiet, OneBehindInCall, IdleWhenStopped, Quiet, InCall, Stopped,
       Busy, Threads, Workers, CallerPcs, WorkerPcs, Participating
  <1> QED
    BY <1>1, <1>2, <1>3, <1>4, <1>5, <1>6, <1>7, <1>8

\* Describe preserves the types and the control invariant.
LEMMA DescribeControl ==
    ASSUME ControlInv, JoinCounts, Describe
    PROVE  ControlInv'
  <1> USE PoolAssumption DEF ControlInv, TypeOK
  <1> DEFINE l == "arm"
  <1>1. CallerMoves(l) /\ ControlType'
    <2>1. l \in CallerPcs
      BY DEF CallerPcs, Participating
    <2> QED
      BY <2>1, CallerGoto DEF Describe, shared
  <1>2. SharedType'
    BY DEF Describe, SharedType, PrivateType, Threads
  <1>3. PrivateType'
    BY DEF Describe, SharedType, PrivateType, ObservedType, shared, Workers, Threads
  <1>4. ObservedType'
    BY DEF Describe, SharedType, PrivateType, ObservedType, ErrorIndex, observed, TaskIds,
           Threads, Descriptor
  <1>5. ErrorIndex'
    BY <1>1 DEF Describe, CallerMoves, SharedType, PrivateType, ErrorIndex, TaskIds,
       Descriptor, Threads, Workers
  <1>6. Births' /\ ShutdownFlag' /\ NoThreadOutlivesPool'
    BY <1>1 DEF Describe, CallerMoves, SharedType, Births, ShutdownFlag,
       NoThreadOutlivesPool, shared, Threads, Workers, CallerPcs, WorkerPcs,
       Participating
  <1>7. PhaseOrder'
    BY <1>1 DEF Describe, CallerMoves, SharedType, PrivateType, PhaseOrder, Births, shared,
       LevelWhenQuiet, OneBehindInCall, IdleWhenStopped, Quiet, InCall, Stopped, Busy,
       Threads, Workers, CallerPcs, WorkerPcs, Participating
  <1>8. Descriptors'
    BY <1>1 DEF Describe, CallerMoves, SharedType, PrivateType, Descriptors, PhaseOrder,
       shared, LevelWhenQuiet, OneBehindInCall, IdleWhenStopped, Quiet, InCall, Stopped,
       Busy, Threads, Workers, CallerPcs, WorkerPcs, Participating
  <1> QED
    BY <1>1, <1>2, <1>3, <1>4, <1>5, <1>6, <1>7, <1>8

\* Arm preserves the types and the control invariant.
LEMMA ArmControl ==
    ASSUME ControlInv, JoinCounts, Arm
    PROVE  ControlInv'
  <1> USE PoolAssumption DEF ControlInv, TypeOK
  <1> DEFINE l == "publish"
  <1>1. CallerMoves(l) /\ ControlType'
    <2>1. l \in CallerPcs
      BY DEF CallerPcs, Participating
    <2> QED
      BY <2>1, CallerGoto DEF Arm, Participants, shared
  <1>2. SharedType'
    BY DEF Arm, Participants, SharedType, ErrorIndex, shared, private
  <1>3. PrivateType'
    BY DEF Arm, Participants, SharedType, PrivateType, ObservedType, shared, Workers, Threads
  <1>4. ObservedType'
    BY DEF Arm, Participants, SharedType, PrivateType, ObservedType, ErrorIndex, observed,
           TaskIds, Threads, Descriptor
  <1>5. ErrorIndex'
    BY <1>1 DEF Arm, Participants, CallerMoves, SharedType, PrivateType, ErrorIndex,
       TaskIds, Descriptor, Threads, Workers
  <1>6. Births' /\ ShutdownFlag' /\ NoThreadOutlivesPool'
    BY <1>1 DEF Arm, Participants, CallerMoves, SharedType, Births, ShutdownFlag,
       NoThreadOutlivesPool, shared, Threads, Workers, CallerPcs, WorkerPcs,
       Participating
  <1>7. PhaseOrder'
    BY <1>1 DEF Arm, Participants, CallerMoves, SharedType, PrivateType, PhaseOrder, Births,
       shared, LevelWhenQuiet, OneBehindInCall, IdleWhenStopped, Quiet, InCall, Stopped,
       Busy, Threads, Workers, CallerPcs, WorkerPcs, Participating
  <1>8. Descriptors'
    BY <1>1 DEF Arm, Participants, CallerMoves, SharedType, PrivateType, Descriptors,
       PhaseOrder, shared, LevelWhenQuiet, OneBehindInCall, IdleWhenStopped, Quiet,
       InCall, Stopped, Busy, Threads, Workers, CallerPcs, WorkerPcs, Participating
  <1> QED
    BY <1>1, <1>2, <1>3, <1>4, <1>5, <1>6, <1>7, <1>8

\* Publish preserves the types and the control invariant.
LEMMA PublishControl ==
    ASSUME ControlInv, JoinCounts, Publish
    PROVE  ControlInv'
  <1> USE PoolAssumption DEF ControlInv, TypeOK
  <1> DEFINE l == "notify"
  <1>1. CallerMoves(l) /\ ControlType'
    <2>1. l \in CallerPcs
      BY DEF CallerPcs, Participating
    <2> QED
      BY <2>1, CallerGoto DEF Publish, shared
  <1>2. SharedType'
    BY DEF Publish, SharedType, ErrorIndex, shared, private
  <1>3. PrivateType'
    BY DEF Publish, SharedType, PrivateType, ObservedType, shared, Workers, Threads
  <1>4. ObservedType'
    BY DEF Publish, SharedType, PrivateType, ObservedType, ErrorIndex, observed, TaskIds,
           Threads, Descriptor
  <1>5. ErrorIndex'
    BY <1>1 DEF Publish, CallerMoves, SharedType, PrivateType, ErrorIndex, TaskIds,
       Descriptor, Threads, Workers
  <1>6. Births' /\ ShutdownFlag' /\ NoThreadOutlivesPool'
    BY <1>1 DEF Publish, CallerMoves, SharedType, Births, ShutdownFlag,
       NoThreadOutlivesPool, shared, Threads, Workers, CallerPcs, WorkerPcs,
       Participating
  <1>7. PhaseOrder'
    BY <1>1 DEF Publish, CallerMoves, SharedType, PrivateType, PhaseOrder, Births, shared,
       LevelWhenQuiet, OneBehindInCall, IdleWhenStopped, Quiet, InCall, Stopped, Busy,
       Threads, Workers, CallerPcs, WorkerPcs, Participating
  <1>8. Descriptors'
    BY <1>1 DEF Publish, CallerMoves, SharedType, PrivateType, Descriptors, PhaseOrder,
       shared, LevelWhenQuiet, OneBehindInCall, IdleWhenStopped, Quiet, InCall, Stopped,
       Busy, Threads, Workers, CallerPcs, WorkerPcs, Participating
  <1> QED
    BY <1>1, <1>2, <1>3, <1>4, <1>5, <1>6, <1>7, <1>8

\* JoinPhase preserves the types and the control invariant.
LEMMA JoinPhaseControl ==
    ASSUME ControlInv, JoinCounts, JoinPhase
    PROVE  ControlInv'
  <1> USE PoolAssumption DEF ControlInv, TypeOK
  <1> DEFINE l == "rethrow"
  <1>1. CallerMoves(l) /\ ControlType'
    <2>1. l \in CallerPcs
      BY DEF CallerPcs, Participating
    <2> QED
      BY <2>1, CallerGoto DEF JoinPhase, shared
  <1>2. SharedType'
    BY DEF JoinPhase, SharedType, ErrorIndex, shared, private
  <1>3. PrivateType'
    BY DEF JoinPhase, SharedType, PrivateType, ObservedType, shared, Workers, Threads
  <1>4. ObservedType'
    BY DEF JoinPhase, SharedType, PrivateType, ObservedType, ErrorIndex, observed, TaskIds,
           Threads, Descriptor
  <1>5. ErrorIndex'
    BY <1>1 DEF JoinPhase, CallerMoves, SharedType, PrivateType, ErrorIndex, TaskIds,
       Descriptor, Threads, Workers
  <1>6. Births' /\ ShutdownFlag' /\ NoThreadOutlivesPool'
    BY <1>1 DEF JoinPhase, CallerMoves, SharedType, Births, ShutdownFlag,
       NoThreadOutlivesPool, shared, Threads, Workers, CallerPcs, WorkerPcs,
       Participating
  <1>7. PhaseOrder'
    <2>1. Pending = {}
      BY JoinedEmpty DEF JoinPhase, InCall
    <2>2. ASSUME NEW w \in Workers PROVE pc[w] \notin Busy /\ my_phase[w] = phase
      <3>1. w \in Threads /\ w # 0 /\ w \notin Pending
        BY <2>1 DEF SharedType, Threads, Workers
      <3>2. pc[w] \notin Busy /\ ~ (my_phase[w] < phase)
        BY <3>1 DEF Pending, Busy
      <3>3. my_phase[w] \in Nat /\ phase \in Nat
        BY DEF SharedType, PrivateType
      <3> QED
        BY <3>2, <3>3 DEF JoinPhase, PhaseOrder, OneBehindInCall, InCall
    <2> QED
      BY <1>1, <2>2 DEF JoinPhase, CallerMoves, SharedType, PrivateType, PhaseOrder, shared,
         LevelWhenQuiet, OneBehindInCall, IdleWhenStopped, Quiet, InCall, Stopped, Busy,
         Threads, Workers, CallerPcs, WorkerPcs, Participating
  <1>8. Descriptors'
    BY <1>1 DEF JoinPhase, CallerMoves, SharedType, PrivateType, Descriptors, PhaseOrder,
       shared, LevelWhenQuiet, OneBehindInCall, IdleWhenStopped, Quiet, InCall, Stopped,
       Busy, Threads, Workers, CallerPcs, WorkerPcs, Participating
  <1> QED
    BY <1>1, <1>2, <1>3, <1>4, <1>5, <1>6, <1>7, <1>8

\* Rethrow preserves the types and the control invariant.
LEMMA RethrowControl ==
    ASSUME ControlInv, JoinCounts, Rethrow
    PROVE  ControlInv'
  <1> USE PoolAssumption DEF ControlInv, TypeOK
  <1> DEFINE l == "idle"
  <1>1. CallerMoves(l) /\ ControlType'
    <2>1. l \in CallerPcs
      BY DEF CallerPcs, Participating
    <2> QED
      BY <2>1, CallerGoto DEF Rethrow, shared
  <1>2. SharedType'
    BY DEF Rethrow, SharedType, ErrorIndex, shared, private
  <1>3. PrivateType'
    BY DEF Rethrow, SharedType, PrivateType, ObservedType, shared, Workers, Threads
  <1>4. ObservedType'
    BY DEF Rethrow, SharedType, PrivateType, ObservedType, ErrorIndex, observed, TaskIds,
           Threads, Descriptor
  <1>5. ErrorIndex'
    BY <1>1 DEF Rethrow, CallerMoves, SharedType, PrivateType, ErrorIndex, TaskIds,
       Descriptor, Threads, Workers
  <1>6. Births' /\ ShutdownFlag' /\ NoThreadOutlivesPool'
    BY <1>1 DEF Rethrow, CallerMoves, SharedType, Births, ShutdownFlag,
       NoThreadOutlivesPool, shared, Threads, Workers, CallerPcs, WorkerPcs,
       Participating
  <1>7. PhaseOrder'
    BY <1>1 DEF Rethrow, CallerMoves, SharedType, PrivateType, PhaseOrder, Births, shared,
       LevelWhenQuiet, OneBehindInCall, IdleWhenStopped, Quiet, InCall, Stopped, Busy,
       Threads, Workers, CallerPcs, WorkerPcs, Participating
  <1>8. Descriptors'
    BY <1>1 DEF Rethrow, CallerMoves, SharedType, PrivateType, Descriptors, PhaseOrder,
       shared, LevelWhenQuiet, OneBehindInCall, IdleWhenStopped, Quiet, InCall, Stopped,
       Busy, Threads, Workers, CallerPcs, WorkerPcs, Participating
  <1> QED
    BY <1>1, <1>2, <1>3, <1>4, <1>5, <1>6, <1>7, <1>8

\* Destroy preserves the types and the control invariant.
LEMMA DestroyControl ==
    ASSUME ControlInv, JoinCounts, Destroy
    PROVE  ControlInv'
  <1> USE PoolAssumption DEF ControlInv, TypeOK
  <1> DEFINE l == IF n_threads = 1 THEN "gone" ELSE "stop"
  <1>1. CallerMoves(l) /\ ControlType'
    <2>1. l \in CallerPcs
      BY DEF CallerPcs, Participating
    <2> QED
      BY <2>1, CallerGoto DEF Destroy, shared
  <1>2. SharedType'
    BY DEF Destroy, SharedType, ErrorIndex, shared, private
  <1>3. PrivateType'
    BY DEF Destroy, SharedType, PrivateType, ObservedType, shared, Workers, Threads
  <1>4. ObservedType'
    BY DEF Destroy, SharedType, PrivateType, ObservedType, ErrorIndex, observed, TaskIds,
           Threads, Descriptor
  <1>5. ErrorIndex'
    BY <1>1 DEF Destroy, CallerMoves, SharedType, PrivateType, ErrorIndex, TaskIds,
       Descriptor, Threads, Workers
  <1>6. Births' /\ ShutdownFlag' /\ NoThreadOutlivesPool'
    BY <1>1 DEF Destroy, CallerMoves, SharedType, Births, ShutdownFlag,
       NoThreadOutlivesPool, shared, Threads, Workers, CallerPcs, WorkerPcs,
       Participating
  <1>7. PhaseOrder'
    BY <1>1 DEF Destroy, CallerMoves, SharedType, PrivateType, PhaseOrder, Births, shared,
       LevelWhenQuiet, OneBehindInCall, IdleWhenStopped, Quiet, InCall, Stopped, Busy,
       Threads, Workers, CallerPcs, WorkerPcs, Participating
  <1>8. Descriptors'
    BY <1>1 DEF Destroy, CallerMoves, SharedType, PrivateType, Descriptors, PhaseOrder,
       shared, LevelWhenQuiet, OneBehindInCall, IdleWhenStopped, Quiet, InCall, Stopped,
       Busy, Threads, Workers, CallerPcs, WorkerPcs, Participating
  <1> QED
    BY <1>1, <1>2, <1>3, <1>4, <1>5, <1>6, <1>7, <1>8

\* StopShutdown preserves the types and the control invariant.
LEMMA StopShutdownControl ==
    ASSUME ControlInv, JoinCounts, StopShutdown
    PROVE  ControlInv'
  <1> USE PoolAssumption DEF ControlInv, TypeOK
  <1> DEFINE l == "bump"
  <1>1. CallerMoves(l) /\ ControlType'
    <2>1. l \in CallerPcs
      BY DEF CallerPcs, Participating
    <2> QED
      BY <2>1, CallerGoto DEF StopShutdown, shared
  <1>2. SharedType'
    BY DEF StopShutdown, SharedType, ErrorIndex, shared, private
  <1>3. PrivateType'
    BY DEF StopShutdown, SharedType, PrivateType, ObservedType, shared, Workers, Threads
  <1>4. ObservedType'
    BY DEF StopShutdown, SharedType, PrivateType, ObservedType, ErrorIndex, observed,
           TaskIds, Threads, Descriptor
  <1>5. ErrorIndex'
    BY <1>1 DEF StopShutdown, CallerMoves, SharedType, PrivateType, ErrorIndex, TaskIds,
       Descriptor, Threads, Workers
  <1>6. Births' /\ ShutdownFlag' /\ NoThreadOutlivesPool'
    BY <1>1 DEF StopShutdown, CallerMoves, SharedType, Births, ShutdownFlag,
       NoThreadOutlivesPool, shared, Threads, Workers, CallerPcs, WorkerPcs,
       Participating
  <1>7. PhaseOrder'
    BY <1>1 DEF StopShutdown, CallerMoves, SharedType, PrivateType, PhaseOrder, Births,
       shared, LevelWhenQuiet, OneBehindInCall, IdleWhenStopped, Quiet, InCall, Stopped,
       Busy, Threads, Workers, CallerPcs, WorkerPcs, Participating
  <1>8. Descriptors'
    BY <1>1 DEF StopShutdown, CallerMoves, SharedType, PrivateType, Descriptors, PhaseOrder,
       shared, LevelWhenQuiet, OneBehindInCall, IdleWhenStopped, Quiet, InCall, Stopped,
       Busy, Threads, Workers, CallerPcs, WorkerPcs, Participating
  <1> QED
    BY <1>1, <1>2, <1>3, <1>4, <1>5, <1>6, <1>7, <1>8

\* StopBump preserves the types and the control invariant.
LEMMA StopBumpControl ==
    ASSUME ControlInv, JoinCounts, StopBump
    PROVE  ControlInv'
  <1> USE PoolAssumption DEF ControlInv, TypeOK
  <1> DEFINE l == "wake"
  <1>1. CallerMoves(l) /\ ControlType'
    <2>1. l \in CallerPcs
      BY DEF CallerPcs, Participating
    <2> QED
      BY <2>1, CallerGoto DEF StopBump, shared
  <1>2. SharedType'
    BY DEF StopBump, SharedType, ErrorIndex, shared, private
  <1>3. PrivateType'
    BY DEF StopBump, SharedType, PrivateType, ObservedType, shared, Workers, Threads
  <1>4. ObservedType'
    BY DEF StopBump, SharedType, PrivateType, ObservedType, ErrorIndex, observed, TaskIds,
           Threads, Descriptor
  <1>5. ErrorIndex'
    BY <1>1 DEF StopBump, CallerMoves, SharedType, PrivateType, ErrorIndex, TaskIds,
       Descriptor, Threads, Workers
  <1>6. Births' /\ ShutdownFlag' /\ NoThreadOutlivesPool'
    BY <1>1 DEF StopBump, CallerMoves, SharedType, Births, ShutdownFlag,
       NoThreadOutlivesPool, shared, Threads, Workers, CallerPcs, WorkerPcs,
       Participating
  <1>7. PhaseOrder'
    BY <1>1 DEF StopBump, CallerMoves, SharedType, PrivateType, PhaseOrder, Births, shared,
       LevelWhenQuiet, OneBehindInCall, IdleWhenStopped, Quiet, InCall, Stopped, Busy,
       Threads, Workers, CallerPcs, WorkerPcs, Participating
  <1>8. Descriptors'
    BY <1>1 DEF StopBump, CallerMoves, SharedType, PrivateType, Descriptors, PhaseOrder,
       shared, LevelWhenQuiet, OneBehindInCall, IdleWhenStopped, Quiet, InCall, Stopped,
       Busy, Threads, Workers, CallerPcs, WorkerPcs, Participating
  <1> QED
    BY <1>1, <1>2, <1>3, <1>4, <1>5, <1>6, <1>7, <1>8

\* StopJoined preserves the types and the control invariant.
LEMMA StopJoinedControl ==
    ASSUME ControlInv, JoinCounts, StopJoined
    PROVE  ControlInv'
  <1> USE PoolAssumption DEF ControlInv, TypeOK
  <1> DEFINE l == "gone"
  <1>1. CallerMoves(l) /\ ControlType'
    <2>1. l \in CallerPcs
      BY DEF CallerPcs, Participating
    <2> QED
      BY <2>1, CallerGoto DEF StopJoined, Joined, shared
  <1>2. SharedType'
    BY DEF StopJoined, Joined, SharedType, ErrorIndex, shared, private
  <1>3. PrivateType'
    BY DEF StopJoined, Joined, SharedType, PrivateType, ObservedType, shared, Workers, Threads
  <1>4. ObservedType'
    BY DEF StopJoined, Joined, SharedType, PrivateType, ObservedType, ErrorIndex, observed,
           TaskIds, Threads, Descriptor
  <1>5. ErrorIndex'
    BY <1>1 DEF StopJoined, Joined, CallerMoves, SharedType, PrivateType, ErrorIndex,
       TaskIds, Descriptor, Threads, Workers
  <1>6. Births' /\ ShutdownFlag' /\ NoThreadOutlivesPool'
    BY <1>1 DEF StopJoined, Joined, CallerMoves, SharedType, Births, ShutdownFlag,
       NoThreadOutlivesPool, shared, Threads, Workers, CallerPcs, WorkerPcs,
       Participating
  <1>7. PhaseOrder'
    BY <1>1 DEF StopJoined, Joined, CallerMoves, SharedType, PrivateType, PhaseOrder,
       Births, shared, LevelWhenQuiet, OneBehindInCall, IdleWhenStopped, Quiet, InCall,
       Stopped, Busy, Threads, Workers, CallerPcs, WorkerPcs, Participating
  <1>8. Descriptors'
    BY <1>1 DEF StopJoined, Joined, CallerMoves, SharedType, PrivateType, Descriptors,
       PhaseOrder, shared, LevelWhenQuiet, OneBehindInCall, IdleWhenStopped, Quiet,
       InCall, Stopped, Busy, Threads, Workers, CallerPcs, WorkerPcs, Participating
  <1> QED
    BY <1>1, <1>2, <1>3, <1>4, <1>5, <1>6, <1>7, <1>8

\* Check preserves the types and the control invariant.
LEMMA CheckControl ==
    ASSUME ControlInv, JoinCounts, NEW w \in Workers, Check(w)
    PROVE  ControlInv'
  <1> USE PoolAssumption DEF ControlInv, TypeOK
  <1> DEFINE l == IF cur_phase[w] = my_phase[w] /\ ~ shutdown THEN "wait" ELSE "gate"
  <1>1. WorkerMoves(w, l) /\ ControlType'
    <2>1. l \in WorkerPcs
      BY DEF WorkerPcs, Participating
    <2> QED
      BY <2>1, WorkerGoto DEF Check, shared
  <1>2. SharedType'
    BY DEF Check, SharedType, ErrorIndex, Threads, Workers, shared, private
  <1>3. PrivateType'
    BY DEF Check, SharedType, PrivateType, ObservedType, shared, Workers, Threads
  <1>4. ObservedType'
    BY DEF Check, ObservedType, observed
  <1>5. ErrorIndex'
    BY <1>1 DEF Check, WorkerMoves, SharedType, PrivateType, ErrorIndex, TaskIds,
       Descriptor, Threads, Workers
  <1>6. Births' /\ ShutdownFlag' /\ NoThreadOutlivesPool'
    BY <1>1 DEF Check, WorkerMoves, SharedType, Births, ShutdownFlag, NoThreadOutlivesPool,
       shared, Threads, Workers, CallerPcs, WorkerPcs, Participating
  <1>7. PhaseOrder'
    BY ZenonT(60), <1>1 DEF Check, WorkerMoves, SharedType, PrivateType, PhaseOrder, ShutdownFlag,
       Births, shared, LevelWhenQuiet, OneBehindInCall, IdleWhenStopped, Quiet, InCall,
       Stopped, Busy, Threads, Workers, CallerPcs, WorkerPcs, Participating
  <1>8. Descriptors'
    BY <1>1 DEF Check, WorkerMoves, SharedType, PrivateType, Descriptors, PhaseOrder,
       shared, LevelWhenQuiet, OneBehindInCall, IdleWhenStopped, Quiet, InCall, Stopped,
       Busy, Threads, Workers, CallerPcs, WorkerPcs, Participating
  <1> QED
    BY <1>1, <1>2, <1>3, <1>4, <1>5, <1>6, <1>7, <1>8

\* Wait preserves the types and the control invariant.
LEMMA WaitControl ==
    ASSUME ControlInv, JoinCounts, NEW w \in Workers, Wait(w)
    PROVE  ControlInv'
  <1> USE PoolAssumption DEF ControlInv, TypeOK
  <1> DEFINE l == IF phase = my_phase[w] THEN "parked" ELSE "load"
  <1>1. WorkerMoves(w, l) /\ ControlType'
    <2>1. l \in WorkerPcs
      BY DEF WorkerPcs, Participating
    <2> QED
      BY <2>1, WorkerGoto DEF Wait, shared
  <1>2. SharedType'
    BY DEF Wait, SharedType, ErrorIndex, Threads, Workers, shared, private
  <1>3. PrivateType'
    BY DEF Wait, SharedType, PrivateType, ObservedType, shared, Workers, Threads
  <1>4. ObservedType'
    BY DEF Wait, ObservedType, observed
  <1>5. ErrorIndex'
    BY <1>1 DEF Wait, WorkerMoves, SharedType, PrivateType, ErrorIndex, TaskIds, Descriptor,
       Threads, Workers
  <1>6. Births' /\ ShutdownFlag' /\ NoThreadOutlivesPool'
    BY <1>1 DEF Wait, WorkerMoves, SharedType, Births, ShutdownFlag, NoThreadOutlivesPool,
       shared, Threads, Workers, CallerPcs, WorkerPcs, Participating
  <1>7. PhaseOrder'
    BY ZenonT(60), <1>1 DEF Wait, WorkerMoves, SharedType, PrivateType, PhaseOrder, ShutdownFlag,
       Births, shared, LevelWhenQuiet, OneBehindInCall, IdleWhenStopped, Quiet, InCall,
       Stopped, Busy, Threads, Workers, CallerPcs, WorkerPcs, Participating
  <1>8. Descriptors'
    BY <1>1 DEF Wait, WorkerMoves, SharedType, PrivateType, Descriptors, PhaseOrder, shared,
       LevelWhenQuiet, OneBehindInCall, IdleWhenStopped, Quiet, InCall, Stopped, Busy,
       Threads, Workers, CallerPcs, WorkerPcs, Participating
  <1> QED
    BY <1>1, <1>2, <1>3, <1>4, <1>5, <1>6, <1>7, <1>8

\* LoadPhase preserves the types and the control invariant.
LEMMA LoadPhaseControl ==
    ASSUME ControlInv, JoinCounts, NEW w \in Workers, LoadPhase(w)
    PROVE  ControlInv'
  <1> USE PoolAssumption DEF ControlInv, TypeOK
  <1> DEFINE l == "check"
  <1>1. WorkerMoves(w, l) /\ ControlType'
    <2>1. l \in WorkerPcs
      BY DEF WorkerPcs, Participating
    <2> QED
      BY <2>1, WorkerGoto DEF LoadPhase, shared
  <1>2. SharedType'
    BY DEF LoadPhase, SharedType, ErrorIndex, Threads, Workers, shared, private
  <1>3. PrivateType'
    BY DEF LoadPhase, SharedType, PrivateType, ObservedType, shared, Workers, Threads
  <1>4. ObservedType'
    BY DEF LoadPhase, ObservedType, observed
  <1>5. ErrorIndex'
    BY <1>1 DEF LoadPhase, WorkerMoves, SharedType, PrivateType, ErrorIndex, TaskIds,
       Descriptor, Threads, Workers
  <1>6. Births' /\ ShutdownFlag' /\ NoThreadOutlivesPool'
    BY <1>1 DEF LoadPhase, WorkerMoves, SharedType, Births, ShutdownFlag,
       NoThreadOutlivesPool, shared, Threads, Workers, CallerPcs, WorkerPcs,
       Participating
  <1>7. PhaseOrder'
    BY ZenonT(60), <1>1 DEF LoadPhase, WorkerMoves, SharedType, PrivateType, PhaseOrder, ShutdownFlag,
       Births, shared, LevelWhenQuiet, OneBehindInCall, IdleWhenStopped, Quiet, InCall,
       Stopped, Busy, Threads, Workers, CallerPcs, WorkerPcs, Participating
  <1>8. Descriptors'
    BY <1>1 DEF LoadPhase, WorkerMoves, SharedType, PrivateType, Descriptors, PhaseOrder,
       shared, LevelWhenQuiet, OneBehindInCall, IdleWhenStopped, Quiet, InCall, Stopped,
       Busy, Threads, Workers, CallerPcs, WorkerPcs, Participating
  <1> QED
    BY <1>1, <1>2, <1>3, <1>4, <1>5, <1>6, <1>7, <1>8

\* Gate preserves the types and the control invariant.
LEMMA GateControl ==
    ASSUME ControlInv, JoinCounts, NEW w \in Workers, Gate(w)
    PROVE  ControlInv'
  <1> USE PoolAssumption DEF ControlInv, TypeOK
  <1> DEFINE l == IF shutdown THEN "exited" ELSE "snap"
  <1>1. WorkerMoves(w, l) /\ ControlType'
    <2>1. l \in WorkerPcs
      BY DEF WorkerPcs, Participating
    <2> QED
      BY <2>1, WorkerGoto DEF Gate, shared
  <1>2. SharedType'
    BY DEF Gate, SharedType, ErrorIndex, Threads, Workers, shared, private
  <1>3. PrivateType'
    BY DEF Gate, SharedType, PrivateType, ObservedType, shared, Workers, Threads
  <1>4. ObservedType'
    BY DEF Gate, ObservedType, observed
  <1>5. ErrorIndex'
    BY <1>1 DEF Gate, WorkerMoves, SharedType, PrivateType, ErrorIndex, TaskIds, Descriptor,
       Threads, Workers
  <1>6. Births' /\ ShutdownFlag' /\ NoThreadOutlivesPool'
    BY <1>1 DEF Gate, WorkerMoves, SharedType, Births, ShutdownFlag, NoThreadOutlivesPool,
       shared, Threads, Workers, CallerPcs, WorkerPcs, Participating
  <1>7. PhaseOrder'
    <2>1. LevelWhenQuiet'
      BY <1>1 DEF Gate, WorkerMoves, SharedType, PrivateType, PhaseOrder, ShutdownFlag,
         shared, LevelWhenQuiet, OneBehindInCall, IdleWhenStopped, Quiet, InCall,
         Stopped, Busy, Threads, Workers, CallerPcs, WorkerPcs, Participating
    <2>2. OneBehindInCall'
      BY ZenonT(60), <1>1 DEF Gate, WorkerMoves, SharedType, PrivateType, PhaseOrder, ShutdownFlag,
         shared, LevelWhenQuiet, OneBehindInCall, IdleWhenStopped, Quiet, InCall,
         Stopped, Busy, Threads, Workers, CallerPcs, WorkerPcs, Participating
    <2>3. IdleWhenStopped'
      BY <1>1 DEF Gate, WorkerMoves, SharedType, PrivateType, PhaseOrder, ShutdownFlag,
         NoThreadOutlivesPool, shared, LevelWhenQuiet, OneBehindInCall, IdleWhenStopped,
         Quiet, InCall, Stopped, Busy, Threads, Workers, CallerPcs, WorkerPcs,
         Participating
    <2> QED
      BY <2>1, <2>2, <2>3 DEF PhaseOrder
  <1>8. Descriptors'
    BY <1>1 DEF Gate, WorkerMoves, SharedType, PrivateType, Descriptors, PhaseOrder, shared,
       LevelWhenQuiet, OneBehindInCall, IdleWhenStopped, Quiet, InCall, Stopped, Busy,
       Threads, Workers, CallerPcs, WorkerPcs, Participating
  <1> QED
    BY <1>1, <1>2, <1>3, <1>4, <1>5, <1>6, <1>7, <1>8

\* Snapshot preserves the types and the control invariant.
LEMMA SnapshotControl ==
    ASSUME ControlInv, JoinCounts, NEW w \in Workers, Snapshot(w)
    PROVE  ControlInv'
  <1> USE PoolAssumption DEF ControlInv, TypeOK
  <1> DEFINE l == "task"
  <1>1. WorkerMoves(w, l) /\ ControlType'
    <2>1. l \in WorkerPcs
      BY DEF WorkerPcs, Participating
    <2> QED
      BY <2>1, WorkerGoto DEF Snapshot, shared
  <1>2. SharedType'
    BY DEF Snapshot, SharedType, ErrorIndex, Threads, Workers, shared, private
  <1>3. PrivateType'
    BY DEF Snapshot, SharedType, PrivateType, ObservedType, shared, Workers, Threads
  <1>4. ObservedType'
    BY DEF Snapshot, ObservedType, observed
  <1>5. ErrorIndex'
    <2>1. task'[0] = task[0] /\ \A v \in Workers \ {w} : task'[v] = task[v]
      BY DEF Snapshot, PrivateType, SharedType, Threads, Workers
    <2> QED
      BY <1>1, <2>1 DEF WorkerMoves, SharedType, ErrorIndex, Workers
  <1>6. Births' /\ ShutdownFlag' /\ NoThreadOutlivesPool'
    BY <1>1 DEF Snapshot, WorkerMoves, SharedType, Births, ShutdownFlag,
       NoThreadOutlivesPool, shared, Threads, Workers, CallerPcs, WorkerPcs,
       Participating
  <1>7. PhaseOrder'
    BY <1>1 DEF Snapshot, WorkerMoves, SharedType, PrivateType, PhaseOrder, ShutdownFlag,
       Births, shared, LevelWhenQuiet, OneBehindInCall, IdleWhenStopped, Quiet, InCall,
       Stopped, Busy, Threads, Workers, CallerPcs, WorkerPcs, Participating
  <1>8. Descriptors'
    <2>1. /\ local'[0] = local[0]
          /\ local'[w] = desc
          /\ \A v \in Workers \ {w} : local'[v] = local[v]
      BY DEF Snapshot, PrivateType, SharedType, Threads, Workers
    <2> QED
      BY <1>1, <2>1 DEF Snapshot, WorkerMoves, SharedType, Descriptors, shared, InCall,
         Workers, Participating
  <1> QED
    BY <1>1, <1>2, <1>3, <1>4, <1>5, <1>6, <1>7, <1>8

\* The caller creates a worker: both leave their labels at once.
LEMMA SpawnWorkerControl ==
    ASSUME ControlInv, JoinCounts, SpawnWorker
    PROVE  ControlInv'
  <1> USE PoolAssumption DEF ControlInv, TypeOK
  <1> DEFINE w == started + 1
  <1>1. w \in Workers
    BY DEF SpawnWorker, SharedType, Births, Workers
  <1>2. /\ n_threads' = n_threads
        /\ pc'[0] = "affinity"
        /\ pc'[w] = "check"
        /\ \A v \in Workers \ {w} : pc'[v] = pc[v]
    BY <1>1 DEF SpawnWorker, SharedType, ControlType, Threads, Workers
  <1>3. ControlType'
    BY <1>1, <1>2 DEF SpawnWorker, SharedType, ControlType, Threads, Workers, CallerPcs,
       WorkerPcs, Participating
  <1>4. SharedType'
    BY <1>1 DEF SpawnWorker, SharedType, Workers
  <1>5. PrivateType' /\ ObservedType'
    BY DEF SpawnWorker, PrivateType, ObservedType, observed, Threads, Workers
  <1>6. ErrorIndex'
    BY <1>1, <1>2 DEF SpawnWorker, ErrorIndex, Workers
  <1>7. Births' /\ ShutdownFlag' /\ NoThreadOutlivesPool'
    <2>1. ASSUME NEW v \in Workers PROVE v > started' <=> pc'[v] = "unborn"
      <3>1. started' = started + 1 /\ started \in Nat /\ v \in Int
        BY DEF SpawnWorker, SharedType, Workers
      <3>2. CASE v = w
        BY <1>2, <3>1, <3>2
      <3>3. CASE v # w
        BY <1>2, <3>1, <3>3 DEF Births
      <3> QED
        BY <3>2, <3>3
    <2> QED
      BY <1>1, <1>2, <2>1 DEF SpawnWorker, Births, ShutdownFlag, NoThreadOutlivesPool,
         Threads, Workers, CallerPcs, WorkerPcs, Participating
  <1>8. PhaseOrder'
    BY <1>1, <1>2 DEF SpawnWorker, SharedType, PhaseOrder, LevelWhenQuiet, OneBehindInCall,
       IdleWhenStopped, Quiet, InCall, Stopped, Busy, Threads, Workers, CallerPcs,
       WorkerPcs, Participating
  <1>9. Descriptors'
    BY <1>1, <1>2 DEF SpawnWorker, Descriptors, InCall, Threads, Workers, CallerPcs,
       WorkerPcs, Participating
  <1> QED
    BY <1>3, <1>4, <1>5, <1>6, <1>7, <1>8, <1>9

\* Notify preserves the types and the control invariant.
LEMMA NotifyControl ==
    ASSUME ControlInv, JoinCounts, Notify
    PROVE  ControlInv'
  <1> USE PoolAssumption DEF ControlInv, TypeOK
  <1>1. /\ n_threads' = n_threads
        /\ pc'[0] = "task"
        /\ \A w \in Workers : pc'[w] = IF pc[w] = "parked" THEN "wait" ELSE pc[w]
    BY DEF Notify, Unparked, shared, SharedType, Threads, Workers
  <1>2. ControlType'
    BY <1>1 DEF Notify, Unparked, shared, SharedType, ControlType, Threads, Workers,
       CallerPcs, WorkerPcs, Participating
  <1>3. SharedType' /\ PrivateType' /\ ObservedType'
    BY DEF Notify, SharedType, PrivateType, ObservedType, shared, observed, Threads, Workers
  <1>4. ErrorIndex'
    BY <1>1 DEF Notify, ErrorIndex, Workers
  <1>5. Births' /\ ShutdownFlag' /\ NoThreadOutlivesPool'
    BY <1>1 DEF Notify, shared, SharedType, Births, ShutdownFlag, NoThreadOutlivesPool,
       Threads, Workers, CallerPcs, WorkerPcs, Participating
  <1>6. PhaseOrder'
    BY <1>1 DEF Notify, shared, SharedType, PhaseOrder, LevelWhenQuiet, OneBehindInCall,
       IdleWhenStopped, Quiet, InCall, Stopped, Busy, Threads, Workers, CallerPcs,
       WorkerPcs, Participating
  <1>7. Descriptors'
    BY <1>1 DEF Notify, shared, Descriptors, InCall, Threads, Workers, CallerPcs, WorkerPcs,
       Participating
  <1> QED
    BY <1>2, <1>3, <1>4, <1>5, <1>6, <1>7

\* StopNotify preserves the types and the control invariant.
LEMMA StopNotifyControl ==
    ASSUME ControlInv, JoinCounts, StopNotify
    PROVE  ControlInv'
  <1> USE PoolAssumption DEF ControlInv, TypeOK
  <1>1. /\ n_threads' = n_threads
        /\ pc'[0] = "joining"
        /\ \A w \in Workers : pc'[w] = IF pc[w] = "parked" THEN "wait" ELSE pc[w]
    BY DEF StopNotify, Unparked, shared, SharedType, Threads, Workers
  <1>2. ControlType'
    BY <1>1 DEF StopNotify, Unparked, shared, SharedType, ControlType, Threads, Workers,
       CallerPcs, WorkerPcs, Participating
  <1>3. SharedType' /\ PrivateType' /\ ObservedType'
    BY DEF StopNotify, SharedType, PrivateType, ObservedType, shared, observed, Threads,
           Workers
  <1>4. ErrorIndex'
    BY <1>1 DEF StopNotify, ErrorIndex, Workers
  <1>5. Births' /\ ShutdownFlag' /\ NoThreadOutlivesPool'
    BY <1>1 DEF StopNotify, shared, SharedType, Births, ShutdownFlag, NoThreadOutlivesPool,
       Threads, Workers, CallerPcs, WorkerPcs, Participating
  <1>6. PhaseOrder'
    BY <1>1 DEF StopNotify, shared, SharedType, PhaseOrder, LevelWhenQuiet, OneBehindInCall,
       IdleWhenStopped, Quiet, InCall, Stopped, Busy, Threads, Workers, CallerPcs,
       WorkerPcs, Participating
  <1>7. Descriptors'
    BY <1>1 DEF StopNotify, shared, Descriptors, InCall, Threads, Workers, CallerPcs,
       WorkerPcs, Participating
  <1> QED
    BY <1>2, <1>3, <1>4, <1>5, <1>6, <1>7

\* InlineTask preserves the types and the control invariant.
LEMMA InlineTaskControl ==
    ASSUME ControlInv, JoinCounts, InlineTask
    PROVE  ControlInv'
  <1> USE PoolAssumption DEF ControlInv, TypeOK
  <1>0. task[0] \in TaskIds
    BY DEF InlineTask, SharedType, PrivateType, Descriptor, TaskIds, Threads
  <1>1. /\ n_threads' = n_threads
        /\ pc'[0] \in {"inline", "unwind"}
        /\ \A w \in Workers : pc'[w] = pc[w]
        /\ pc' \in [Threads -> CallerPcs \cup WorkerPcs]
    BY DEF InlineTask, Body, Goto, shared, SharedType, ControlType, Threads, Workers,
           CallerPcs, WorkerPcs, Participating
  <1>2. ControlType'
    BY <1>1 DEF ControlType, Threads, Workers, CallerPcs, WorkerPcs, Participating
  <1>3. SharedType'
    BY DEF InlineTask, SharedType, shared
  <1>4. PrivateType'
    BY DEF InlineTask, Body, shared, SharedType, PrivateType, Threads, Workers
  <1>5. ObservedType'
    BY <1>0 DEF InlineTask, Body, ObservedType
  <1>6. ErrorIndex'
    <2>1. \A w \in Workers : task'[w] = task[w]
      BY DEF InlineTask, Body, SharedType, PrivateType, Threads, Workers
    <2>2. pc'[0] = "unwind" => task'[0] = task[0]
      BY DEF InlineTask, Body, ControlType, PrivateType, Threads, Workers, SharedType
    <2> QED
      BY <1>0, <1>1, <2>1, <2>2 DEF ErrorIndex, Workers, TaskIds
  <1>7. Births' /\ ShutdownFlag' /\ NoThreadOutlivesPool'
    BY <1>1 DEF InlineTask, shared, SharedType, Births, ShutdownFlag, NoThreadOutlivesPool,
       Threads, Workers, CallerPcs, WorkerPcs, Participating
  <1>8. PhaseOrder'
    BY <1>1 DEF InlineTask, shared, SharedType, PhaseOrder, LevelWhenQuiet, OneBehindInCall,
       IdleWhenStopped, Quiet, InCall, Stopped, Busy, Threads, Workers, CallerPcs,
       WorkerPcs, Participating
  <1>9. Descriptors'
    BY <1>1 DEF InlineTask, shared, Descriptors, InCall, Threads, Workers, CallerPcs,
       WorkerPcs, Participating
  <1> QED
    BY <1>2, <1>3, <1>4, <1>5, <1>6, <1>7, <1>8, <1>9

-----------------------------------------------------------------------------
(* A thread's share of a phase.                                            *)

\* A participant that goes on participating disturbs only its own task index.
LEMMA ShareStays ==
    ASSUME ControlInv, NEW t \in Threads, pc[t] \in Participating, pc'[t] \in Participating,
           pc' \in [Threads -> CallerPcs \cup WorkerPcs],
           \A u \in Threads \ {t} : pc'[u] = pc[u],
           UNCHANGED <<n_threads, started, phase, shutdown, desc, my_phase, cur_phase, local>>
    PROVE  ControlType' /\ Births' /\ ShutdownFlag' /\ NoThreadOutlivesPool' /\ PhaseOrder' /\ Descriptors'
  <1> USE DEF ControlInv, TypeOK, SharedType, ControlType, Threads, Workers, CallerPcs,
  WorkerPcs, Participating
  <1>1. ControlType'
    OBVIOUS
  <1>2. Births' /\ ShutdownFlag' /\ NoThreadOutlivesPool'
    BY DEF Births, ShutdownFlag, NoThreadOutlivesPool
  <1>3. PhaseOrder'
    BY DEF PhaseOrder, LevelWhenQuiet, OneBehindInCall, IdleWhenStopped, Quiet, InCall,
           Stopped, Busy
  <1>4. Descriptors'
    BY DEF Descriptors, PhaseOrder, LevelWhenQuiet, OneBehindInCall, IdleWhenStopped, Quiet,
           InCall, Stopped, Busy
  <1> QED
    BY <1>1, <1>2, <1>3, <1>4

\* RunTask preserves the types and the control invariant.
LEMMA RunTaskControl ==
    ASSUME ControlInv, JoinCounts, NEW t \in Threads, RunTask(t)
    PROVE  ControlInv'
  <1> USE PoolAssumption DEF ControlInv, TypeOK
  <1>0. task[t] \in TaskIds
    <2>1. task[t] \in Nat /\ local[t].n \in 0 .. MaxTasks
      BY DEF PrivateType, Descriptor
    <2> QED
      BY <2>1 DEF RunTask, TaskIds
  <1>1. /\ n_threads' = n_threads
        /\ pc'[t] \in {"task", "store"}
        /\ \A u \in Threads \ {t} : pc'[u] = pc[u]
        /\ pc' \in [Threads -> CallerPcs \cup WorkerPcs]
    BY DEF RunTask, Body, Goto, shared, SharedType, ControlType, Threads, Workers,
           CallerPcs, WorkerPcs, Participating
  <1>2. ControlType' /\ Births' /\ ShutdownFlag' /\ NoThreadOutlivesPool' /\ PhaseOrder' /\ Descriptors'
    BY <1>1, ShareStays DEF RunTask, shared, Participating
  <1>3. SharedType'
    BY DEF RunTask, SharedType, shared
  <1>4. PrivateType'
    BY SMTT(60) DEF RunTask, Body, shared, SharedType, PrivateType, Threads, Workers
  <1>5. ObservedType'
    BY <1>0 DEF RunTask, Body, ObservedType
  <1>6. ErrorIndex'
    <2>1. \A u \in Threads \ {t} : task'[u] = task[u]
      BY DEF RunTask, Body, PrivateType
    <2>2. pc'[t] = "store" => task'[t] = task[t]
      BY DEF RunTask, Body, ControlType, PrivateType
    <2> QED
      BY <1>0, <1>1, <2>1, <2>2 DEF ErrorIndex, SharedType, Threads, Workers, TaskIds
  <1> QED
    BY <1>2, <1>3, <1>4, <1>5, <1>6

\* StrideDone preserves the types and the control invariant.
LEMMA StrideDoneControl ==
    ASSUME ControlInv, JoinCounts, NEW t \in Threads, StrideDone(t)
    PROVE  ControlInv'
  <1> USE PoolAssumption DEF ControlInv, TypeOK
  <1>1. /\ n_threads' = n_threads
        /\ pc'[t] = "dec"
        /\ \A u \in Threads \ {t} : pc'[u] = pc[u]
        /\ pc' \in [Threads -> CallerPcs \cup WorkerPcs]
    BY DEF StrideDone, Goto, shared, SharedType, ControlType, Threads, Workers, CallerPcs,
           WorkerPcs, Participating
  <1>2. ControlType' /\ Births' /\ ShutdownFlag' /\ NoThreadOutlivesPool' /\ PhaseOrder' /\ Descriptors'
    BY <1>1, ShareStays DEF StrideDone, shared, Participating
  <1>3. SharedType'
    BY DEF StrideDone, SharedType, PrivateType, ErrorIndex, shared, TaskIds, Threads, Workers
  <1>4. PrivateType' /\ ObservedType'
    BY DEF StrideDone, shared, observed, PrivateType, ObservedType, Threads, Workers
  <1>5. ErrorIndex'
    BY <1>1 DEF StrideDone, shared, SharedType, ErrorIndex, Threads, Workers
  <1> QED
    BY <1>2, <1>3, <1>4, <1>5

\* StoreError preserves the types and the control invariant.
LEMMA StoreErrorControl ==
    ASSUME ControlInv, JoinCounts, NEW t \in Threads, StoreError(t)
    PROVE  ControlInv'
  <1> USE PoolAssumption DEF ControlInv, TypeOK
  <1>1. /\ n_threads' = n_threads
        /\ pc'[t] = "seen"
        /\ \A u \in Threads \ {t} : pc'[u] = pc[u]
        /\ pc' \in [Threads -> CallerPcs \cup WorkerPcs]
    BY DEF StoreError, Goto, shared, SharedType, ControlType, Threads, Workers, CallerPcs,
           WorkerPcs, Participating
  <1>2. ControlType' /\ Births' /\ ShutdownFlag' /\ NoThreadOutlivesPool' /\ PhaseOrder' /\ Descriptors'
    BY <1>1, ShareStays DEF StoreError, shared, Participating
  <1>3. SharedType'
    BY DEF StoreError, SharedType, PrivateType, ErrorIndex, shared, TaskIds, Threads, Workers
  <1>4. PrivateType' /\ ObservedType'
    BY DEF StoreError, shared, observed, PrivateType, ObservedType, Threads, Workers
  <1>5. ErrorIndex'
    BY <1>1 DEF StoreError, shared, SharedType, ErrorIndex, Threads, Workers
  <1> QED
    BY <1>2, <1>3, <1>4, <1>5

\* MarkSeen preserves the types and the control invariant.
LEMMA MarkSeenControl ==
    ASSUME ControlInv, JoinCounts, NEW t \in Threads, MarkSeen(t)
    PROVE  ControlInv'
  <1> USE PoolAssumption DEF ControlInv, TypeOK
  <1>1. /\ n_threads' = n_threads
        /\ pc'[t] = "dec"
        /\ \A u \in Threads \ {t} : pc'[u] = pc[u]
        /\ pc' \in [Threads -> CallerPcs \cup WorkerPcs]
    BY DEF MarkSeen, Goto, shared, SharedType, ControlType, Threads, Workers, CallerPcs,
           WorkerPcs, Participating
  <1>2. ControlType' /\ Births' /\ ShutdownFlag' /\ NoThreadOutlivesPool' /\ PhaseOrder' /\ Descriptors'
    BY <1>1, ShareStays DEF MarkSeen, shared, Participating
  <1>3. SharedType'
    BY DEF MarkSeen, SharedType, PrivateType, ErrorIndex, shared, TaskIds, Threads, Workers
  <1>4. PrivateType' /\ ObservedType'
    BY DEF MarkSeen, shared, observed, PrivateType, ObservedType, Threads, Workers
  <1>5. ErrorIndex'
    BY <1>1 DEF MarkSeen, shared, SharedType, ErrorIndex, Threads, Workers
  <1> QED
    BY <1>2, <1>3, <1>4, <1>5

\* Decrement preserves the types and the control invariant.
LEMMA DecrementControl ==
    ASSUME ControlInv, JoinCounts, NEW t \in Threads, Decrement(t)
    PROVE  ControlInv' /\ JoinCounts'
  <1> USE PoolAssumption DEF ControlInv, TypeOK
  <1> DEFINE l == IF t = 0 THEN "join" ELSE "check"
  <1>1. /\ n_threads' = n_threads
        /\ pc'[t] = l
        /\ \A u \in Threads \ {t} : pc'[u] = pc[u]
        /\ pc' \in [Threads -> CallerPcs \cup WorkerPcs]
    BY DEF Decrement, Goto, SharedType, ControlType, Threads, Workers, CallerPcs, WorkerPcs,
           Participating
  <1>2. pc[0] \in InCall /\ pc'[0] \in InCall /\ t \in Pending
    BY <1>1 DEF Decrement, SharedType, ControlType, PhaseOrder, Pending, LevelWhenQuiet,
       OneBehindInCall, IdleWhenStopped, Quiet, InCall, Stopped, Busy, Threads, Workers,
       CallerPcs, WorkerPcs, Participating
  <1>3. /\ remaining \in Nat \ {0}
        /\ Cardinality(Pending \ {t}) = remaining - 1
    BY <1>2, PendingRemove
  <1>4. SharedType'
    BY <1>3 DEF Decrement, SharedType
  <1>5. PrivateType' /\ ObservedType'
    BY DEF Decrement, observed, PrivateType, ObservedType, Threads, Workers
  <1>11. ErrorIndex'
    BY <1>1 DEF Decrement, SharedType, ErrorIndex, Threads, Workers
  <1>6. ControlType'
    BY <1>1 DEF SharedType, ControlType, Threads, Workers, CallerPcs, WorkerPcs, Participating
  <1>7. Births' /\ ShutdownFlag' /\ NoThreadOutlivesPool'
    BY <1>1 DEF Decrement, SharedType, ControlType, Births, ShutdownFlag,
       NoThreadOutlivesPool, Threads, Workers, CallerPcs, WorkerPcs, Participating
  <1>8. PhaseOrder'
    <2>1. OneBehindInCall'
      <3>1. UNCHANGED <<phase, my_phase, cur_phase>> /\ Workers' = Workers
        BY <1>1 DEF Decrement, Workers
      <3>2. ASSUME NEW w \in Workers, w # t
            PROVE  w \in Threads \ {t} /\ pc'[w] = pc[w]
        BY <1>1, <3>2 DEF SharedType, Threads, Workers
      <3>3. ASSUME NEW w \in Workers, w = t
            PROVE  pc'[w] = "check" /\ pc[w] = "dec" /\ pc[w] \in Busy /\ pc'[w] \notin Busy
        BY <1>1, <3>3 DEF Decrement, SharedType, Workers, Busy, Participating
      <3> QED
        BY <1>2, <3>1, <3>2, <3>3 DEF PhaseOrder, OneBehindInCall
    <2>2. pc'[0] \notin Quiet \cup Stopped
      BY <1>2 DEF InCall, Participating, Quiet, Stopped
    <2> QED
      BY <2>1, <2>2 DEF PhaseOrder, LevelWhenQuiet, IdleWhenStopped
  <1>9. Descriptors'
    BY <1>1, <1>2 DEF Decrement, SharedType, Descriptors, InCall, Threads, Workers,
       CallerPcs, WorkerPcs, Participating
  <1>10. Pending' = Pending \ {t}
    <2>2. t \notin Pending'
      BY <1>1, <1>2 DEF Decrement, SharedType, PrivateType, PhaseOrder, Pending,
         LevelWhenQuiet, OneBehindInCall, IdleWhenStopped, Quiet, InCall, Stopped, Busy,
         Threads, Workers, CallerPcs, WorkerPcs, Participating
    <2>3. ASSUME NEW u \in Threads, u # t PROVE u \in Pending' <=> u \in Pending
      BY <1>1, <1>2, <2>3 DEF Decrement, Pending, InCall, Threads, Workers, CallerPcs,
         WorkerPcs, Participating
    <2> QED
      BY <1>1, <2>2, <2>3 DEF Pending, Threads
  <1> QED
    BY <1>2, <1>3, <1>4, <1>5, <1>6, <1>7, <1>8, <1>9, <1>10, <1>11 DEF Decrement, JoinCounts

-----------------------------------------------------------------------------
(* Steps that change no decrement still to come.                           *)

Counting == InCall \cup {"publish"}

\* A step that changes neither the counter nor the pending set keeps them equal.
LEMMA SamePending ==
    ASSUME JoinCounts, remaining' = remaining, pc'[0] \in Counting => pc[0] \in Counting,
           pc'[0] \in Counting => Pending' = Pending
    PROVE  JoinCounts'
  BY DEF JoinCounts, Counting

\* Caller steps that end outside a counted phase owe the counter nothing.
LEMMA CallerOutsideJoin ==
    ASSUME ControlInv, JoinCounts,
           \/ SpawnWorker \/ PinWorker \/ StartupFails \/ (\E num \in 1 .. MaxTasks : Call(num))
           \/ InlineTask \/ InlineReturn \/ ResetError \/ Describe \/ JoinPhase \/ Rethrow
           \/ Destroy \/ StopShutdown \/ StopBump \/ StopNotify \/ StopJoined
    PROVE  JoinCounts'
  <1>1. pc'[0] \notin Counting
    BY DEF SpawnWorker, PinWorker, StartupFails, Call, InlineTask, InlineReturn, ResetError,
           Describe, JoinPhase, Rethrow, Destroy, StopShutdown, StopBump, StopNotify,
           StopJoined,
           Body, Goto, Unparked, ControlInv, TypeOK, SharedType, ControlType, Counting,
           InCall,
           Threads, Workers, CallerPcs, WorkerPcs, Participating
  <1> QED
    BY <1>1 DEF JoinCounts, Counting

\* Arm preserves the count of threads still to join.
LEMMA ArmCount ==
    ASSUME ControlInv, JoinCounts, Arm
    PROVE  JoinCounts'
  <1> USE DEF ControlInv, TypeOK, SharedType, ControlType
  <1>1. pc'[0] = "publish" /\ n_threads' = n_threads /\ remaining' = n_threads
    BY DEF Arm, Participants, Goto, Threads
  <1>2. Pending' = Threads
    BY <1>1 DEF Pending, Threads
  <1>3. Cardinality(Threads) = n_threads
    BY FS_Interval DEF Threads
  <1> QED
    BY <1>1, <1>2, <1>3 DEF JoinCounts

\* Publish preserves the count of threads still to join.
LEMMA PublishCount ==
    ASSUME ControlInv, JoinCounts, Publish
    PROVE  JoinCounts'
  <1> USE DEF ControlInv, TypeOK, SharedType, ControlType
  <1>1. pc'[0] = "notify" /\ n_threads' = n_threads
    BY DEF Publish, Goto, Threads
  <1>2. Pending = Threads
    BY DEF Publish, Pending, Threads
  <1>3. Pending' = Threads
    BY <1>1 DEF Publish, Pending, PrivateType, PhaseOrder, LevelWhenQuiet, Quiet, Threads,
       Workers
  <1> QED
    BY <1>2, <1>3, SamePending DEF Publish, Counting

\* Notify preserves the count of threads still to join.
LEMMA NotifyCount ==
    ASSUME ControlInv, JoinCounts, Notify
    PROVE  JoinCounts'
  <1> USE DEF ControlInv, TypeOK, SharedType, ControlType
  <1>1. /\ n_threads' = n_threads
        /\ pc'[0] = "task"
        /\ \A w \in Workers : pc'[w] = IF pc[w] = "parked" THEN "wait" ELSE pc[w]
    BY DEF Notify, Unparked, shared, Threads, Workers
  <1>2. Pending' = Pending
    BY <1>1 DEF Notify, shared, Pending, Threads, Workers, CallerPcs, WorkerPcs, Participating
  <1> QED
    BY <1>2, SamePending DEF Notify, shared, Counting, InCall

\* Share preserves the count of threads still to join.
LEMMA ShareCount ==
    ASSUME ControlInv, JoinCounts, NEW t \in Threads,
           RunTask(t) \/ StrideDone(t) \/ StoreError(t) \/ MarkSeen(t)
    PROVE  JoinCounts'
  <1> USE DEF ControlInv, TypeOK, SharedType, ControlType
  <1>1. /\ n_threads' = n_threads
        /\ phase' = phase
        /\ my_phase' = my_phase
        /\ remaining' = remaining
        /\ pc[t] \in Participating
        /\ pc'[t] \in Participating
        /\ \A u \in Threads \ {t} : pc'[u] = pc[u]
    BY DEF RunTask, StrideDone, StoreError, MarkSeen, Body, Goto, shared, Participating
  <1>2. pc'[0] \in Counting <=> pc[0] \in Counting
    BY <1>1 DEF Counting, InCall, Threads
  <1>3. Pending' = Pending
    <2>1. ASSUME NEW u \in Threads PROVE u \in Pending' <=> u \in Pending
      BY <1>1 DEF Pending, Threads, Workers, CallerPcs, WorkerPcs, Participating
    <2> QED
      BY <1>1, <2>1 DEF Pending, Threads
  <1> QED
    BY <1>1, <1>2, <1>3, SamePending

\* Worker preserves the count of threads still to join.
LEMMA WorkerCount ==
    ASSUME ControlInv, JoinCounts, NEW w \in Workers,
           Check(w) \/ Wait(w) \/ LoadPhase(w) \/ Gate(w) \/ Snapshot(w)
    PROVE  JoinCounts'
  <1> USE DEF ControlInv, TypeOK, SharedType, ControlType
  <1>1. /\ n_threads' = n_threads
        /\ phase' = phase
        /\ remaining' = remaining
        /\ pc'[0] = pc[0]
        /\ \A v \in Workers \ {w} : pc'[v] = pc[v] /\ my_phase'[v] = my_phase[v]
    <2>1. n_threads' = n_threads /\ phase' = phase /\ remaining' = remaining
      BY DEF Check, Wait, LoadPhase, Gate, Snapshot, shared
    <2>2. \E l : Goto(w, l)
      BY DEF Check, Wait, LoadPhase, Gate, Snapshot
    <2>3. pc'[0] = pc[0] /\ \A v \in Workers \ {w} : pc'[v] = pc[v]
      BY <2>2 DEF Goto, Threads, Workers
    <2>4. \A v \in Workers \ {w} : my_phase'[v] = my_phase[v]
      BY DEF Check, Wait, LoadPhase, Gate, Snapshot, PrivateType
    <2> QED
      BY <2>1, <2>3, <2>4
  <1>2. ASSUME pc[0] \in Counting PROVE w \in Pending' <=> w \in Pending
    <2>1. CASE Gate(w)
      BY SMTT(60), <1>1, <1>2, <2>1 DEF Gate, Goto, Pending, PrivateType, ShutdownFlag, PhaseOrder,
         Counting,
                              LevelWhenQuiet, OneBehindInCall, IdleWhenStopped, Quiet,
                              InCall, Stopped, Busy, Threads, Workers, CallerPcs,
                              WorkerPcs, Participating
    <2>2. CASE Check(w) \/ Wait(w) \/ LoadPhase(w) \/ Snapshot(w)
      BY <1>1, <2>2 DEF Check, Wait, LoadPhase, Snapshot, Goto, shared, Pending, Threads,
         Workers, CallerPcs, WorkerPcs, Participating
    <2> QED
      BY <2>1, <2>2
  <1>3. ASSUME NEW u \in Threads, u # w PROVE u \in Pending' <=> u \in Pending
    BY <1>1, <1>3 DEF Pending, Threads, Workers
  <1>4. pc[0] \in Counting => Pending' = Pending
    BY <1>1, <1>2, <1>3 DEF Pending, Threads
  <1> QED
    BY <1>1, <1>4, SamePending

-----------------------------------------------------------------------------
(* The theorems.                                                           *)

\* Stuttering preserves the invariant.
LEMMA StutterInv ==
    ASSUME PoolInv, UNCHANGED vars
    PROVE  PoolInv'
  <1>1. Pending' = Pending
    BY DEF vars, shared, private, observed, Pending, Threads
  <1>2. JoinCounts'
    BY <1>1 DEF PoolInv, JoinCounts, vars, shared, private
  <1> QED
    BY SMTT(60), <1>2 DEF PoolInv, TypeOK, SharedType, ControlType, PrivateType, ObservedType,
       ErrorIndex,
           Births, ShutdownFlag, PhaseOrder, LevelWhenQuiet, OneBehindInCall, IdleWhenStopped,
           Descriptors, NoThreadOutlivesPool, vars, shared, private, observed, Threads,
           Workers

\* The invariant holds initially.
LEMMA InitInv == Init => PoolInv
  <1>1. Init => JoinCounts
    <2>1. Init => pc[0] \in {"spawn", "idle"}
      BY InitControl DEF Init, ControlInv, TypeOK, SharedType, Threads
    <2> QED
      BY <2>1 DEF JoinCounts, InCall, Participating
  <1> QED
    BY <1>1, InitControl DEF PoolInv, ControlInv

\* The invariant is inductive: one case per action of Next.
LEMMA NextInv == PoolInv /\ [Next]_vars => PoolInv'
  <1> SUFFICES ASSUME PoolInv, [Next]_vars PROVE PoolInv'
    OBVIOUS
  <1>0. ControlInv /\ JoinCounts
    BY DEF PoolInv, ControlInv
  <1> SUFFICES ASSUME ~ UNCHANGED vars PROVE ControlInv' /\ JoinCounts'
    BY StutterInv DEF PoolInv, ControlInv
  <1>1. CASE Caller
    <2>1. ASSUME NEW num \in 1 .. MaxTasks, Call(num) PROVE ControlInv' /\ JoinCounts'
      BY <1>0, <2>1, CallControl, CallerOutsideJoin
    <2>2. CASE SpawnWorker \/ PinWorker \/ StartupFails
      BY <1>0, <2>2, SpawnWorkerControl, PinWorkerControl, StartupFailsControl,
         CallerOutsideJoin
    <2>3. CASE InlineTask \/ InlineReturn \/ ResetError \/ Describe \/ JoinPhase \/ Rethrow
      BY <1>0, <2>3, InlineTaskControl, InlineReturnControl, ResetErrorControl,
         DescribeControl,
         JoinPhaseControl, RethrowControl, CallerOutsideJoin
    <2>4. CASE Destroy \/ StopShutdown \/ StopBump \/ StopNotify \/ StopJoined
      BY <1>0, <2>4, DestroyControl, StopShutdownControl, StopBumpControl, StopNotifyControl,
         StopJoinedControl, CallerOutsideJoin
    <2>5. CASE Arm \/ Publish \/ Notify
      BY <1>0, <2>5, ArmControl, ArmCount, PublishControl, PublishCount, NotifyControl,
         NotifyCount
    <2> QED
      BY <1>1, <2>1, <2>2, <2>3, <2>4, <2>5 DEF Caller
  <1>2. ASSUME NEW t \in Threads, Share(t) PROVE ControlInv' /\ JoinCounts'
    BY <1>0, <1>2, RunTaskControl, StrideDoneControl, StoreErrorControl, MarkSeenControl,
       DecrementControl, ShareCount DEF Share
  <1>3. ASSUME NEW w \in Workers, Check(w) \/ Wait(w) \/ LoadPhase(w) \/ Gate(w) \/
  Snapshot(w)
        PROVE  ControlInv' /\ JoinCounts'
    BY <1>0, <1>3, CheckControl, WaitControl, LoadPhaseControl, GateControl, SnapshotControl,
       WorkerCount
  <1>4. 0 \in Threads /\ \A w \in Workers : w \in Threads
    BY <1>0 DEF ControlInv, TypeOK, SharedType, Threads, Workers
  <1> QED
    BY <1>1, <1>2, <1>3, <1>4 DEF Next, Worker, Terminated

\* The inductive invariant holds in every reachable state of the pool.
THEOREM PoolInvariant == Spec => []PoolInv
  BY InitInv, NextInv, PTL DEF Spec

\* Every reachable state of the pool is well typed: in particular
\* remaining_workers_ never wraps below zero (thread_pool.cpp:171, 217).
THEOREM PoolTypeCorrect == Spec => []TypeOK
  <1>1. PoolInv => TypeOK
    BY DEF PoolInv
  <1> QED
    BY <1>1, PoolInvariant, PTL

\* For any number of threads, tasks and calls, a worker touches the work
\* descriptor and the callable only inside the run_phase that published them.
THEOREM PoolPhaseConfined == Spec => []PhaseConfined
  <1>1. PoolInv => PhaseConfined
    BY DEF PoolInv, PhaseConfined, TypeOK, ControlType, PhaseOrder, Descriptors,
           LevelWhenQuiet, OneBehindInCall, IdleWhenStopped, Quiet, InCall, Stopped, Busy,
           Threads, Workers, CallerPcs, WorkerPcs, Participating
  <1> QED
    BY <1>1, PoolInvariant, PTL

\* The caller's spin on remaining_workers_ counts exactly the threads that
\* still have to finish their share of the phase.
THEOREM PoolJoinCounts == Spec => []JoinCounts
  <1>1. PoolInv => JoinCounts
    BY DEF PoolInv
  <1> QED
    BY <1>1, PoolInvariant, PTL

\* Neither the destructor nor a failing constructor leaves a thread running.
THEOREM PoolLeavesNoThread == Spec => []NoThreadOutlivesPool
  <1>1. PoolInv => NoThreadOutlivesPool
    BY DEF PoolInv
  <1> QED
    BY <1>1, PoolInvariant, PTL

-----------------------------------------------------------------------------
(* The invariant.                                                          *)

\* The tasks of the current call that thread t runs.
Stride(t) == {k \in TaskIds : k < local[0].n /\ k % n_threads = t}

\* Inside parallel_for, before and after the work is handed out.
Preparing == {"reset", "describe", "arm", "publish"}

NotBegun(t) ==
    \/ pc[0] \in Preparing
    \/ t = 0 /\ pc[0] = "notify"
    \/ t # 0 /\ pc[0] \in InCall /\ (my_phase[t] # phase \/ pc[t] = "snap")

AtTask(t) == pc[t] \in {"task", "inline"}
Unwinding(t) == pc[t] \in {"store", "seen", "unwind"}

Finished(t) ==
    \/ pc[0] = "rethrow"
    \/ t = 0 /\ pc[0] \in {"dec", "join"}
    \/ t # 0 /\ pc[0] \in InCall /\ my_phase[t] = phase /\ pc[t] \notin Busy \ {"dec"}

\* None of t's tasks was started, ...
Untouched(t) == \A k \in Stride(t) : ran[k] = 0 /\ k \notin threw

\* ... those before its loop index were, ...
Reached(t) ==
    /\ task[t] % n_threads = t
    /\ \A k \in Stride(t) : ran[k] = (IF k < task[t] THEN 1 ELSE 0) /\ k \notin threw

\* ... the one at its loop index threw, ...
Thrown(t) ==
    /\ task[t] \in Stride(t) /\ task[t] \in threw
    /\ \A k \in Stride(t) : ran[k] = (IF k <= task[t] THEN 1 ELSE 0)

\* ... or each ran, or comes after one that threw.
Settled(t) == \A k \in Stride(t) : ran[k] = 1 \/ FJ!Skipped(k)

Progress(t) ==
    /\ NotBegun(t) => Untouched(t)
    /\ AtTask(t) => Reached(t)
    /\ Unwinding(t) => Thrown(t)
    /\ Finished(t) => Settled(t)

\* The first exception is kept and announced before its thread leaves.
ErrorKept ==
    pc[0] \in InCall \cup {"describe", "arm", "publish", "rethrow"} =>
        /\ error # NoError => error \in threw
        /\ threw # {} => error # NoError \/ \E t \in Threads : pc[t] = "store"
        /\ error # NoError => error_seen \/ \E t \in Threads : pc[t] = "seen"
        /\ error_seen \/ (\E t \in Threads : pc[t] = "seen") => error # NoError

StrideInv ==
    /\ pc[0] \in Preparing \cup {"notify"} => task[0] = 0
    /\ pc[0] \in Preparing \cup {"inline"} => threw = {}
    /\ pc[0] \in {"inline", "unwind"} => n_threads = 1
    /\ \A t \in Threads : Progress(t)
    /\ ErrorKept

-----------------------------------------------------------------------------
(* Arithmetic of a stride.                                                 *)

\* Division with remainder.
LEMMA DivMod ==
    ASSUME NEW n \in Nat \ {0}, NEW a \in Nat
    PROVE  a = n * (a \div n) + (a % n) /\ a \div n \in Int /\ a % n \in 0 .. n - 1
  <1>1. a = n * (a \div n) + (a % n)
    OBVIOUS
  <1>2. a \div n \in Int /\ a % n \in 0 .. n - 1
    OBVIOUS
  <1> QED
    BY <1>1, <1>2

\* No multiple of n lies strictly between 0 and n.
LEMMA NoMultipleBetween ==
    ASSUME NEW n \in Nat \ {0}, NEW k \in Int, NEW m \in Int, m = n * k, m > 0, m < n
    PROVE  FALSE
  <1>1. CASE k <= 0
    BY <1>1, SMT
  <1>2. CASE k >= 1
    BY <1>2, SMT
  <1> QED
    BY <1>1, <1>2

\* A remainder is the only one.
LEMMA RemainderUnique ==
    ASSUME NEW n \in Nat \ {0}, NEW p \in Int, NEW q \in Int, NEW r \in 0 .. n - 1,
           NEW s \in 0 .. n - 1, n * p + r = n * q + s
    PROVE  r = s
  <1>1. n * (p - q) = n * p - n * q /\ n * (q - p) = n * q - n * p
        /\ n * p \in Int /\ n * q \in Int
    OBVIOUS
  <1>2. n * (p - q) = s - r /\ n * (q - p) = r - s
    BY <1>1
  <1>3. ~(s - r > 0) /\ ~(r - s > 0)
    BY <1>2, NoMultipleBetween
  <1> QED
    BY <1>3

\* The thread's index is its first task.
LEMMA ModSmall ==
    ASSUME NEW n \in Nat \ {0}, NEW a \in 0 .. n - 1
    PROVE  a % n = a
  <1> DEFINE q == a \div n
             r == a % n
  <1>1. a = n * q + r /\ q \in Int /\ r \in 0 .. n - 1
    BY DivMod
  <1>2. a = n * 0 + a
    OBVIOUS
  <1> HIDE DEF q, r
  <1>3. r = a
    BY <1>1, <1>2, RemainderUnique
  <1> QED
    BY <1>3 DEF r

\* The loop index stays in the thread's stride.
LEMMA ModStep ==
    ASSUME NEW n \in Nat \ {0}, NEW a \in Nat
    PROVE  (a + n) % n = a % n
  <1> DEFINE q == a \div n
             r == a % n
             p == (a + n) \div n
             s == (a + n) % n
  <1>1. a = n * q + r /\ q \in Int /\ r \in 0 .. n - 1
    BY DivMod
  <1>0. a + n \in Nat
    OBVIOUS
  <1>2. a + n = n * p + s /\ p \in Int /\ s \in 0 .. n - 1
    BY <1>0, DivMod
  <1> HIDE DEF p, q, r, s
  <1>3. n * (q + 1) = n * q + n /\ n * q \in Int /\ q + 1 \in Int
    BY <1>1
  <1>4. n * p + s = n * (q + 1) + r
    BY <1>1, <1>2, <1>3
  <1>5. s = r
    BY <1>1, <1>2, <1>3, <1>4, RemainderUnique
  <1> QED
    BY <1>5 DEF r, s

\* The next task of a stride is n tasks on.
LEMMA StrideGap ==
    ASSUME NEW n \in Nat \ {0}, NEW a \in Nat, NEW b \in Nat, a < b, a % n = b % n
    PROVE  a + n <= b
  <1> SUFFICES ASSUME b - a < n PROVE FALSE
    OBVIOUS
  <1> DEFINE p == a \div n
             q == b \div n
             r == a % n
  <1>1. a = n * p + r /\ p \in Int /\ r \in Int
    BY DivMod
  <1>2. b = n * q + r /\ q \in Int
    BY DivMod
  <1> HIDE DEF p, q, r
  <1>3. n * (q - p) = n * q - n * p /\ n * q \in Int /\ n * p \in Int
    BY <1>1, <1>2
  <1>4. b - a = n * (q - p)
    BY <1>1, <1>2, <1>3
  <1> QED
    BY <1>1, <1>2, <1>4, NoMultipleBetween

-----------------------------------------------------------------------------
(* How a thread's progress carries over a step.                            *)

\* The parts of the pool's invariant used below.
LEMMA PoolParts ==
    ASSUME PoolInv
    PROVE  /\ TypeOK /\ SharedType /\ ControlType /\ PrivateType /\ ObservedType
           /\ n_threads \in Nat \ {0} /\ 0 \in Threads /\ Workers = Threads \ {0}
           /\ local[0].n \in 0 .. MaxTasks /\ task \in [Threads -> Nat]
           /\ ran \in [TaskIds -> Nat] /\ threw \subseteq TaskIds
  <1>1. TypeOK /\ SharedType /\ ControlType /\ PrivateType /\ ObservedType
    BY DEF PoolInv, TypeOK
  <1>2. n_threads \in Nat \ {0} /\ 0 \in Threads /\ Workers = Threads \ {0}
    BY <1>1, PoolAssumption DEF SharedType, Threads, Workers
  <1> QED
    BY <1>1, <1>2 DEF PrivateType, ObservedType, Descriptor

\* The call's tasks and what happened to them stay.
SameTasks ==
    UNCHANGED <<n_threads, ran, threw>> /\ local'[0] = local[0]

\* A step that touches no task keeps what every thread has reached.
LEMMA ProgressKept ==
    ASSUME SameTasks, NEW t, task'[t] = task[t]
    PROVE  /\ Untouched(t) => Untouched(t)'
           /\ Reached(t) => Reached(t)'
           /\ Thrown(t) => Thrown(t)'
           /\ Settled(t) => Settled(t)'
  BY DEF SameTasks, Untouched, Reached, Thrown, Settled, Stride, FJ!Skipped

\* A thread that starts its stride.
LEMMA UntouchedReached ==
    ASSUME PoolInv, SameTasks, NEW t \in Threads, Untouched(t), task'[t] = t
    PROVE  Reached(t)'
  <1>1. n_threads \in Nat \ {0} /\ t \in 0 .. n_threads - 1
    BY PoolParts DEF Threads
  <1>2. t % n_threads = t
    BY <1>1, ModSmall
  <1>3. ASSUME NEW k \in Stride(t), k < t PROVE FALSE
    <2>1. k \in Nat /\ k % n_threads = t
      BY <1>3 DEF Stride, TaskIds
    <2>2. k % n_threads = k
      BY <1>1, <1>3, <2>1, ModSmall
    <2> QED
      BY <1>1, <1>3, <2>1, <2>2
  <1> QED
    BY <1>2, <1>3 DEF Reached, Untouched, Stride, SameTasks

\* A stride whose loop is over.
LEMMA ReachedSettled ==
    ASSUME PoolInv, NEW t \in Threads, Reached(t), task[t] >= local[0].n
    PROVE  Settled(t)
  <1>1. \A k \in Stride(t) : k < task[t]
    BY PoolParts DEF Stride, TaskIds
  <1> QED
    BY <1>1 DEF Reached, Settled

\* A stride cut short by an exception.
LEMMA ThrownSettled ==
    ASSUME PoolInv, NEW t \in Threads, Thrown(t)
    PROVE  Settled(t)
  <1> SUFFICES ASSUME NEW k \in Stride(t), ~(k <= task[t]) PROVE FJ!Skipped(k)
    BY DEF Thrown, Settled
  <1>1. task[t] < k
    BY PoolParts DEF Stride, TaskIds
  <1> QED
    BY <1>1 DEF Thrown, Stride, FJ!Skipped

-----------------------------------------------------------------------------
(* Running a task.                                                         *)

\* Thread t runs the task at its loop index.
Runs(t) ==
    /\ Reached(t) /\ task[t] < local[0].n
    /\ ran' = [ran EXCEPT ![task[t]] = @ + 1]
    /\ n_threads' = n_threads /\ local'[0] = local[0]

\* Its task was not started before, and is of its own stride.
LEMMA RunsOwn ==
    ASSUME PoolInv, NEW t \in Threads, Reached(t), task[t] < local[0].n
    PROVE  /\ task[t] \in Stride(t) /\ task[t] \in TaskIds
           /\ ran[task[t]] = 0 /\ ~ FJ!Skipped(task[t])
  <1>1. task[t] \in TaskIds
    BY PoolParts, PoolAssumption DEF TaskIds
  <1>2. task[t] \in Stride(t)
    BY <1>1 DEF Stride, Reached
  <1>3. ASSUME NEW u \in threw, u < task[t], u % n_threads = task[t] % n_threads PROVE FALSE
    <2>1. u \in Stride(t)
      BY <1>1, <1>3, PoolParts DEF Stride, Reached, TaskIds
    <2> QED
      BY <1>3, <2>1 DEF Reached
  <1>4. ran[task[t]] = 0
    <2>1. ~(task[t] < task[t])
      BY <1>1 DEF TaskIds
    <2> QED
      BY <1>2, <2>1 DEF Reached
  <1>5. ~ FJ!Skipped(task[t])
    BY <1>3 DEF FJ!Skipped
  <1> QED
    BY <1>1, <1>2, <1>4, <1>5

\* The task returns: the loop goes on with the next task of the stride.
LEMMA RunsOn ==
    ASSUME PoolInv, NEW t \in Threads, Runs(t), threw' = threw,
           task'[t] = task[t] + n_threads
    PROVE  Reached(t)'
  <1>1. /\ task[t] \in Stride(t) /\ task[t] \in TaskIds /\ ran[task[t]] = 0
    BY RunsOwn DEF Runs
  <1>2. n_threads \in Nat \ {0} /\ task[t] \in Nat /\ ran \in [TaskIds -> Nat]
    BY PoolParts
  <1> DEFINE next == task[t] + n_threads
  <1>3. next % n_threads = t
    BY <1>2, ModStep DEF Runs, Reached
  <1>4. ASSUME NEW k \in Stride(t)
        PROVE  ran'[k] = (IF k < next THEN 1 ELSE 0) /\ k \notin threw
    <2>1. k \in TaskIds /\ k \in Nat /\ k % n_threads = task[t] % n_threads
      BY DEF Stride, TaskIds, Runs, Reached
    <2>2. CASE k < task[t]
      BY <1>2, <2>1, <2>2 DEF Runs, Reached
    <2>3. CASE k = task[t]
      BY <1>1, <1>2, <2>1, <2>3 DEF Runs, Reached
    <2>4. CASE k > task[t]
      <3>1. next <= k
        BY <1>2, <2>1, <2>4, StrideGap
      <3>2. ~(k < next) /\ ~(k < task[t]) /\ k # task[t]
        BY <1>2, <2>1, <2>4, <3>1
      <3> QED
        BY <1>2, <2>1, <3>2 DEF Runs, Reached
    <2> QED
      BY <1>2, <2>1, <2>2, <2>3, <2>4
  <1>5. Stride(t)' = Stride(t)
    BY DEF Stride, Runs
  <1> QED
    BY <1>3, <1>4, <1>5 DEF Reached, Runs

\* The task throws: the stride ends here.
LEMMA RunsOut ==
    ASSUME PoolInv, NEW t \in Threads, Runs(t), threw' = threw \cup {task[t]},
           task'[t] = task[t]
    PROVE  Thrown(t)'
  <1>1. /\ task[t] \in Stride(t) /\ task[t] \in TaskIds /\ ran[task[t]] = 0
    BY RunsOwn DEF Runs
  <1>2. task[t] \in Nat /\ ran \in [TaskIds -> Nat]
    BY PoolParts
  <1>3. ASSUME NEW k \in Stride(t) PROVE ran'[k] = (IF k <= task[t] THEN 1 ELSE 0)
    <2>1. k \in TaskIds /\ k \in Nat
      BY DEF Stride, TaskIds
    <2>2. CASE k = task[t]
      BY <1>1, <1>2, <2>1, <2>2 DEF Runs
    <2>3. CASE k # task[t]
      BY <1>1, <1>2, <2>1, <2>3 DEF Runs, Reached
    <2> QED
      BY <2>2, <2>3
  <1>4. Stride(t)' = Stride(t)
    BY DEF Stride, Runs
  <1> QED
    BY <1>1, <1>3, <1>4 DEF Thrown

\* Either way no other stride is touched.
LEMMA RunsAlone ==
    ASSUME PoolInv, NEW t \in Threads, Runs(t), threw' \in {threw, threw \cup {task[t]}},
           NEW u \in Threads, u # t, task'[u] = task[u]
    PROVE  /\ Untouched(u) => Untouched(u)'
           /\ Reached(u) => Reached(u)'
           /\ Thrown(u) => Thrown(u)'
           /\ Settled(u) => Settled(u)'
  <1>1. task[t] \notin Stride(u) /\ task[t] \in TaskIds
    BY RunsOwn DEF Runs, Stride
  <1>2. Stride(u)' = Stride(u)
    BY DEF Stride, Runs
  <1>3. \A k \in Stride(u) : ran'[k] = ran[k] /\ (k \in threw' <=> k \in threw)
    BY <1>1, PoolParts DEF Runs, Stride
  <1>4. \A k \in Stride(u) : FJ!Skipped(k) => FJ!Skipped(k)'
    BY DEF FJ!Skipped, Runs
  <1>5. (Untouched(u) => Untouched(u)') /\ (Settled(u) => Settled(u)')
    BY <1>2, <1>3, <1>4 DEF Untouched, Settled
  <1>6. (Reached(u) => Reached(u)') /\ (Thrown(u) => Thrown(u)')
    BY <1>2, <1>3 DEF Reached, Thrown, Runs
  <1> QED
    BY <1>5, <1>6

-----------------------------------------------------------------------------
(* Every step keeps StrideInv.                                             *)

CallPcs == InCall \cup {"describe", "arm", "publish", "rethrow"}
Outer == {"spawn", "affinity", "idle", "stop", "bump", "wake", "joining", "gone"}

\* What a thread has reached by its label it had reached before the step.
CarriesOn(t) ==
    /\ NotBegun(t)' => NotBegun(t)
    /\ AtTask(t)' => AtTask(t) /\ task'[t] = task[t]
    /\ Unwinding(t)' => Unwinding(t) /\ task'[t] = task[t]
    /\ Finished(t)' => Finished(t)

\* Such a thread's progress carries over a step that runs no task.
LEMMA ProgressCarried ==
    ASSUME SameTasks, NEW t, Progress(t), CarriesOn(t)
    PROVE  Progress(t)'
  <1>1. (Untouched(t) => Untouched(t)') /\ (Settled(t) => Settled(t)')
    BY DEF SameTasks, Untouched, Settled, Stride, FJ!Skipped
  <1>2. task'[t] = task[t] => (Reached(t) => Reached(t)') /\ (Thrown(t) => Thrown(t)')
    BY ProgressKept
  <1> QED
    BY <1>1, <1>2 DEF Progress, CarriesOn

\* The kept exception carries over a step that reports none.
LEMMA ErrorCarried ==
    ASSUME ErrorKept, UNCHANGED <<n_threads, error, error_seen, threw>>,
           pc'[0] \in CallPcs => pc[0] \in CallPcs,
           \A t \in Threads : /\ pc[t] = "store" => pc'[t] = "store"
                              /\ pc[t] = "seen" <=> pc'[t] = "seen"
    PROVE  ErrorKept'
  BY DEF ErrorKept, CallPcs, Threads

\* Where the caller is outside a call, no worker is busy and nothing is owed.
LEMMA OutsideCall ==
    ASSUME PoolInv', pc'[0] \in Outer
    PROVE  StrideInv'
  <1>1. (\A w \in Workers : pc[w] \notin Busy)'
    BY DEF PoolInv, PhaseOrder, LevelWhenQuiet, IdleWhenStopped, Outer, Quiet, Stopped
  <1>2. (\A w \in Workers : pc[w] \in WorkerPcs)'
    BY DEF PoolInv, TypeOK, ControlType
  <1>3. (\A t \in Threads : t = 0 \/ t \in Workers)'
    BY DEF Threads, Workers
  <1>4. (\A t \in Threads : ~NotBegun(t) /\ ~AtTask(t) /\ ~Unwinding(t) /\ ~Finished(t))'
    BY <1>1, <1>2, <1>3 DEF NotBegun, AtTask, Unwinding, Finished, Outer, Preparing, InCall,
                            Busy, Participating, WorkerPcs
  <1> QED
    BY <1>4 DEF StrideInv, Progress, ErrorKept, Outer, Preparing, InCall, Participating

\* A call hands out tasks none of which has run.
LEMMA CallStride ==
    ASSUME PoolInv, PoolInv', NEW num \in 1 .. MaxTasks, Call(num)
    PROVE  StrideInv'
  <1>1. /\ n_threads' = n_threads /\ pc'[0] = IF n_threads = 1 THEN "inline" ELSE "reset"
        /\ task'[0] = 0 /\ threw' = {} /\ \A k \in TaskIds : ran'[k] = 0
    BY PoolParts DEF Call, Goto, shared, ControlType, PrivateType
  <1>2. (\A w \in Workers : pc[w] \notin Busy /\ pc[w] \in WorkerPcs)'
    BY <1>1 DEF PoolInv, PhaseOrder, LevelWhenQuiet, Quiet, TypeOK, ControlType
  <1>3. n_threads = 1 => Threads' = {0}
    BY <1>1 DEF Threads
  <1>4. ASSUME NEW t \in Threads' PROVE Progress(t)'
    <2>1. Untouched(t)'
      BY <1>1 DEF Untouched, Stride
    <2>2. AtTask(t)' => Reached(t)'
      <3>1. t # 0 => ~AtTask(t)'
        BY <1>2, <1>4 DEF AtTask, Threads, Workers, Busy, Participating, WorkerPcs
      <3>2. n_threads = 1 /\ t = 0 => Reached(t)'
        <4>1. n_threads = 1 => 0 % n_threads = 0
          BY ModSmall
        <4>2. \A k \in TaskIds : ~(k < 0)
          BY DEF TaskIds
        <4> QED
          BY <1>1, <4>1, <4>2 DEF Reached, Stride
      <3>3. n_threads # 1 => ~AtTask(0)'
        BY <1>1 DEF AtTask
      <3> QED
        BY <3>1, <3>2, <3>3
    <2>3. ~Unwinding(t)' /\ ~Finished(t)'
      BY <1>1, <1>2, <1>4 DEF Unwinding, Finished, InCall, Threads, Workers, Busy,
                              Participating, WorkerPcs
    <2> QED
      BY <2>1, <2>2, <2>3 DEF Progress
  <1> QED
    BY <1>1, <1>4 DEF StrideInv, ErrorKept, InCall, Participating, Preparing

\* The caller prepares and joins a phase without running a task.
LEMMA CallerStride ==
    ASSUME PoolInv, StrideInv, ResetError \/ Describe \/ Arm \/ Publish \/ JoinPhase
    PROVE  StrideInv'
  <1>0. /\ SharedType /\ ControlType /\ PrivateType /\ 0 \in Threads
        /\ Workers = Threads \ {0}
    BY PoolParts
  <1>1. /\ SameTasks /\ task' = task /\ my_phase' = my_phase
        /\ \A w \in Workers : pc'[w] = pc[w]
        /\ pc[0] \in Preparing \cup {"join"} /\ pc'[0] \in CallPcs
        /\ pc'[0] \notin {"reset", "inline", "unwind", "task", "store", "seen", "dec", "join"}
    BY <1>0 DEF ResetError, Describe, Arm, Publish, JoinPhase, Goto, shared, observed,
                SameTasks, ControlType, Threads, Workers, CallPcs, InCall, Preparing
  <1>2. ASSUME NEW t \in Threads PROVE CarriesOn(t)
    <2>1. CASE ResetError \/ Describe \/ Arm
      BY <1>0, <1>1, <1>2, <2>1 DEF ResetError, Describe, Arm, Goto, CarriesOn, NotBegun,
         AtTask, Unwinding, Finished, Preparing, InCall, Participating, ControlType
    <2>2. CASE Publish
      <3>1. pc[0] = "publish" /\ pc'[0] = "notify" /\ phase' = phase + 1 /\ phase \in Nat
        BY <1>0, <2>2 DEF Publish, Goto, ControlType, SharedType
      <3>2. t # 0 => my_phase[t] = phase
        BY <1>0, <3>1 DEF PoolInv, PhaseOrder, LevelWhenQuiet, Quiet
      <3>3. t # 0 => my_phase[t] # phase + 1
        BY <3>1, <3>2
      <3> QED
        BY <1>0, <1>1, <3>1, <3>3 DEF CarriesOn, NotBegun, AtTask, Unwinding, Finished,
           Preparing, InCall, Participating
    <2>3. CASE JoinPhase
      <3>1. pc[0] = "join" /\ pc'[0] = "rethrow" /\ remaining = 0 /\ UNCHANGED phase
        BY <1>0, <2>3 DEF JoinPhase, Goto, ControlType, shared
      <3>2. Pending = {}
        BY <1>0, <3>1, JoinedEmpty DEF PoolInv, InCall
      <3>3. t # 0 => pc[t] \notin Busy /\ my_phase[t] = phase
        <4>1. t \notin Pending
          BY <3>2
        <4>2. t # 0 => my_phase[t] = phase \/ my_phase[t] + 1 = phase
          BY <1>0, <3>1 DEF PoolInv, PhaseOrder, OneBehindInCall, InCall
        <4>3. t # 0 => my_phase[t] \in Nat /\ phase \in Nat
          BY <1>0 DEF PrivateType, SharedType
        <4> QED
          BY <4>1, <4>2, <4>3 DEF Pending, Busy
      <3>4. Finished(t)
        BY <3>1, <3>3 DEF Finished, InCall
      <3> QED
        BY <1>0, <1>1, <3>1, <3>4 DEF CarriesOn, NotBegun, AtTask, Unwinding, Preparing,
           InCall, Participating
    <2> QED
      BY <2>1, <2>2, <2>3
  <1>3. \A t \in Threads : Progress(t)'
    BY <1>1, <1>2, ProgressCarried DEF StrideInv
  <1>4. ErrorKept'
    <2>1. CASE ResetError
      <3>1. /\ threw = {} /\ threw' = {} /\ error' = NoError /\ ~error_seen'
            /\ pc[0] = "reset" /\ pc'[0] = "describe" /\ n_threads' = n_threads
        BY <1>0, <2>1 DEF ResetError, Goto, observed, StrideInv, Preparing, ControlType
      <3>2. \A t \in Threads : pc'[t] # "seen"
        BY <1>0, <1>1, <3>1 DEF PoolInv, PhaseOrder, LevelWhenQuiet, Quiet, Busy,
                                Participating
      <3> QED
        BY <3>1, <3>2 DEF ErrorKept, Threads
    <2>2. CASE Describe \/ Arm \/ Publish \/ JoinPhase
      <3>1. /\ UNCHANGED <<n_threads, error, error_seen, threw>> /\ pc[0] \in CallPcs
            /\ pc[0] \notin {"store", "seen"}
        BY <2>2 DEF Describe, Arm, Publish, JoinPhase, shared, observed, CallPcs, InCall
      <3> QED
        BY <1>0, <1>1, <3>1, ErrorCarried DEF StrideInv
    <2> QED
      BY <2>1, <2>2
  <1>5. Threads' = Threads
    BY <1>1 DEF SameTasks, Threads
  <1>6. (pc'[0] \in Preparing \cup {"notify"} => task'[0] = 0) /\ (pc'[0] \in Preparing => threw' = {})
    <2>1. pc'[0] \in Preparing \cup {"notify"} => pc[0] \in Preparing
      BY <1>0 DEF ResetError, Describe, Arm, Publish, JoinPhase, Goto, ControlType, Preparing
    <2> QED
      BY <1>1, <2>1 DEF StrideInv, SameTasks
  <1> QED
    BY <1>1, <1>3, <1>4, <1>5, <1>6 DEF StrideInv

\* The caller starts its own stride.
LEMMA NotifyStride ==
    ASSUME PoolInv, StrideInv, Notify
    PROVE  StrideInv'
  <1>0. /\ SharedType /\ ControlType /\ 0 \in Threads /\ Workers = Threads \ {0}
    BY PoolParts
  <1>1. /\ SameTasks /\ task' = task /\ UNCHANGED <<my_phase, phase, error, error_seen>>
        /\ pc[0] = "notify" /\ pc'[0] = "task"
        /\ \A w \in Workers : pc'[w] = IF pc[w] = "parked" THEN "wait" ELSE pc[w]
    BY <1>0 DEF Notify, Unparked, shared, observed, SameTasks
  <1>2. ASSUME NEW t \in Threads \ {0} PROVE Progress(t)'
    <2>1. CarriesOn(t)
      BY <1>0, <1>1, <1>2 DEF CarriesOn, NotBegun, AtTask, Unwinding, Finished, Preparing,
         InCall, Participating, Busy
    <2> QED
      BY <1>1, <2>1, ProgressCarried DEF StrideInv
  <1>3. Progress(0)'
    <2>1. Untouched(0) /\ task[0] = 0
      BY <1>0, <1>1 DEF StrideInv, Progress, NotBegun
    <2>2. Reached(0)'
      BY <1>0, <1>1, <2>1, UntouchedReached
    <2> QED
      BY <1>1, <2>2 DEF Progress, NotBegun, AtTask, Unwinding, Finished, Preparing
  <1>4. ErrorKept'
    BY <1>0, <1>1, ErrorCarried DEF StrideInv, SameTasks, CallPcs, InCall
  <1>5. Threads' = Threads
    BY <1>1 DEF SameTasks, Threads
  <1> QED
    BY <1>1, <1>2, <1>3, <1>4, <1>5 DEF StrideInv, Preparing

\* A thread that takes part does so inside the call it works for.
LEMMA SharesCall ==
    ASSUME PoolInv, NEW t \in Threads, pc[t] \in Participating
    PROVE  /\ pc[0] \in InCall /\ local[t].n = local[0].n
           /\ t # 0 => t \in Workers /\ my_phase[t] = phase
  <1>1. CASE t = 0
    BY <1>1 DEF InCall
  <1>2. CASE t # 0
    <2>1. t \in Workers /\ pc[t] \in Busy
      BY <1>2, PoolParts DEF Busy
    <2>2. pc[0] \in CallerPcs /\ pc[0] \notin Quiet \cup Stopped
      BY <2>1 DEF PoolInv, TypeOK, ControlType, PhaseOrder, LevelWhenQuiet, IdleWhenStopped
    <2>3. pc[0] \in InCall
      BY <2>2 DEF CallerPcs, Quiet, Stopped, InCall, Participating
    <2> QED
      BY <2>1, <2>3 DEF PoolInv, PhaseOrder, OneBehindInCall, Descriptors
  <1> QED
    BY <1>1, <1>2

\* A task runs: its stride goes on, or ends in an exception.
LEMMA RunTaskStride ==
    ASSUME PoolInv, StrideInv, NEW t \in Threads, RunTask(t)
    PROVE  StrideInv'
  <1>0. /\ SharedType /\ ControlType /\ PrivateType /\ Workers = Threads \ {0}
        /\ threw \subseteq TaskIds
    BY PoolParts
  <1>1. /\ pc[t] = "task" /\ pc[0] \in InCall /\ local[t].n = local[0].n
        /\ t # 0 => my_phase[t] = phase
    BY SharesCall DEF RunTask, Participating
  <1>2. /\ UNCHANGED <<n_threads, phase, my_phase, local, error, error_seen>>
        /\ \A u \in Threads \ {t} : pc'[u] = pc[u] /\ task'[u] = task[u]
    BY <1>0 DEF RunTask, Body, Goto, shared, ControlType, PrivateType
  <1>3. Runs(t)
    BY <1>1, <1>2 DEF RunTask, Body, Runs, StrideInv, Progress, AtTask
  <1>4. \/ threw' = threw /\ task'[t] = task[t] + n_threads /\ pc'[t] = "task"
        \/ threw' = threw \cup {task[t]} /\ task'[t] = task[t] /\ pc'[t] = "store"
    BY <1>0, <1>1 DEF RunTask, Body, Goto, ControlType, PrivateType
  <1>5. pc'[0] \in InCall /\ (pc'[0] = "notify" => pc[0] = "notify" /\ t # 0)
        /\ (pc'[0] # pc[0] => t = 0)
    BY <1>0, <1>1, <1>2, <1>4 DEF InCall, Participating, Threads, SharedType
  <1>6. ASSUME NEW u \in Threads, u # t PROVE Progress(u)'
    <2>1. /\ NotBegun(u)' => NotBegun(u)
          /\ AtTask(u)' => AtTask(u)
          /\ Unwinding(u)' => Unwinding(u)
          /\ Finished(u)' => Finished(u)
      BY <1>1, <1>2, <1>5, <1>6 DEF NotBegun, AtTask, Unwinding, Finished, Preparing, InCall,
         Participating
    <2>2. /\ Untouched(u) => Untouched(u)'
          /\ Reached(u) => Reached(u)'
          /\ Thrown(u) => Thrown(u)'
          /\ Settled(u) => Settled(u)'
      BY <1>2, <1>3, <1>4, <1>6, RunsAlone
    <2> QED
      BY <2>1, <2>2 DEF StrideInv, Progress
  <1>7. Progress(t)'
    <2>1. ~NotBegun(t)' /\ ~Finished(t)'
      BY <1>1, <1>2, <1>4, <1>5 DEF NotBegun, Finished, Preparing, InCall, Participating, Busy
    <2>2. CASE pc'[t] = "task"
      BY <1>3, <1>4, <2>1, <2>2, RunsOn DEF Progress, Unwinding
    <2>3. CASE pc'[t] = "store"
      BY <1>3, <1>4, <2>1, <2>3, RunsOut DEF Progress, AtTask
    <2> QED
      BY <1>4, <2>2, <2>3
  <1>8. ErrorKept'
    <2>1. Threads' = Threads /\ threw \subseteq threw' /\ (threw' # threw => pc'[t] = "store")
      BY <1>2, <1>4 DEF Threads
    <2>2. \A u \in Threads : /\ pc[u] = "store" => pc'[u] = "store"
                             /\ pc[u] = "seen" <=> pc'[u] = "seen"
      BY <1>1, <1>2, <1>4
    <2> QED
      BY <1>1, <1>2, <2>1, <2>2 DEF StrideInv, ErrorKept
  <1>9. Threads' = Threads /\ 0 \in Threads
    BY <1>2, PoolParts DEF Threads
  <1>10. pc'[0] = "notify" => task'[0] = 0
    BY <1>2, <1>5, <1>9 DEF StrideInv
  <1>11. pc'[0] \notin Preparing \cup {"inline", "unwind"}
    BY <1>5 DEF Preparing, InCall, Participating
  <1>12. \A u \in Threads : Progress(u)'
    BY <1>6, <1>7
  <1> QED
    BY <1>8, <1>9, <1>10, <1>11, <1>12 DEF StrideInv

\* The rest of a thread's share: the stride is over, the exception is stored
\* and announced, and the thread is counted out.
LEMMA ShareStride ==
    ASSUME PoolInv, StrideInv, NEW t \in Threads,
           StrideDone(t) \/ StoreError(t) \/ MarkSeen(t) \/ Decrement(t)
    PROVE  StrideInv'
  <1>0. /\ SharedType /\ ControlType /\ PrivateType /\ Workers = Threads \ {0}
        /\ 0 \in Threads /\ t \in Nat
    BY PoolParts DEF Threads
  <1>1. /\ pc[t] \in Participating /\ pc[0] \in InCall /\ local[t].n = local[0].n
        /\ t # 0 => my_phase[t] = phase
    BY SharesCall DEF StrideDone, StoreError, MarkSeen, Decrement, Participating
  <1>2. /\ SameTasks /\ UNCHANGED <<phase, my_phase, task>>
        /\ \A u \in Threads \ {t} : pc'[u] = pc[u]
    BY <1>0 DEF StrideDone, StoreError, MarkSeen, Decrement, Goto, shared, observed,
                ControlType, SameTasks
  <1>3. /\ StrideDone(t) => pc[t] = "task" /\ pc'[t] = "dec" /\ task[t] >= local[0].n
        /\ StoreError(t) => pc[t] = "store" /\ pc'[t] = "seen"
        /\ MarkSeen(t) => pc[t] = "seen" /\ pc'[t] = "dec"
        /\ Decrement(t) => pc[t] = "dec" /\ pc'[t] = IF t = 0 THEN "join" ELSE "check"
    BY <1>0, <1>1 DEF StrideDone, StoreError, MarkSeen, Decrement, Goto, ControlType
  <1>4. pc'[0] \in InCall /\ (pc'[0] = "notify" => pc[0] = "notify" /\ t # 0)
        /\ (pc'[0] # pc[0] => t = 0)
    BY <1>0, <1>1, <1>2, <1>3 DEF InCall, Participating
  <1>5. ASSUME NEW u \in Threads, u # t PROVE Progress(u)'
    <2>1. CarriesOn(u)
      BY <1>1, <1>2, <1>4, <1>5 DEF CarriesOn, NotBegun, AtTask, Unwinding, Finished,
         Preparing, InCall, Participating
    <2> QED
      BY <1>2, <2>1, ProgressCarried DEF StrideInv
  <1>6. Progress(t)'
    <2>1. ~NotBegun(t)' /\ ~AtTask(t)'
      BY <1>1, <1>2, <1>3, <1>4 DEF NotBegun, AtTask, Preparing, InCall, Participating
    <2>2. Settled(t) => Settled(t)'
      BY <1>2, ProgressKept
    <2>3. CASE StrideDone(t)
      <3>1. Settled(t)
        BY <1>3, <2>3, ReachedSettled DEF StrideInv, Progress, AtTask
      <3> QED
        BY <1>3, <2>1, <2>2, <2>3, <3>1 DEF Progress, Unwinding
    <2>4. CASE StoreError(t)
      <3>1. CarriesOn(t)
        BY <1>1, <1>2, <1>3, <1>4, <2>1, <2>4 DEF CarriesOn, Unwinding, Finished, InCall,
           Participating, Busy
      <3> QED
        BY <1>2, <3>1, ProgressCarried DEF StrideInv
    <2>5. CASE MarkSeen(t)
      <3>1. Settled(t)
        BY <1>3, <2>5, ThrownSettled DEF StrideInv, Progress, Unwinding
      <3> QED
        BY <1>3, <2>1, <2>2, <2>5, <3>1 DEF Progress, Unwinding
    <2>6. CASE Decrement(t)
      <3>1. Finished(t)
        BY <1>1, <1>3, <2>6 DEF Finished, Busy, Participating
      <3> QED
        BY <1>3, <2>1, <2>2, <2>6, <3>1 DEF StrideInv, Progress, Unwinding
    <2> QED
      BY <2>3, <2>4, <2>5, <2>6
  <1>7. ErrorKept'
    <2>0. Threads' = Threads /\ threw' = threw
      BY <1>2 DEF SameTasks, Threads
    <2>1. CASE StrideDone(t) \/ Decrement(t)
      <3>1. UNCHANGED <<n_threads, error, error_seen, threw>>
        BY <2>1 DEF StrideDone, Decrement, shared, observed
      <3>2. \A u \in Threads : /\ pc[u] = "store" => pc'[u] = "store"
                               /\ pc[u] = "seen" <=> pc'[u] = "seen"
        BY <1>0, <1>2, <1>3, <2>1
      <3>3. pc[0] \in CallPcs
        BY <1>1 DEF CallPcs
      <3> QED
        BY <3>1, <3>2, <3>3, ErrorCarried DEF StrideInv
    <2>2. CASE StoreError(t)
      <3>1. error' = (IF error = NoError THEN task[t] ELSE error) /\ error_seen' = error_seen
        BY <2>2 DEF StoreError
      <3>2. task[t] \in threw /\ task[t] # NoError
        BY <1>3, <2>2, PoolParts DEF StrideInv, Progress, Unwinding, Thrown, TaskIds, NoError
      <3>3. pc'[t] = "seen"
        BY <1>3, <2>2
      <3> QED
        BY <1>1, <2>0, <3>1, <3>2, <3>3 DEF StrideInv, ErrorKept
    <2>3. CASE MarkSeen(t)
      <3>1. error' = error /\ error_seen' = TRUE
        BY <2>3 DEF MarkSeen
      <3>2. error # NoError
        BY <1>1, <1>3, <2>3 DEF StrideInv, ErrorKept
      <3>3. error \in threw
        BY <1>1, <3>2 DEF StrideInv, ErrorKept
      <3> QED
        BY <2>0, <3>1, <3>2, <3>3 DEF ErrorKept
    <2> QED
      BY <2>1, <2>2, <2>3
  <1>8. Threads' = Threads
    BY <1>2 DEF SameTasks, Threads
  <1> QED
    BY <1>2, <1>4, <1>5, <1>6, <1>7, <1>8 DEF StrideInv, SameTasks, Preparing, InCall,
       Participating

\* A worker between two phases.
LEMMA WorkerStride ==
    ASSUME PoolInv, PoolInv', StrideInv, NEW w \in Workers,
           Check(w) \/ Wait(w) \/ LoadPhase(w) \/ Gate(w) \/ Snapshot(w)
    PROVE  StrideInv'
  <1>0. /\ SharedType /\ ControlType /\ PrivateType /\ Workers = Threads \ {0}
        /\ 0 \in Threads /\ w \in Threads /\ w # 0
    BY PoolParts
  <1>1. /\ SameTasks /\ UNCHANGED <<phase, error, error_seen>>
        /\ \A u \in Threads \ {w} :
              pc'[u] = pc[u] /\ task'[u] = task[u] /\ (u # 0 => my_phase'[u] = my_phase[u])
        /\ pc[w] \in {"check", "wait", "load", "gate", "snap"}
        /\ pc'[w] \in {"wait", "gate", "parked", "load", "check", "exited", "snap", "task"}
    BY <1>0 DEF Check, Wait, LoadPhase, Gate, Snapshot, Goto, shared, observed, ControlType,
                PrivateType, SameTasks
  <1>2. pc'[0] = pc[0] /\ task'[0] = task[0]
    BY <1>0, <1>1
  <1>3. CASE pc[0] \in Outer
    BY <1>2, <1>3, OutsideCall
  <1>4. CASE pc[0] \notin Outer
    <2>1. ASSUME NEW u \in Threads, u # w PROVE Progress(u)'
      <3>1. CarriesOn(u)
        BY <1>0, <1>1, <1>2, <2>1 DEF CarriesOn, NotBegun, AtTask, Unwinding, Finished
      <3> QED
        BY <1>1, <3>1, ProgressCarried DEF StrideInv
    <2>2. Progress(w)'
      <3>1. CASE Check(w) \/ Wait(w) \/ LoadPhase(w)
        <4>1. my_phase' = my_phase /\ pc'[w] \notin Busy /\ pc[w] \notin Busy
          BY <1>0, <3>1 DEF Check, Wait, LoadPhase, Goto, ControlType, Busy, Participating
        <4>2. CarriesOn(w)
          BY <1>0, <1>1, <1>2, <4>1 DEF CarriesOn, NotBegun, AtTask, Unwinding, Finished,
             Busy, Participating
        <4> QED
          BY <1>0, <1>1, <4>2, ProgressCarried DEF StrideInv
      <3>2. CASE Gate(w)
        <4>1. pc[w] = "gate" /\ task' = task
          BY <3>2 DEF Gate
        <4>2. pc[0] \in CallerPcs /\ pc[0] \notin Quiet
          BY <1>4, <4>1 DEF PoolInv, TypeOK, ControlType, PhaseOrder, LevelWhenQuiet, Outer
        <4>3. pc[0] \in InCall
          BY <1>4, <4>2 DEF CallerPcs, Quiet, Outer, InCall, Participating
        <4>4. my_phase[w] # phase /\ cur_phase[w] = phase /\ ~shutdown
          BY <4>1, <4>3 DEF PoolInv, PhaseOrder, OneBehindInCall, ShutdownFlag, InCall,
                            Participating
        <4>5. pc'[w] = "snap"
          BY <1>0, <3>2, <4>4 DEF Gate, Goto, ControlType
        <4>6. NotBegun(w) /\ ~AtTask(w)' /\ ~Unwinding(w)' /\ ~Finished(w)'
          BY <1>0, <1>2, <4>3, <4>4, <4>5 DEF NotBegun, AtTask, Unwinding, Finished, Busy,
             InCall, Participating
        <4> QED
          BY <1>0, <1>1, <4>6, ProgressKept, <4>1 DEF StrideInv, Progress
      <3>3. CASE Snapshot(w)
        <4>1. pc[w] = "snap" /\ pc'[w] = "task" /\ my_phase' = my_phase /\ task'[w] = w
          BY <1>0, <3>3 DEF Snapshot, Goto, ControlType, PrivateType
        <4>2. pc[0] \in CallerPcs /\ pc[0] \notin Quiet \cup Stopped
          BY <4>1 DEF PoolInv, TypeOK, ControlType, PhaseOrder, LevelWhenQuiet,
                      IdleWhenStopped, Busy
        <4>3. pc[0] \in InCall
          BY <4>2 DEF CallerPcs, Quiet, Stopped, InCall, Participating
        <4>4. my_phase[w] = phase
          BY <4>1, <4>3 DEF PoolInv, PhaseOrder, OneBehindInCall, Busy
        <4>5. Untouched(w)
          BY <1>0, <4>1, <4>3 DEF StrideInv, Progress, NotBegun
        <4>6. Reached(w)'
          BY <1>0, <1>1, <4>1, <4>5, UntouchedReached
        <4>7. ~NotBegun(w)' /\ ~Unwinding(w)' /\ ~Finished(w)'
          BY <1>0, <1>1, <1>2, <4>1, <4>3, <4>4 DEF NotBegun, Unwinding, Finished, Busy,
             InCall, Participating, Preparing
        <4> QED
          BY <4>6, <4>7 DEF Progress
      <3> QED
        BY <3>1, <3>2, <3>3
    <2>3. ErrorKept'
      BY <1>0, <1>1, <1>2, ErrorCarried DEF StrideInv, SameTasks
    <2>4. Threads' = Threads
      BY <1>1 DEF SameTasks, Threads
    <2> QED
      BY <1>1, <1>2, <2>1, <2>2, <2>3, <2>4 DEF StrideInv, SameTasks
  <1> QED
    BY <1>3, <1>4

\* A pool of one thread runs the tasks inline.
LEMMA InlineStride ==
    ASSUME PoolInv, StrideInv, InlineTask
    PROVE  StrideInv'
  <1>0. /\ SharedType /\ ControlType /\ PrivateType /\ 0 \in Threads
    BY PoolParts
  <1>1. pc[0] = "inline" /\ n_threads = 1 /\ n_threads' = n_threads /\ local' = local
    BY DEF InlineTask, StrideInv, shared
  <1>2. Runs(0)
    BY <1>0, <1>1 DEF InlineTask, Body, Runs, StrideInv, Progress, AtTask
  <1>3. \/ threw' = threw /\ task'[0] = task[0] + n_threads /\ pc'[0] = "inline"
        \/ threw' = threw \cup {task[0]} /\ task'[0] = task[0] /\ pc'[0] = "unwind"
    BY <1>0, <1>1 DEF InlineTask, Body, Goto, ControlType, PrivateType
  <1>4. Threads' = {0}
    BY <1>1 DEF Threads
  <1>5. Progress(0)'
    <2>1. ~NotBegun(0)' /\ ~Finished(0)'
      BY <1>3 DEF NotBegun, Finished, Preparing, InCall, Participating
    <2>2. CASE pc'[0] = "inline"
      BY <1>0, <1>2, <1>3, <2>1, <2>2, RunsOn DEF Progress, Unwinding
    <2>3. CASE pc'[0] = "unwind"
      BY <1>0, <1>2, <1>3, <2>1, <2>3, RunsOut DEF Progress, AtTask
    <2> QED
      BY <1>3, <2>2, <2>3
  <1>6. ErrorKept'
    BY <1>3 DEF ErrorKept, InCall, Participating
  <1> QED
    BY <1>1, <1>3, <1>4, <1>5, <1>6 DEF StrideInv, Preparing

\* Every step keeps the strides.
LEMMA NextStride ==
    ASSUME PoolInv, PoolInv', StrideInv, [Next]_vars
    PROVE  StrideInv'
  <1>0. /\ SharedType /\ ControlType /\ 0 \in Threads /\ Workers = Threads \ {0}
    BY PoolParts
  <1>1. CASE Caller
    <2>1. ASSUME NEW num \in 1 .. MaxTasks, Call(num) PROVE StrideInv'
      BY <2>1, CallStride
    <2>2. CASE SpawnWorker \/ PinWorker \/ StartupFails \/ InlineReturn \/ Rethrow \/ Destroy
                 \/ StopShutdown \/ StopBump \/ StopNotify \/ StopJoined
      <3>1. pc'[0] \in Outer
        BY <1>0, <2>2 DEF SpawnWorker, PinWorker, StartupFails, InlineReturn, Rethrow, Destroy,
           StopShutdown, StopBump, StopNotify, StopJoined, Goto, Unparked, ControlType,
           SharedType, Threads, Outer
      <3> QED
        BY <3>1, OutsideCall
    <2> QED
      BY <1>1, <2>1, <2>2, InlineStride, CallerStride, NotifyStride DEF Caller
  <1>2. ASSUME NEW t \in Threads, Share(t) PROVE StrideInv'
    BY <1>2, RunTaskStride, ShareStride DEF Share
  <1>3. ASSUME NEW w \in Workers, Worker(w) PROVE StrideInv'
    BY <1>0, <1>2, <1>3, WorkerStride DEF Worker
  <1>4. CASE UNCHANGED vars
    <2>1. SameTasks /\ \A t \in Threads : CarriesOn(t)
      BY <1>4 DEF vars, shared, private, observed, SameTasks, CarriesOn, NotBegun, AtTask,
                  Unwinding, Finished
    <2>2. \A t \in Threads : Progress(t)'
      BY <2>1, ProgressCarried DEF StrideInv
    <2>3. ErrorKept' /\ Threads' = Threads
      BY <1>4 DEF vars, shared, private, observed, StrideInv, ErrorKept, Threads
    <2> QED
      BY <1>4, <2>2, <2>3 DEF StrideInv, vars, shared, private, observed
  <1> QED
    BY <1>0, <1>1, <1>2, <1>3, <1>4 DEF Next, Terminated

-----------------------------------------------------------------------------
(* Every step is a step of ForkJoin.                                       *)

\* A new pool starts, or is idle if it has no thread to create.
LEMMA InitRefines == Init => StrideInv /\ FJ!Init
  <1> SUFFICES ASSUME Init PROVE StrideInv /\ FJ!Init
    OBVIOUS
  <1>1. PoolInv
    BY InitInv
  <1>2. /\ n_threads \in Nat \ {0} /\ 0 \in Threads /\ started = 0 /\ local[0].n = 0
        /\ pc[0] = IF n_threads = 1 THEN "idle" ELSE "spawn"
        /\ \A t \in Threads \ {0} : pc[t] = "unborn"
    BY <1>1, PoolParts DEF Init, NoDescriptor
  <1>3. \A t \in Threads : ~NotBegun(t) /\ ~AtTask(t) /\ ~Unwinding(t) /\ ~Finished(t)
    BY <1>2 DEF NotBegun, AtTask, Unwinding, Finished, Preparing, InCall, Participating
  <1>4. StrideInv
    BY <1>2, <1>3 DEF StrideInv, Progress, ErrorKept, Preparing, InCall, Participating
  <1>5. Status \in {"starting", "idle"}
    BY <1>2 DEF Status, InCall, Participating
  <1> QED
    BY <1>2, <1>4, <1>5 DEF Init, FJ!Init, FJ!TaskIds, FJ!NoError, TaskIds, NoError

\* A step that leaves alone all that the caller sees.
Unseen == UNCHANGED <<n_threads, ran, threw, outcome>> /\ local'[0] = local[0]

\* A step inside a call, seen from outside, is none.
LEMMA StaysRunning ==
    ASSUME Unseen, Status' = Status
    PROVE  UNCHANGED FJ!vars
  BY DEF Unseen, FJ!vars

Inside == InCall \cup {"inline", "unwind", "reset", "describe", "arm", "publish", "rethrow"}

\* Inside a call the pool is complete, and running.
LEMMA InsideRuns ==
    ASSUME PoolInv, pc[0] \in Inside
    PROVE  Status = "running" /\ started = n_threads - 1
  <1>1. pc[0] \notin {"spawn", "affinity", "stop", "bump", "wake", "joining", "gone"}
    BY DEF Inside, InCall, Participating
  <1>2. pc[0] \in CallerPcs
    BY DEF PoolInv, TypeOK, ControlType
  <1>3. started = n_threads - 1 /\ started \in Int
    BY <1>1, <1>2 DEF PoolInv, Births, TypeOK, SharedType
  <1> QED
    BY <1>1, <1>3 DEF Status, Inside

\* The same in the next state.
LEMMA InsideRunsNext ==
    ASSUME PoolInv', pc'[0] \in Inside
    PROVE  Status' = "running"
  <1>1. pc'[0] \notin {"spawn", "affinity", "stop", "bump", "wake", "joining", "gone"}
    BY DEF Inside, InCall, Participating
  <1>2. pc'[0] \in CallerPcs
    BY DEF PoolInv, TypeOK, ControlType
  <1>3. (started = n_threads - 1)'
    BY <1>1, <1>2 DEF PoolInv, Births
  <1>4. (started \in Int /\ n_threads \in Int)'
    BY DEF PoolInv, TypeOK, SharedType
  <1> DEFINE last == started'
             width == n_threads'
  <1>5. ~(last < width - 1)
    <2>1. last = width - 1 /\ last \in Int /\ width \in Int
      BY <1>3, <1>4
    <2> HIDE DEF last, width
    <2> QED
      BY <2>1
  <1> QED
    BY <1>1, <1>5 DEF Status, Inside

\* Starting up and shutting down.
LEMMA LifecycleRefines ==
    ASSUME PoolInv, SpawnWorker \/ PinWorker \/ StartupFails \/ Destroy \/ StopShutdown
                      \/ StopBump \/ StopNotify \/ StopJoined
    PROVE  [FJ!Next]_FJ!vars
  <1>0. /\ SharedType /\ ControlType /\ 0 \in Threads
    BY PoolParts
  <1>1. Unseen
    BY DEF SpawnWorker, PinWorker, StartupFails, Destroy, StopShutdown, StopBump, StopNotify,
           StopJoined, shared, observed, Unseen
  <1>2. SpawnWorker => Status = "starting" /\ Status' = "starting"
    <2>1. SpawnWorker => started + 1 \in Workers
      BY <1>0 DEF SpawnWorker, PoolInv, Births, SharedType, Workers
    <2>2. SpawnWorker => pc[0] = "spawn" /\ pc'[0] = "affinity"
      BY <1>0, <2>1 DEF SpawnWorker, ControlType, SharedType, Threads, Workers
    <2> QED
      BY <2>2 DEF Status
  <1>3. PinWorker => Status = "starting" /\ Status' \in {"starting", "idle"}
    <2>1. PinWorker => pc[0] = "affinity" /\ pc'[0] \in {"idle", "spawn"}
      BY <1>0 DEF PinWorker, Goto, ControlType
    <2> QED
      BY <2>1 DEF Status, InCall, Participating
  <1>4. StartupFails => Status = "starting" /\ Status' \in {"starting", "idle", "gone"}
    <2>1. StartupFails => pc[0] \in {"spawn", "affinity"} /\ pc'[0] \in {"gone", "stop"}
      BY <1>0 DEF StartupFails, Goto, ControlType
    <2> QED
      BY <2>1 DEF Status, InCall, Participating
  <1>5. Destroy => Status = "idle" /\ Status' \in {"idle", "gone"}
    <2>1. Destroy => pc[0] = "idle" /\ pc'[0] \in {"gone", "stop"} /\ UNCHANGED <<started, n_threads>>
      BY <1>0 DEF Destroy, Goto, ControlType, shared
    <2>2. Destroy => ~(started < n_threads - 1)
      BY <1>0, <2>1 DEF PoolInv, Births, SharedType, CallerPcs
    <2> QED
      BY <2>1, <2>2 DEF Status, InCall, Participating
  <1>6. StopShutdown \/ StopBump \/ StopNotify => Status' = Status
    <2>1. StopShutdown \/ StopBump \/ StopNotify =>
            /\ pc[0] \in {"stop", "bump", "wake"} /\ pc'[0] \in {"bump", "wake", "joining"}
            /\ UNCHANGED <<started, n_threads>>
      BY <1>0 DEF StopShutdown, StopBump, StopNotify, Goto, Unparked, ControlType, shared
    <2> QED
      BY <2>1 DEF Status, InCall, Participating
  <1>7. StopJoined => Status \in {"starting", "idle"} /\ Status' = "gone"
    <2>1. StopJoined => pc[0] = "joining" /\ pc'[0] = "gone"
      BY <1>0 DEF StopJoined, Goto, ControlType
    <2> QED
      BY <2>1 DEF Status, InCall, Participating
  <1>8. Status = "starting" /\ Status' \in {"idle", "gone"} => FJ!Start
    BY <1>1 DEF FJ!Start, Unseen
  <1>9. Status = "idle" /\ Status' = "gone" => FJ!Destroy
    BY <1>1 DEF FJ!Destroy, Unseen
  <1>10. Status' = Status => UNCHANGED FJ!vars
    BY <1>1, StaysRunning
  <1> QED
    BY <1>2, <1>3, <1>4, <1>5, <1>6, <1>7, <1>8, <1>9, <1>10 DEF FJ!Next

\* A call forks.
LEMMA CallRefines ==
    ASSUME PoolInv, PoolInv', NEW num \in 1 .. MaxTasks, Call(num)
    PROVE  FJ!Fork
  <1>0. /\ SharedType /\ ControlType /\ PrivateType /\ 0 \in Threads
    BY PoolParts
  <1>1. /\ pc[0] = "idle" /\ pc'[0] \in {"inline", "reset"} /\ local'[0].n = num
        /\ UNCHANGED <<n_threads, outcome>>
    BY <1>0 DEF Call, Goto, ControlType, PrivateType, shared
  <1>2. Status = "idle"
    <2>1. ~(started < n_threads - 1)
      BY <1>0, <1>1 DEF PoolInv, Births, SharedType, CallerPcs
    <2> QED
      BY <1>1, <2>1 DEF Status, InCall, Participating
  <1>3. Status' = "running"
    BY <1>1, InsideRunsNext DEF Inside
  <1> QED
    BY <1>1, <1>2, <1>3 DEF Call, FJ!Fork, FJ!TaskIds, TaskIds

\* A thread runs the next task of its stride, which nobody ran before.
LEMMA RunRefines ==
    ASSUME PoolInv, PoolInv', NEW t \in Threads, Runs(t), outcome' = outcome,
           threw' \in {threw, threw \cup {task[t]}}, pc[0] \in Inside, pc'[0] \in Inside
    PROVE  FJ!Next
  <1>1. task[t] \in TaskIds /\ ran[task[t]] = 0 /\ ~ FJ!Skipped(task[t])
    BY RunsOwn DEF Runs
  <1>2. Status = "running" /\ Status' = "running"
    BY InsideRuns, InsideRunsNext
  <1>3. ran' = [ran EXCEPT ![task[t]] = 1]
    BY <1>1, PoolParts DEF Runs
  <1>4. FJ!RunTask(task[t])
    BY <1>1, <1>2, <1>3 DEF FJ!RunTask, Runs
  <1> QED
    BY <1>1, <1>4 DEF FJ!Next, FJ!TaskIds, TaskIds

\* A call returns when every stride is settled, with this call's exception.
LEMMA RethrowRefines ==
    ASSUME PoolInv, StrideInv, Rethrow
    PROVE  FJ!Join
  <1>0. /\ SharedType /\ ControlType /\ 0 \in Threads /\ Workers = Threads \ {0}
        /\ n_threads \in Nat \ {0} /\ local[0].n \in 0 .. MaxTasks
    BY PoolParts
  <1>1. /\ pc[0] = "rethrow" /\ pc'[0] = "idle"
        /\ UNCHANGED <<n_threads, started, ran, threw, local>>
        /\ outcome' = IF error_seen THEN error ELSE NoError
    BY <1>0 DEF Rethrow, Goto, ControlType, shared
  <1>2. Status = "running" /\ Status' = "idle"
    <2>1. Status = "running" /\ started = n_threads - 1
      BY <1>1, InsideRuns DEF Inside
    <2>2. ~(started < n_threads - 1)
      BY <1>0, <2>1 DEF SharedType
    <2> QED
      BY <1>1, <2>1, <2>2 DEF Status, InCall, Participating
  <1>3. ASSUME NEW k \in 0 .. local[0].n - 1 PROVE ran[k] = 1 \/ FJ!Skipped(k)
    <2>1. k \in Nat /\ k \in TaskIds /\ k < local[0].n
      BY <1>0, <1>3, PoolAssumption DEF TaskIds
    <2>2. k % n_threads \in Threads
      BY <1>0, <2>1, DivMod DEF Threads
    <2>3. k \in Stride(k % n_threads)
      BY <2>1 DEF Stride
    <2>4. Settled(k % n_threads)
      BY <1>1, <2>2 DEF StrideInv, Progress, Finished
    <2> QED
      BY <2>3, <2>4 DEF Settled
  <1>4. \A t \in Threads : pc[t] \notin {"store", "seen"}
    BY <1>0, <1>1 DEF PoolInv, PhaseOrder, LevelWhenQuiet, Quiet, Busy, Participating
  <1>5. outcome' \in IF threw = {} THEN {NoError} ELSE threw
    BY <1>1, <1>4 DEF StrideInv, ErrorKept
  <1> QED
    BY <1>1, <1>2, <1>3, <1>5 DEF FJ!Join, FJ!NoError, NoError

\* An inline call returns at the end of its loop, or with the exception of the
\* task that ended it.
LEMMA InlineReturnRefines ==
    ASSUME PoolInv, StrideInv, InlineReturn
    PROVE  FJ!Join
  <1>0. /\ SharedType /\ ControlType /\ 0 \in Threads /\ n_threads \in Nat \ {0}
        /\ local[0].n \in 0 .. MaxTasks /\ threw \subseteq TaskIds
    BY PoolParts
  <1>1. /\ pc[0] \in {"inline", "unwind"} /\ pc'[0] = "idle"
        /\ UNCHANGED <<n_threads, started, ran, threw, local>>
        /\ pc[0] = "inline" => task[0] >= local[0].n /\ outcome' = NoError
        /\ pc[0] = "unwind" => outcome' = task[0]
    BY <1>0 DEF InlineReturn, Goto, ControlType, shared
  <1>2. Status = "running" /\ Status' = "idle"
    <2>1. Status = "running" /\ started = n_threads - 1
      BY <1>1, InsideRuns DEF Inside
    <2>2. ~(started < n_threads - 1)
      BY <1>0, <2>1 DEF SharedType
    <2> QED
      BY <1>1, <2>1, <2>2 DEF Status, InCall, Participating
  <1>3. \A k \in TaskIds : k < local[0].n => k \in Stride(0)
    <2>1. n_threads = 1
      BY <1>1 DEF StrideInv
    <2>2. \A k \in Nat : k % n_threads = 0
      BY <2>1, DivMod
    <2> QED
      BY <2>2 DEF Stride, TaskIds
  <1>4. /\ pc[0] = "inline" => Reached(0)
        /\ pc[0] = "unwind" => Thrown(0)
    BY <1>0 DEF StrideInv, Progress, AtTask, Unwinding
  <1>5. Settled(0)
    BY <1>0, <1>1, <1>4, ReachedSettled, ThrownSettled
  <1>6. \A k \in 0 .. local[0].n - 1 : ran[k] = 1 \/ FJ!Skipped(k)
    BY <1>0, <1>3, <1>5, PoolAssumption DEF Settled, TaskIds
  <1>7. outcome' \in IF threw = {} THEN {NoError} ELSE threw
    <2>1. CASE pc[0] = "unwind"
      BY <1>1, <1>4, <2>1 DEF Thrown
    <2>2. CASE pc[0] = "inline"
      BY <1>1, <2>2 DEF StrideInv
    <2> QED
      BY <1>1, <2>1, <2>2
  <1> QED
    BY <1>1, <1>2, <1>6, <1>7 DEF FJ!Join, FJ!NoError, NoError

\* Every step of the pool is a step of the contract, or is not seen.
LEMMA NextRefines ==
    ASSUME PoolInv, PoolInv', StrideInv, [Next]_vars
    PROVE  [FJ!Next]_FJ!vars
  <1>0. /\ SharedType /\ ControlType /\ PrivateType /\ 0 \in Threads
        /\ Workers = Threads \ {0}
    BY PoolParts
  <1>1. CASE Caller
    <2>1. ASSUME NEW num \in 1 .. MaxTasks, Call(num) PROVE FJ!Next
      BY <2>1, CallRefines DEF FJ!Next
    <2>2. CASE InlineTask
      <3>1. /\ pc[0] = "inline" /\ n_threads' = n_threads /\ local' = local
            /\ outcome' = outcome
        BY <2>2 DEF InlineTask, shared
      <3>2. Runs(0)
        BY <1>0, <2>2, <3>1 DEF InlineTask, Body, Runs, StrideInv, Progress, AtTask
      <3>3. threw' \in {threw, threw \cup {task[0]}} /\ pc'[0] \in {"inline", "unwind"}
        BY <1>0, <2>2, <3>1 DEF InlineTask, Body, Goto, ControlType
      <3> QED
        BY <1>0, <3>1, <3>2, <3>3, RunRefines DEF Inside
    <2>3. CASE ResetError \/ Describe \/ Arm \/ Publish \/ Notify \/ JoinPhase
      <3>1. Unseen /\ pc[0] \in Inside /\ pc'[0] \in Inside
        BY <1>0, <2>3 DEF ResetError, Describe, Arm, Publish, Notify, JoinPhase, Goto,
           Unparked, ControlType, shared, observed, Unseen, Inside, InCall, Participating
      <3> QED
        BY <3>1, InsideRuns, InsideRunsNext, StaysRunning
    <2> QED
      BY <1>1, <2>1, <2>2, <2>3, LifecycleRefines, RethrowRefines, InlineReturnRefines
         DEF Caller, FJ!Next
  <1>2. ASSUME NEW t \in Threads, Share(t) PROVE [FJ!Next]_FJ!vars
    <2>1. pc[t] \in Participating /\ pc[0] \in InCall /\ local[t].n = local[0].n
      BY <1>2, SharesCall DEF Share, RunTask, StrideDone, StoreError, MarkSeen, Decrement,
         Participating
    <2>2. pc'[0] \in InCall
      BY <1>0, <1>2, <2>1 DEF Share, RunTask, StrideDone, StoreError, MarkSeen, Decrement,
         Body, Goto, ControlType, InCall, Participating
    <2>3. CASE RunTask(t)
      <3>1. /\ Runs(t) /\ outcome' = outcome
            /\ threw' \in {threw, threw \cup {task[t]}}
        BY <2>1, <2>3 DEF RunTask, Body, Runs, shared, StrideInv, Progress, AtTask
      <3> QED
        BY <2>1, <2>2, <3>1, RunRefines DEF Inside
    <2>4. CASE StrideDone(t) \/ StoreError(t) \/ MarkSeen(t) \/ Decrement(t)
      <3>1. Unseen
        BY <2>4 DEF StrideDone, StoreError, MarkSeen, Decrement, shared, observed, Unseen
      <3> QED
        BY <2>1, <2>2, <3>1, InsideRuns, InsideRunsNext, StaysRunning DEF Inside
    <2> QED
      BY <1>2, <2>3, <2>4 DEF Share
  <1>3. ASSUME NEW w \in Workers,
               Check(w) \/ Wait(w) \/ LoadPhase(w) \/ Gate(w) \/ Snapshot(w)
        PROVE  UNCHANGED FJ!vars
    <2>1. Unseen /\ pc'[0] = pc[0] /\ UNCHANGED <<started, n_threads>>
      BY <1>0, <1>3 DEF Check, Wait, LoadPhase, Gate, Snapshot, Goto, ControlType, PrivateType,
         shared, observed, Unseen
    <2>2. Status' = Status
      BY <2>1 DEF Status
    <2> QED
      BY <2>1, <2>2, StaysRunning
  <1>4. CASE UNCHANGED vars
    BY <1>4 DEF vars, shared, private, observed, FJ!vars, Status
  <1> QED
    BY <1>0, <1>1, <1>2, <1>3, <1>4 DEF Next, Worker, Terminated

\* parallel_for and run_workers implement the fork-join contract, for any
\* number of threads, tasks and calls: every task runs at most once, a stride
\* is cut short only by its own exception, and the call returns after the last
\* task, raising one of its own exceptions exactly when there is one.
THEOREM PoolImplementsForkJoin == Spec => ImplementsForkJoin
  <1>1. Init => StrideInv /\ FJ!Init
    BY InitRefines
  <1>2. PoolInv /\ PoolInv' /\ StrideInv /\ [Next]_vars => StrideInv'
    BY NextStride
  <1>3. PoolInv /\ PoolInv' /\ StrideInv /\ [Next]_vars => [FJ!Next]_FJ!vars
    BY NextRefines
  <1> QED
    BY <1>1, <1>2, <1>3, PoolInvariant, PTL DEF Spec, FJ!Spec, ImplementsForkJoin
=============================================================================
