------------------------- MODULE AsyncStreamProofs -------------------------
(***************************************************************************)
(* The theorems about AsyncStream. First the five parts of its invariant.  *)
(* Every step keeps ControlInv: where the three threads can be, which      *)
(* helper returns where, and how many threads the waiter counters count.   *)
(* Every step keeps LifecycleInv: who keeps a session open and who ends    *)
(* it; the steps that write the lifecycle flags have one lemma each, so    *)
(* that the proofs below need not open the record of flags. Every step     *)
(* keeps RingInv, what the ring holds between completed and submitted,     *)
(* ContextInv, the contexts in flight, and WorkerInv, the counter of       *)
(* executing workers: most steps leave the ring (RingFrame) or the         *)
(* contexts (ContextFrame) alone, and the others have a lemma each.        *)
(*                                                                         *)
(* Then the parts are put together to StreamInv, the inductive invariant,  *)
(* from which the safety properties of the stream follow for every value   *)
(* of the constants.                                                       *)
(*                                                                         *)
(* Last, the stream implements RecordStream. StreamInv says where the      *)
(* session is; ShotInv adds what a shot may still take: a session works on *)
(* a graph in order until it fails, and nothing follows the flush behind   *)
(* FINAL. Most steps are invisible to the callers (ShotFrame); the others  *)
(* have a lemma that names the step of the contract they are, and that     *)
(* they keep ShotInv.                                                      *)
(***************************************************************************)
EXTENDS AsyncStreamInvariant, FiniteSetTheorems, SequenceTheorems, TLAPS,
        WellFoundedInduction

-----------------------------------------------------------------------------
(* Control.                                                                *)

\* Moving the epoch leaves a Boolean per frame.
LEMMA BumpTyped == BumpEpoch => moved' \in [Frames -> BOOLEAN]
  BY DEF BumpEpoch

\* Steps of the helpers and of the calls both callers make keep ControlInv.
LEMMA CallerControl ==
    ASSUME ControlInv, NEW t \in Callers, CallerNext(t)
    PROVE  ControlInv'
  <1> USE StreamAssumption DEF ControlInv, ControlType, ParkingType, CallerAt,
      InHelper, InBody, ReadSteps, EnqueueSteps, ClearSteps, ResetSteps,
      DestroySteps, CoordAt, GuardHeld, WaitersCounted, StatusKept, Threads,
      Callers, Frames, Guarded, One, WaitSteps, Leaving, Failing, Labels, At,
      Goto, Call, Back, Return, Sleep, Notify, BumpEpoch, vars, world, store,
      ring, graph, results, engine, dispatch, admission, sched, locals, call,
      parking, producers, epochs
  <1>1. CASE ProducerAdvertise(t)
    BY <1>1 DEF ProducerAdvertise
  <1>2. CASE ProducerCheck(t)
    BY <1>2 DEF ProducerCheck
  <1>3. CASE ChangeSpin(t)
    BY <1>3 DEF ChangeSpin
  <1>4. CASE ChangeAdvertise(t)
    BY <1>4 DEF ChangeAdvertise
  <1>5. CASE ChangeCheck(t)
    BY <1>5 DEF ChangeCheck
  <1>6. CASE Inactive(t)
    BY <1>6 DEF Inactive
  <1>7. CASE WakeBump(t)
    BY <1>7 DEF WakeBump
  <1>8. CASE WakeNotify(t)
    BY <1>8 DEF WakeNotify
  <1>9. CASE SyncTarget(t)
    BY <1>9 DEF SyncTarget
  <1>10. CASE SyncWait(t)
    BY <1>10 DEF SyncWait
  <1>11. CASE Reset(t)
    BY <1>11 DEF Reset
  <1>12. CASE Cancel(t)
    BY <1>12 DEF Cancel
  <1>13. CASE CancelWait(t)
    BY <1>13 DEF CancelWait
  <1>14. CASE CancelEnd(t)
    BY <1>14 DEF CancelEnd
  <1>15. CASE ResetApply(t)
    BY <1>15 DEF ResetApply
  <1> QED
    BY <1>1, <1>2, <1>3, <1>4, <1>5, <1>6, <1>7, <1>8, <1>9, <1>10, <1>11,
        <1>12, <1>13, <1>14, <1>15 DEF CallerNext

\* Steps of the calls only the user makes keep ControlInv.
LEMMA UserControl ==
    ASSUME ControlInv, UserNext
    PROVE  ControlInv'
  <1> USE StreamAssumption DEF ControlInv, ControlType, ParkingType, CallerAt,
      InHelper, InBody, ReadSteps, EnqueueSteps, ClearSteps, ResetSteps,
      DestroySteps, CoordAt, GuardHeld, WaitersCounted, StatusKept, Threads,
      Callers, Frames, Guarded, One, WaitSteps, Leaving, Failing, Labels, At,
      Goto, Call, Back, Return, Sleep, Notify, BumpEpoch, vars, world, store,
      ring, graph, results, engine, dispatch, admission, sched, locals, call,
      parking, producers, epochs
  <1>1. CASE Enqueue
    BY <1>1 DEF Enqueue
  <1>2. CASE BeginAccepting
    BY <1>2 DEF BeginAccepting
  <1>3. CASE TryGuard
    BY <1>3 DEF TryGuard
  <1>4. CASE TryCheck
    BY <1>4 DEF TryCheck
  <1>5. CASE TryWrite
    BY <1>5 DEF TryWrite
  <1>6. CASE TryPublish
    BY <1>6 DEF TryPublish
  <1>7. CASE ReleaseProducer
    <2>1. producerActive' \in BOOLEAN
      BY <1>7 DEF ReleaseProducer
    <2> QED
      BY <1>7, <2>1 DEF ReleaseProducer
  <1>8. CASE ReleaseNotify
    BY <1>8 DEF ReleaseNotify
  <1>9. CASE RecordExchange
    <2>1. coordinatorWaiting' \in BOOLEAN
      BY <1>9 DEF RecordExchange
    <2> QED
      BY <1>9, <2>1 DEF RecordExchange, Published
  <1>10. CASE RecordNotify
    BY <1>10 DEF RecordNotify, Published
  <1>11. CASE WaitForSlot
    BY <1>11 DEF WaitForSlot
  <1>12. CASE FinishStart
    BY <1>12 DEF FinishStart
  <1>13. CASE FinishWait
    BY <1>13 DEF FinishWait
  <1>14. CASE FinishCheck
    BY <1>14 DEF FinishCheck
  <1>15. CASE FinishEnd
    BY <1>15 DEF FinishEnd
  <1>16. CASE Clear
    BY <1>16 DEF Clear
  <1>17. CASE Drain
    BY <1>17 DEF Drain
  <1>18. CASE DrainWait
    BY <1>18 DEF DrainWait
  <1>19. CASE DrainEnd
    BY <1>19 DEF DrainEnd
  <1>20. CASE ClearApply
    BY <1>20 DEF ClearApply
  <1>21. CASE Shutdown
    BY <1>21 DEF Shutdown
  <1>22. CASE Join
    BY <1>22 DEF Join
  <1> QED
    BY <1>1, <1>2, <1>3, <1>4, <1>5, <1>6, <1>7, <1>8, <1>9, <1>10, <1>11,
        <1>12, <1>13, <1>14, <1>15, <1>16, <1>17, <1>18, <1>19, <1>20, <1>21,
        <1>22 DEF UserNext

\* A caller that makes a call keeps ControlInv.
LEMMA StartControl ==
    ASSUME ControlInv, StartNext
    PROVE  ControlInv'
  <1> USE StreamAssumption DEF ControlInv, ControlType, ParkingType, CallerAt,
      InHelper, InBody, ReadSteps, EnqueueSteps, ClearSteps, ResetSteps,
      DestroySteps, CoordAt, GuardHeld, WaitersCounted, StatusKept, Threads,
      Callers, Frames, Guarded, One, WaitSteps, Leaving, Failing, Labels, At,
      Goto, Call, Back, Return, Sleep, Notify, BumpEpoch, vars, world, store,
      ring, graph, results, engine, dispatch, admission, sched, locals, call,
      parking, producers, epochs
  <1>1. CASE \E r \in Records : EnqueueStart(r)
    BY <1>1 DEF EnqueueStart, Start, MayStart
  <1>2. CASE ClearStart
    BY <1>2 DEF ClearStart, Start, MayStart
  <1>3. CASE DestroyStart
    BY <1>3 DEF DestroyStart, MayStart
  <1>4. CASE \E t \in Callers : ReadStart(t)
    BY <1>4 DEF ReadStart, MayStart
  <1>5. CASE \E t \in Callers : ResetStart(t)
    BY <1>5 DEF ResetStart, Start, MayStart
  <1> QED
    BY ZenonT(60), <1>1, <1>2, <1>3, <1>4, <1>5 DEF StartNext

\* Steps of the coordinator keep ControlInv.
LEMMA CoordControl ==
    ASSUME ControlInv, CoordNext
    PROVE  ControlInv'
  <1> USE StreamAssumption DEF ControlInv, ControlType, ParkingType, CallerAt,
      InHelper, InBody, ReadSteps, EnqueueSteps, ClearSteps, ResetSteps,
      DestroySteps, CoordAt, GuardHeld, WaitersCounted, StatusKept, Threads,
      Callers, Frames, Guarded, One, WaitSteps, Leaving, Failing, Labels, At,
      Goto, Call, Back, Return, Sleep, Notify, BumpEpoch, vars, world, store,
      ring, graph, results, engine, dispatch, admission, sched, locals, call,
      parking, producers, epochs
  <1>1. CASE ProducerAdvertise("coord")
    BY <1>1 DEF ProducerAdvertise
  <1>2. CASE ProducerCheck("coord")
    BY <1>2 DEF ProducerCheck
  <1>3. CASE SpinWake
    BY <1>3 DEF SpinWake, Resume
  <1>4. CASE Advertise
    BY <1>4 DEF Advertise
  <1>5. CASE CheckReady
    BY <1>5 DEF CheckReady
  <1>6. CASE Park
    BY <1>6 DEF Park
  <1>7. CASE Withdraw
    <2>1. coordinatorWaiting' \in BOOLEAN
      BY <1>7 DEF Withdraw
    <2> QED
      BY <1>7, <2>1 DEF Withdraw
  <1>8. CASE Observe
    BY <1>8 DEF Observe, Resume
  <1>9. CASE LoopCheck
    <2>1. CASE ~lc.shutdown /\ lc.active /\ ~lc.cancel /\ ~lc.failed
      <3>a. moved' = [moved EXCEPT !["dispatch"] = FALSE]
        BY <1>9, <2>1 DEF LoopCheck
      <3>b. moved \in [Frames -> BOOLEAN]
        OBVIOUS
      <3>1. moved' \in [Frames -> BOOLEAN]
        BY <3>a, <3>b DEF Frames
      <3>2. frame' = "dispatch" /\ pc' = [pc EXCEPT !["coord"] = "step"]
        BY <1>9, <2>1 DEF LoopCheck
      <3> QED
        BY <1>9, <3>1, <3>2 DEF LoopCheck
    <2>2. CASE ~(~lc.shutdown /\ lc.active /\ ~lc.cancel /\ ~lc.failed)
      <3>1. PICK label \in {"exit", "wait", "cancelled", "ending"} :
                pc' = [pc EXCEPT !["coord"] = label]
        BY <1>9, <2>2 DEF LoopCheck
      <3>2. frame' = frame /\ moved' = moved
        BY <1>9, <2>2 DEF LoopCheck
      <3> QED
        BY <1>9, <3>1, <3>2 DEF LoopCheck
    <2> QED
      BY <2>1, <2>2
  <1>10. CASE SessionOver
    BY <1>10 DEF SessionOver
  <1>11. CASE Ending
    BY <1>11 DEF Ending
  <1>12. CASE Cancelled
    BY <1>12 DEF Cancelled
  <1>13. CASE CompletionNotify("cancelNotify", "deactivate")
    BY <1>13 DEF CompletionNotify, Notify
  <1>14. CASE Deactivate
    BY <1>14 DEF Deactivate
  <1>15. CASE Inactivate
    BY <1>15 DEF Inactivate
  <1>16. CASE Step
    BY <1>16 DEF Step
  <1>17. CASE Retire
    BY <1>17 DEF Retire
  <1>18. CASE CompletionNotify("retireNotify", "retire")
    BY <1>18 DEF CompletionNotify, Notify
  <1>19. CASE RetireDone
    BY <1>19 DEF RetireDone
  <1>20. CASE Admit
    BY <1>20 DEF Admit
  <1>21. CASE AdmitDone
    BY <1>21 DEF AdmitDone
  <1>22. CASE FlushAdmit
    BY <1>22 DEF FlushAdmit
  <1>23. CASE EndSession
    BY <1>23 DEF EndSession
  <1>24. CASE StepAgain
    BY <1>24 DEF StepAgain
  <1>25. CASE Fail
    BY <1>25 DEF Fail
  <1>26. CASE FailClose
    BY <1>26 DEF FailClose
  <1>27. CASE FailCover
    BY <1>27 DEF FailCover
  <1>28. CASE CompletionNotify("failNotify", "discard")
    BY <1>28 DEF CompletionNotify, Notify
  <1>29. CASE Discard
    BY <1>29 DEF Discard
  <1> QED
    BY <1>1, <1>2, <1>3, <1>4, <1>5, <1>6, <1>7, <1>8, <1>9, <1>10, <1>11,
        <1>12, <1>13, <1>14, <1>15, <1>16, <1>17, <1>18, <1>19, <1>20, <1>21,
        <1>22, <1>23, <1>24, <1>25, <1>26, <1>27, <1>28, <1>29 DEF CoordNext

\* Steps of the workers keep ControlInv.
LEMMA WorkerControl ==
    ASSUME ControlInv, WorkerNext
    PROVE  ControlInv'
  <1> USE StreamAssumption DEF ControlInv, ControlType, ParkingType, CallerAt,
      InHelper, InBody, ReadSteps, EnqueueSteps, ClearSteps, ResetSteps,
      DestroySteps, CoordAt, GuardHeld, WaitersCounted, StatusKept, Threads,
      Callers, Frames, Guarded, One, WaitSteps, Leaving, Failing, Labels, At,
      Goto, Call, Back, Return, Sleep, Notify, BumpEpoch, vars, world, store,
      ring, graph, results, engine, dispatch, admission, sched, locals, call,
      parking, producers, epochs
  <1>1. CASE \E i \in DOMAIN ctxs : WorkerClaim(i)
    BY <1>1 DEF WorkerClaim, SetExec
  <1>2. CASE \E i \in DOMAIN ctxs : WorkerFinish(i)
    <2>a. BumpEpoch \/ moved' = moved
      BY <1>2 DEF WorkerFinish
    <2>b. ASSUME BumpEpoch PROVE moved' \in [Frames -> BOOLEAN]
      BY <2>b, BumpTyped
    <2>1. moved' \in [Frames -> BOOLEAN]
      BY <2>a, <2>b
    <2>2. UNCHANGED <<locals, producers, completionWaiters, coordinatorWaiting, asleep,
                      frame, pc>>
      BY <1>2 DEF WorkerFinish
    <2> QED
      BY <2>1, <2>2
  <1>3. CASE \E i \in DOMAIN ctxs : WorkerFail(i)
    BY <1>3 DEF WorkerFail, SetExec, CountOut
  <1>4. CASE WorkerIdleFail
    BY <1>4 DEF WorkerIdleFail, CountOut
  <1>5. CASE WorkerNotify
    BY <1>5 DEF WorkerNotify
  <1>6. CASE StrayReturns
    BY <1>6 DEF StrayReturns
  <1> QED
    BY <1>1, <1>2, <1>3, <1>4, <1>5, <1>6 DEF WorkerNext

-----------------------------------------------------------------------------
(* What the steps that write the lifecycle flags do to them.               *)

\* A reset of an open session stops publication.
LEMMA ResetFlags ==
    ASSUME lc \in LifecycleFlags, NEW t \in Callers, Reset(t)
    PROVE  /\ lc' \in LifecycleFlags /\ lc'.active = lc.active /\ (lc'.accepting => lc.accepting)
           /\ lc'.failed = lc.failed /\ lc'.finish = lc.finish /\ lc'.cancel = lc.cancel
           /\ lc'.target = lc.target /\ lc'.needsReset = lc.needsReset
  BY DEF Reset, LifecycleFlags

\* The cancel request is raised.
LEMMA CancelFlags ==
    ASSUME lc \in LifecycleFlags, NEW t \in Callers, Cancel(t)
    PROVE  /\ lc' \in LifecycleFlags /\ lc'.active = lc.active /\ lc'.accepting = lc.accepting
           /\ lc'.failed = lc.failed /\ lc'.finish = lc.finish /\ lc'.cancel
           /\ lc'.target = lc.target /\ lc'.needsReset = lc.needsReset
  BY DEF Cancel, LifecycleFlags

\* A cancel that was honoured takes the failure with it.
LEMMA CancelEndFlags ==
    ASSUME lc \in LifecycleFlags, NEW t \in Callers, CancelEnd(t)
    PROVE  /\ lc' \in LifecycleFlags /\ lc'.active = lc.active /\ lc'.accepting = lc.accepting
           /\ ~lc'.failed /\ lc'.finish = lc.finish /\ lc'.cancel = lc.cancel
           /\ lc'.target = lc.target /\ lc'.needsReset = lc.needsReset
  BY DEF CancelEnd, LifecycleFlags

\* The nodes' reset decides whether another one is needed.
LEMMA ResetApplyFlags ==
    ASSUME lc \in LifecycleFlags, NEW t \in Callers, ResetApply(t)
    PROVE  /\ lc' \in LifecycleFlags /\ lc'.active = lc.active /\ lc'.accepting = lc.accepting
           /\ lc'.failed = lc.failed /\ lc'.finish = lc.finish /\ lc'.cancel = lc.cancel
           /\ lc'.target = lc.target
  BY DEF ResetApply, LifecycleFlags

\* A session that began accepts records.
LEMMA BeginAcceptingFlags ==
    ASSUME lc \in LifecycleFlags, BeginAccepting
    PROVE  /\ lc' \in LifecycleFlags /\ lc'.active = lc.active /\ lc'.accepting
           /\ lc'.failed = lc.failed /\ lc'.finish = lc.finish /\ lc'.cancel = lc.cancel
           /\ lc'.target = lc.target /\ lc'.needsReset = lc.needsReset
  BY DEF BeginAccepting, LifecycleFlags

\* A drain stops publication.
LEMMA ClearFlags ==
    ASSUME lc \in LifecycleFlags, Clear
    PROVE  /\ lc' \in LifecycleFlags /\ lc'.active = lc.active /\ (lc'.accepting => lc.accepting)
           /\ lc'.failed = lc.failed /\ lc'.finish = lc.finish /\ lc'.cancel = lc.cancel
           /\ lc'.target = lc.target /\ lc'.needsReset = lc.needsReset
  BY DEF Clear, LifecycleFlags

\* A drain arms the finish.
LEMMA DrainFlags ==
    ASSUME lc \in LifecycleFlags, Drain, submitted \in Nat
    PROVE  /\ lc' \in LifecycleFlags /\ lc'.active = lc.active /\ lc'.accepting = lc.accepting
           /\ lc'.failed = lc.failed /\ lc'.finish /\ lc'.cancel = lc.cancel
           /\ lc'.needsReset = lc.needsReset
  BY DEF Drain, LifecycleFlags

\* Shutdown leaves the session's flags alone.
LEMMA ShutdownFlags ==
    ASSUME lc \in LifecycleFlags, Shutdown
    PROVE  /\ lc' \in LifecycleFlags /\ lc'.active = lc.active /\ lc'.accepting = lc.accepting
           /\ lc'.failed = lc.failed /\ lc'.finish = lc.finish /\ lc'.cancel = lc.cancel
           /\ lc'.target = lc.target /\ lc'.needsReset = lc.needsReset
  BY DEF Shutdown, LifecycleFlags

\* The destructor stops publication and cancels an open session.
LEMMA DestroyStartFlags ==
    ASSUME lc \in LifecycleFlags, DestroyStart
    PROVE  /\ lc' \in LifecycleFlags /\ lc'.active = lc.active /\ (lc'.accepting => lc.accepting)
           /\ lc'.failed = lc.failed /\ lc'.finish = lc.finish /\ (lc.cancel => lc'.cancel)
           /\ lc'.target = lc.target /\ lc'.needsReset = lc.needsReset
  BY DEF DestroyStart, LifecycleFlags

\* A cancelled graph needs a reset.
LEMMA CancelledFlags ==
    ASSUME lc \in LifecycleFlags, Cancelled
    PROVE  /\ lc' \in LifecycleFlags /\ lc'.active = lc.active /\ lc'.accepting = lc.accepting
           /\ lc'.failed = lc.failed /\ lc'.finish = lc.finish /\ lc'.cancel = lc.cancel
           /\ lc'.target = lc.target /\ lc'.needsReset
  BY DEF Cancelled, LifecycleFlags

\* The requests are cleared before the session reads as inactive.
LEMMA DeactivateFlags ==
    ASSUME lc \in LifecycleFlags, Deactivate
    PROVE  /\ lc' \in LifecycleFlags /\ lc'.active = lc.active /\ ~lc'.accepting
           /\ lc'.failed = lc.failed /\ lc'.finish = lc.finish /\ ~lc'.cancel
           /\ lc'.target = lc.target /\ lc'.needsReset = lc.needsReset
  BY DEF Deactivate, LifecycleFlags

\* The session reads as inactive.
LEMMA InactivateFlags ==
    ASSUME lc \in LifecycleFlags, Inactivate
    PROVE  /\ lc' \in LifecycleFlags /\ ~lc'.active /\ lc'.accepting = lc.accepting
           /\ lc'.failed = lc.failed /\ lc'.finish = lc.finish /\ lc'.cancel = lc.cancel
           /\ lc'.target = lc.target /\ lc'.needsReset = lc.needsReset
  BY DEF Inactivate, LifecycleFlags

\* A failed graph needs a reset.
LEMMA FailFlags ==
    ASSUME lc \in LifecycleFlags, Fail
    PROVE  /\ lc' \in LifecycleFlags /\ lc'.active = lc.active /\ lc'.accepting = lc.accepting
           /\ lc'.failed /\ lc'.finish = lc.finish /\ lc'.cancel = lc.cancel
           /\ lc'.target = lc.target /\ lc'.needsReset
  BY DEF Fail, LifecycleFlags

\* A failure stops publication.
LEMMA FailCloseFlags ==
    ASSUME lc \in LifecycleFlags, FailClose
    PROVE  /\ lc' \in LifecycleFlags /\ lc'.active = lc.active /\ ~lc'.accepting
           /\ lc'.failed = lc.failed /\ lc'.finish = lc.finish /\ lc'.cancel = lc.cancel
           /\ lc'.target = lc.target /\ lc'.needsReset = lc.needsReset
  BY DEF FailClose, LifecycleFlags

\* FINAL arms the end of the session behind itself.
LEMMA TryWriteFlags ==
    ASSUME lc \in LifecycleFlags, submitted \in Nat, TryWrite
    PROVE
    /\ lc' \in LifecycleFlags /\ lc'.active = lc.active /\ lc'.failed = lc.failed
    /\ lc'.cancel = lc.cancel /\ lc'.needsReset = lc.needsReset
    /\ rec.type = "FINAL" =>
         lc'.target = submitted + 1 /\ lc'.finish /\ ~lc'.accepting
    /\ rec.type # "FINAL" => lc' = lc
  <1>1. CASE rec.type = "FINAL"
    <2>1. lc' = [lc EXCEPT !.target = submitted + 1, !.flush = TRUE, !.finish = TRUE,
                           !.accepting = FALSE]
      BY <1>1 DEF TryWrite
    <2>0. PICK n \in Nat : n = submitted + 1
      OBVIOUS
    <2> DEFINE armed == [lc EXCEPT !.target = n, !.flush = TRUE]
    <2>2. /\ armed \in LifecycleFlags /\ armed.target = n
          /\ armed.active = lc.active /\ armed.failed = lc.failed
          /\ armed.cancel = lc.cancel /\ armed.needsReset = lc.needsReset
      BY DEF LifecycleFlags
    <2>3. lc' = [armed EXCEPT !.finish = TRUE, !.accepting = FALSE]
      BY <2>0, <2>1
    <2> HIDE DEF armed
    <2> QED
      BY <1>1, <2>0, <2>2, <2>3 DEF LifecycleFlags
  <1>2. CASE rec.type # "FINAL"
    BY <1>2 DEF TryWrite
  <1> QED
    BY <1>1, <1>2

\* A new session starts with its requests cleared.
LEMMA EnqueueFlags ==
    ASSUME lc \in LifecycleFlags, Enqueue
    PROVE
    /\ lc' \in LifecycleFlags /\ lc'.needsReset = lc.needsReset
    /\ lc'.target = lc.target
    /\ \/ lc' = lc /\ inFlight' = inFlight /\ snapshot' = snapshot
       \/ /\ ~lc.active /\ ~finalized /\ ~lc.needsReset /\ inFlight = 0
          /\ lc'.active /\ ~lc'.finish /\ ~lc'.cancel /\ ~lc'.failed
          /\ inFlight' = 1 /\ snapshot' = "none"
          /\ pc' = [pc EXCEPT !["user"] = "accept"] /\ UNCHANGED <<op, ret>>
  BY DEF Enqueue, Goto, LifecycleFlags, engine, parking, ring, call

\* Steps of the helpers and of the calls both callers make keep LifecycleInv.
LEMMA CallerLifecycle ==
    ASSUME ControlInv, LifecycleInv, RingType, RingBound, NEW t \in Callers,
           CallerNext(t)
    PROVE  LifecycleInv'
  <1> USE StreamAssumption DEF ControlInv, ControlType, CallerAt, InHelper,
      InBody, ReadSteps, EnqueueSteps, ClearSteps, ResetSteps, DestroySteps,
      CoordAt, StatusKept, Threads, Callers, Frames, One, WaitSteps, Leaving,
      Failing, LifecycleInv, GraphType, InSession, TokenHeld, BehindFinal,
      Contract, Released, Canceller, CancelArmed, PublishSteps, FinalAccepted,
      Trying, AfterFinal, Draining, KeptOpen, Finishing, Accounted,
      FailedNeedsReset, RingType, RingBound, At, Goto, Call, Back, Return,
      Sleep, Notify, BumpEpoch, vars, world, store, ring, graph, results,
      engine, dispatch, admission, sched, locals, call, parking, producers,
      epochs
  <1>1. CASE ProducerAdvertise(t)
    BY <1>1 DEF ProducerAdvertise
  <1>2. CASE ProducerCheck(t)
    BY <1>2 DEF ProducerCheck
  <1>3. CASE ChangeSpin(t)
    BY <1>3 DEF ChangeSpin
  <1>4. CASE ChangeAdvertise(t)
    BY <1>4 DEF ChangeAdvertise
  <1>5. CASE ChangeCheck(t)
    BY <1>5 DEF ChangeCheck
  <1>6. CASE Inactive(t)
    BY <1>6 DEF Inactive
  <1>7. CASE WakeBump(t)
    BY <1>7 DEF WakeBump
  <1>8. CASE WakeNotify(t)
    BY <1>8 DEF WakeNotify
  <1>9. CASE SyncTarget(t)
    BY <1>9 DEF SyncTarget
  <1>10. CASE SyncWait(t)
    BY <1>10 DEF SyncWait
  <1>11. CASE Reset(t)
    BY <1>11, ResetFlags, SMTT(20) DEF Reset
  <1>12. CASE Cancel(t)
    <2>1. op[t] = "reset" /\ ret[t] = "idle"
      BY <1>12 DEF Cancel
    <2>2. ~Trying /\ pc["user"] \notin {"enq", "publish"}
      BY <1>12, <2>1 DEF Cancel
    <2>3. pc' = [pc EXCEPT ![t] = "wake"] /\ ret' = [ret EXCEPT ![t] = "cancelWait"]
      BY <1>12 DEF Cancel
    <2>4. Canceller'
      BY <2>3
    <2>5. UNCHANGED <<op, call, ring, engine, results, finalized, inFlight>>
      BY <1>12 DEF Cancel
    <2>6. pc[t] = "cancel"
      BY <1>12 DEF Cancel
    <2>7. GraphType' /\ TokenHeld' /\ CancelArmed' /\ FailedNeedsReset' /\ Accounted'
      BY <1>12, <2>3, <2>4, <2>5, CancelFlags
    <2>8. Contract' /\ Released'
      BY <1>12, <2>1, <2>3, <2>5, <2>6, CancelFlags
    <2>9. KeptOpen'
      BY <1>12, <2>1, <2>2, <2>3, <2>5, <2>6, CancelFlags
    <2>10. Finishing'
      BY <1>12, <2>1, <2>3, <2>4, <2>5, <2>6, CancelFlags
    <2> QED
      BY <2>7, <2>8, <2>9, <2>10
  <1>13. CASE CancelWait(t)
    BY <1>13 DEF CancelWait
  <1>14. CASE CancelEnd(t)
    <2>1. op[t] = "reset" /\ ret[t] = "idle" /\ ~lc.active
      BY <1>14 DEF CancelEnd
    <2>2. pc' = [pc EXCEPT ![t] = "resetApply"]
      BY <1>14 DEF CancelEnd
    <2>3. UNCHANGED <<locals, ring, engine, result, finalized, inFlight>> /\ snapshot' = "none"
      BY <1>14 DEF CancelEnd
    <2> QED
      BY <2>1, <2>2, <2>3, <1>14, CancelEndFlags
  <1>15. CASE ResetApply(t)
    <2>1. op[t] = "reset" /\ ret[t] = "idle" /\ ~lc.active /\ inFlight = 0
      BY <1>15 DEF ResetApply
    <2>2. pc' = [pc EXCEPT ![t] = "idle"] /\ op' = [op EXCEPT ![t] = "none"]
      BY <1>15 DEF ResetApply
    <2>3. UNCHANGED <<ret, call, ring, engine, inFlight>>
      BY <1>15 DEF ResetApply
    <2>4. /\ finalized' = FALSE /\ snapshot' = "none"
          /\ result' \in {"pending", "failed"}
          /\ result' = "failed" => lc'.needsReset
      BY ZenonT(60), <1>15, <2>1 DEF ResetApply, LifecycleFlags
    <2>5. GraphType'
      BY <1>15, <2>3, <2>4, ResetApplyFlags
    <2> QED
      BY <2>1, <2>2, <2>3, <2>4, <2>5, <1>15, ResetApplyFlags
  <1> QED
    BY <1>1, <1>2, <1>3, <1>4, <1>5, <1>6, <1>7, <1>8, <1>9, <1>10, <1>11,
        <1>12, <1>13, <1>14, <1>15 DEF CallerNext

\* Steps of the calls only the user makes keep LifecycleInv.
LEMMA UserLifecycle ==
    ASSUME ControlInv, LifecycleInv, RingType, RingBound, UserNext
    PROVE  LifecycleInv'
  <1> USE StreamAssumption DEF ControlInv, ControlType, CallerAt, InHelper,
      InBody, ReadSteps, EnqueueSteps, ClearSteps, ResetSteps, DestroySteps,
      CoordAt, StatusKept, Threads, Callers, Frames, One, WaitSteps, Leaving,
      Failing, LifecycleInv, GraphType, InSession, TokenHeld, BehindFinal,
      Contract, Released, Canceller, CancelArmed, PublishSteps, FinalAccepted,
      Trying, AfterFinal, Draining, KeptOpen, Finishing, Accounted,
      FailedNeedsReset, RingType, RingBound, At, Goto, Call, Back, Return,
      Sleep, Notify, BumpEpoch, vars, world, store, ring, graph, results,
      engine, dispatch, admission, sched, locals, call, parking, producers,
      epochs
  <1>1. CASE Enqueue
    <2>1. CASE lc' = lc /\ inFlight' = inFlight /\ snapshot' = snapshot
      <3>1. \/ pc' = [pc EXCEPT !["user"] = "idle"] /\ op' = [op EXCEPT !["user"] = "none"]
            \/ pc' = [pc EXCEPT !["user"] = "try"] /\ op' = op /\ lc.active
            \/ pc' = [pc EXCEPT !["user"] = "accept"] /\ op' = op /\ ~lc.active /\ lc'.active
        BY <1>1, EnqueueFlags DEF Enqueue
      <3> QED
        BY <1>1, <2>1, <3>1 DEF Enqueue
    <2>2. CASE ~(lc' = lc /\ inFlight' = inFlight /\ snapshot' = snapshot)
      <3>1. /\ ~lc.active /\ lc'.active /\ ~lc'.finish /\ ~lc'.cancel
            /\ inFlight' = 1 /\ snapshot' = "none" /\ lc' \in LifecycleFlags
            /\ lc'.needsReset = lc.needsReset
            /\ pc' = [pc EXCEPT !["user"] = "accept"] /\ UNCHANGED <<op, ret>>
        BY <1>1, <2>2, EnqueueFlags
      <3>2. pc["user"] = "enq" /\ UNCHANGED <<engine, ring, call, finalized, result>>
        BY <1>1 DEF Enqueue
      <3>3. op["ctl"] # "reset" /\ ret["user"] = "idle" /\ op["user"] = "enqueue"
        BY <3>2
      <3>7. frame = "loop" /\ pc["coord"] \notin Leaving \union {"over", "ending"}
        BY <3>1
      <3>4. GraphType' /\ TokenHeld' /\ CancelArmed' /\ FailedNeedsReset' /\ Accounted'
        <4>1. GraphType' /\ FailedNeedsReset'
          BY <3>1, <3>2
        <4>2. TokenHeld'
          BY <3>1, <3>2, <3>7
        <4>3. CancelArmed' /\ Accounted'
          BY <3>1, <3>2, <3>7
        <4> QED
          BY <4>1, <4>2, <4>3
      <3>5. Contract' /\ Released'
        BY <3>1, <3>2, <3>3
      <3>6. KeptOpen' /\ Finishing'
        BY <3>1, <3>2, <3>3
      <3> QED
        BY <3>4, <3>5, <3>6
    <2> QED
      BY <2>1, <2>2
  <1>2. CASE BeginAccepting
    BY <1>2, BeginAcceptingFlags DEF BeginAccepting
  <1>3. CASE TryGuard
    BY <1>3 DEF TryGuard
  <1>4. CASE TryCheck
    BY <1>4 DEF TryCheck
  <1>5. CASE TryWrite
    BY <1>5, TryWriteFlags DEF TryWrite
  <1>6. CASE TryPublish
    BY <1>6 DEF TryPublish
  <1>7. CASE ReleaseProducer
    BY <1>7 DEF ReleaseProducer
  <1>8. CASE ReleaseNotify
    BY <1>8 DEF ReleaseNotify
  <1>9. CASE RecordExchange
    BY <1>9 DEF RecordExchange, Published
  <1>10. CASE RecordNotify
    BY <1>10 DEF RecordNotify, Published
  <1>11. CASE WaitForSlot
    BY <1>11 DEF WaitForSlot
  <1>12. CASE FinishStart
    BY <1>12 DEF FinishStart
  <1>13. CASE FinishWait
    BY <1>13 DEF FinishWait
  <1>14. CASE FinishCheck
    BY <1>14 DEF FinishCheck
  <1>15. CASE FinishEnd
    BY <1>15 DEF FinishEnd
  <1>16. CASE Clear
    <2>1. pc["user"] = "clear" /\ op["user"] = "clear" /\ ret["user"] = "idle"
      BY <1>16 DEF Clear
    <2>2. /\ UNCHANGED <<op, call, ring, engine, results, finalized, inFlight>>
          /\ \/ /\ pc' = [pc EXCEPT !["user"] = "wpAdvertise"]
                /\ ret' = [ret EXCEPT !["user"] = "drain"]
             \/ pc' = [pc EXCEPT !["user"] = "clearApply"] /\ ret' = ret /\ ~lc.active
      BY <1>16 DEF Clear
    <2> QED
      BY <2>1, <2>2, <1>16, ClearFlags
  <1>17. CASE Drain
    BY <1>17, DrainFlags DEF Drain
  <1>18. CASE DrainWait
    BY <1>18 DEF DrainWait
  <1>19. CASE DrainEnd
    BY <1>19 DEF DrainEnd
  <1>20. CASE ClearApply
    <2>1. op["user"] = "clear" /\ ret["user"] = "idle" /\ ~lc.active /\ inFlight = 0
      BY <1>20 DEF ClearApply
    <2>2. pc' = [pc EXCEPT !["user"] = "idle"] /\ op' = [op EXCEPT !["user"] = "none"]
      BY <1>20 DEF ClearApply
    <2>3. UNCHANGED <<ret, call, ring, engine, inFlight, lc>>
      BY <1>20 DEF ClearApply
    <2>4. /\ finalized' = FALSE /\ snapshot' = "none"
          /\ result' \in {"pending", "failed"}
          /\ result' = "failed" => result = "failed"
      BY <1>20, <2>1 DEF ClearApply
    <2>5. GraphType' /\ FailedNeedsReset'
      BY <2>3, <2>4
    <2> QED
      BY <2>1, <2>2, <2>3, <2>5
  <1>21. CASE Shutdown
    BY <1>21, ShutdownFlags DEF Shutdown
  <1>22. CASE Join
    BY <1>22 DEF Join
  <1> QED
    BY <1>1, <1>2, <1>3, <1>4, <1>5, <1>6, <1>7, <1>8, <1>9, <1>10, <1>11,
        <1>12, <1>13, <1>14, <1>15, <1>16, <1>17, <1>18, <1>19, <1>20, <1>21,
        <1>22 DEF UserNext

\* A caller that makes a call keeps LifecycleInv.
LEMMA StartLifecycle ==
    ASSUME ControlInv, LifecycleInv, RingType, RingBound, StartNext
    PROVE  LifecycleInv'
  <1> USE StreamAssumption DEF ControlInv, ControlType, CallerAt, InHelper,
      InBody, ReadSteps, EnqueueSteps, ClearSteps, ResetSteps, DestroySteps,
      CoordAt, StatusKept, Threads, Callers, Frames, One, WaitSteps, Leaving,
      Failing, LifecycleInv, GraphType, InSession, TokenHeld, BehindFinal,
      Contract, Released, Canceller, CancelArmed, PublishSteps, FinalAccepted,
      Trying, AfterFinal, Draining, KeptOpen, Finishing, Accounted,
      FailedNeedsReset, RingType, RingBound, At, Goto, Call, Back, Return,
      Sleep, Notify, BumpEpoch, vars, world, store, ring, graph, results,
      engine, dispatch, admission, sched, locals, call, parking, producers,
      epochs, Settling
  <1>1. CASE \E r \in Records : EnqueueStart(r)
    BY SMTT(60), <1>1 DEF EnqueueStart, Start, MayStart
  <1>2. CASE ClearStart
    BY <1>2 DEF ClearStart, Start, MayStart
  <1>3. CASE DestroyStart
    BY <1>3, DestroyStartFlags DEF DestroyStart, MayStart
  <1>4. CASE \E t \in Callers : ReadStart(t)
    BY <1>4 DEF ReadStart, MayStart
  <1>5. CASE \E t \in Callers : ResetStart(t)
    BY SMTT(60), <1>5 DEF ResetStart, Start, MayStart
  <1> QED
    BY <1>1, <1>2, <1>3, <1>4, <1>5 DEF StartNext

\* Steps of the coordinator keep LifecycleInv; that a retired record moves
\* completed forward is shown with the ring.
LEMMA CoordLifecycle ==
    ASSUME ControlInv, LifecycleInv, RingType, RingBound,
           Retire => /\ completed' \in Nat /\ completed <= completed'
                     /\ completed' <= submitted,
           CoordNext
    PROVE  LifecycleInv'
  <1> USE StreamAssumption DEF ControlInv, ControlType, CallerAt, InHelper,
      InBody, ReadSteps, EnqueueSteps, ClearSteps, ResetSteps, DestroySteps,
      CoordAt, StatusKept, Threads, Callers, Frames, One, WaitSteps, Leaving,
      Failing, LifecycleInv, GraphType, InSession, TokenHeld, BehindFinal,
      Contract, Released, Canceller, CancelArmed, PublishSteps, FinalAccepted,
      Trying, AfterFinal, Draining, KeptOpen, Finishing, Accounted,
      FailedNeedsReset, RingType, RingBound, At, Goto, Call, Back, Return,
      Sleep, Notify, BumpEpoch, vars, world, store, ring, graph, results,
      engine, dispatch, admission, sched, locals, call, parking, producers,
      epochs
  <1>1. CASE ProducerAdvertise("coord")
    BY <1>1 DEF ProducerAdvertise
  <1>2. CASE ProducerCheck("coord")
    BY <1>2 DEF ProducerCheck
  <1>3. CASE SpinWake
    BY <1>3 DEF SpinWake, Resume
  <1>4. CASE Advertise
    BY <1>4 DEF Advertise
  <1>5. CASE CheckReady
    BY <1>5 DEF CheckReady
  <1>6. CASE Park
    BY <1>6 DEF Park
  <1>7. CASE Withdraw
    BY <1>7 DEF Withdraw
  <1>8. CASE Observe
    BY <1>8 DEF Observe, Resume
  <1>9. CASE LoopCheck
    BY <1>9 DEF LoopCheck
  <1>10. CASE SessionOver
    BY <1>10 DEF SessionOver
  <1>11. CASE Ending
    BY <1>11 DEF Ending
  <1>12. CASE Cancelled
    BY <1>12, CancelledFlags DEF Cancelled
  <1>13. CASE CompletionNotify("cancelNotify", "deactivate")
    BY <1>13 DEF CompletionNotify, Notify
  <1>14. CASE Deactivate
    BY <1>14, DeactivateFlags DEF Deactivate
  <1>15. CASE Inactivate
    BY <1>15, InactivateFlags DEF Inactivate
  <1>16. CASE Step
    BY <1>16 DEF Step
  <1>17. CASE Retire
    <2>1. /\ pc["coord"] = "retire" /\ frame = "dispatch" /\ lc.active
          /\ pc' \in {[pc EXCEPT !["coord"] = "retire"], [pc EXCEPT !["coord"] = "retireNotify"]}
      BY <1>17 DEF Retire
    <2>2. UNCHANGED <<locals, lc, inFlight, submitted, frame>>
      BY <1>17 DEF Retire
    <2>3. /\ result' \in {"final", "partial"} /\ snapshot' \in {snapshot, result'}
          /\ finalized' \in BOOLEAN
      <3>1. result' \in {"final", "partial"} /\ finalized' \in BOOLEAN
        BY <1>17 DEF Retire
      <3>2. snapshot' \in {snapshot, result'}
        BY <1>17 DEF Retire
      <3> QED
        BY <3>1, <3>2
    <2>4. completed' \in Nat /\ completed <= completed' /\ completed' <= submitted
      BY <1>17
    <2>5. GraphType' /\ FailedNeedsReset'
      BY <2>2, <2>3
    <2>6. TokenHeld' /\ Contract' /\ Released' /\ CancelArmed' /\ KeptOpen'
      BY <2>1, <2>2
    <2>7. Finishing' /\ Accounted'
      BY <2>1, <2>2, <2>4
    <2> QED
      BY <2>5, <2>6, <2>7
  <1>18. CASE CompletionNotify("retireNotify", "retire")
    BY <1>18 DEF CompletionNotify, Notify
  <1>19. CASE RetireDone
    BY <1>19 DEF RetireDone
  <1>20. CASE Admit
    BY <1>20 DEF Admit
  <1>21. CASE AdmitDone
    BY <1>21 DEF AdmitDone
  <1>22. CASE FlushAdmit
    BY <1>22 DEF FlushAdmit
  <1>23. CASE EndSession
    BY <1>23 DEF EndSession
  <1>24. CASE StepAgain
    BY <1>24 DEF StepAgain
  <1>25. CASE Fail
    BY <1>25, FailFlags DEF Fail
  <1>26. CASE FailClose
    BY <1>26, FailCloseFlags DEF FailClose
  <1>27. CASE FailCover
    BY <1>27 DEF FailCover
  <1>28. CASE CompletionNotify("failNotify", "discard")
    BY <1>28 DEF CompletionNotify, Notify
  <1>29. CASE Discard
    BY <1>29 DEF Discard
  <1> QED
    BY <1>1, <1>2, <1>3, <1>4, <1>5, <1>6, <1>7, <1>8, <1>9, <1>10, <1>11,
        <1>12, <1>13, <1>14, <1>15, <1>16, <1>17, <1>18, <1>19, <1>20, <1>21,
        <1>22, <1>23, <1>24, <1>25, <1>26, <1>27, <1>28, <1>29 DEF CoordNext

\* Steps of the workers keep LifecycleInv.
LEMMA WorkerLifecycle ==
    ASSUME ControlInv, LifecycleInv, RingType, RingBound, WorkerNext
    PROVE  LifecycleInv'
  <1> USE StreamAssumption DEF ControlInv, ControlType, CallerAt, InHelper,
      InBody, ReadSteps, EnqueueSteps, ClearSteps, ResetSteps, DestroySteps,
      CoordAt, StatusKept, Threads, Callers, Frames, One, WaitSteps, Leaving,
      Failing, LifecycleInv, GraphType, InSession, TokenHeld, BehindFinal,
      Contract, Released, Canceller, CancelArmed, PublishSteps, FinalAccepted,
      Trying, AfterFinal, Draining, KeptOpen, Finishing, Accounted,
      FailedNeedsReset, RingType, RingBound, At, Goto, Call, Back, Return,
      Sleep, Notify, BumpEpoch, vars, world, store, ring, graph, results,
      engine, dispatch, admission, sched, locals, call, parking, producers,
      epochs
  <1>1. CASE \E i \in DOMAIN ctxs : WorkerClaim(i)
    BY <1>1 DEF WorkerClaim, SetExec
  <1>2. CASE \E i \in DOMAIN ctxs : WorkerFinish(i)
    BY <1>2 DEF WorkerFinish, SetExec, CountOut
  <1>3. CASE \E i \in DOMAIN ctxs : WorkerFail(i)
    BY <1>3 DEF WorkerFail, SetExec, CountOut
  <1>4. CASE WorkerIdleFail
    BY <1>4 DEF WorkerIdleFail, CountOut
  <1>5. CASE WorkerNotify
    BY <1>5 DEF WorkerNotify
  <1>6. CASE StrayReturns
    BY <1>6 DEF StrayReturns
  <1> QED
    BY <1>1, <1>2, <1>3, <1>4, <1>5, <1>6 DEF WorkerNext

-----------------------------------------------------------------------------
(* Arithmetic of the ring.                                                 *)

\* Division with remainder.
LEMMA DivMod ==
    ASSUME NEW n \in Nat \ {0}, NEW a \in Nat
    PROVE  a = n * (a \div n) + (a % n) /\ a \div n \in Int /\ a % n \in 0..(n - 1)
  <1>1. a = n * (a \div n) + (a % n)
    OBVIOUS
  <1>2. a \div n \in Int /\ a % n \in 0..(n - 1)
    OBVIOUS
  <1> QED
    BY <1>1, <1>2

\* No multiple of n lies strictly between 0 and n.
LEMMA NoMultipleBetween ==
    ASSUME NEW n \in Nat \ {0}, NEW k \in Int, NEW m \in Int, m = n * k, m > 0, m < n
    PROVE  FALSE
  <1>1. CASE k <= 0
    BY <1>1, SMT
  <1>2. CASE k >= 1
    BY <1>2, SMT
  <1> QED
    BY <1>1, <1>2

\* Sequences less than a ring apart use different slots.
LEMMA SlotsDiffer ==
    ASSUME NEW n \in Nat \ {0}, NEW a \in Nat, NEW b \in Nat, a < b, b - a < n
    PROVE  a % n # b % n
  <1> SUFFICES ASSUME a % n = b % n PROVE FALSE
    OBVIOUS
  <1> DEFINE p == a \div n
             q == b \div n
             r == a % n
  <1>1. a = n * p + r /\ p \in Int /\ r \in Int
    BY DivMod
  <1>2. b = n * q + r /\ q \in Int
    BY DivMod
  <1> HIDE DEF p, q, r
  <1>3. n * (q - p) = n * q - n * p /\ n * q \in Int /\ n * p \in Int
    BY <1>1, <1>2
  <1>4. b - a = n * (q - p)
    BY <1>1, <1>2, <1>3
  <1> QED
    BY <1>1, <1>2, <1>4, NoMultipleBetween

\* The slot of a sequence is a slot of the ring.
LEMMA SlotIndex ==
    ASSUME NEW n \in Nat
    PROVE  n % Capacity \in 0..(Capacity - 1)
  BY StreamAssumption, DivMod

-----------------------------------------------------------------------------
(* Steps that leave the ring alone.                                        *)

\* The counters, the slots and the request to finish stay, no session starts,
\* and the user does not start to write, to publish or to wait behind FINAL.
RingFrame ==
    /\ UNCHANGED <<slots, submitted, completed>>
    /\ lc'.finish = lc.finish /\ lc'.target = lc.target
    /\ lc'.active => lc.active
    /\ WaitType'
    /\ pc'["user"] \in {"write", "publish"} => pc'["user"] = pc["user"] /\ rec' = rec
    /\ AfterFinal' => AfterFinal

\* Such a step keeps RingInv.
LEMMA RingFramed ==
    ASSUME RingInv, RingFrame
    PROVE  RingInv'
  <1> USE DEF RingFrame
  <1>1. RingType' /\ WaitType' /\ RingBound'
    BY DEF RingInv, RingType, RingBound
  <1>2. Publishing'
    BY DEF RingInv, Publishing, SlotAt
  <1>3. WindowHeld'
    BY DEF RingInv, WindowHeld, Window, SlotAt
  <1>4. FinalHeld'
    BY DEF RingInv, FinalHeld, SlotAt
  <1> QED
    BY <1>1, <1>2, <1>3, <1>4 DEF RingInv

\* Steps of the helpers and of the calls both callers make leave the ring
\* alone.
LEMMA CallerRing ==
    ASSUME ControlInv, GraphType, RingType, WaitType, NEW t \in Callers, CallerNext(t)
    PROVE  RingFrame
  <1> USE StreamAssumption DEF ControlInv, ControlType, CallerAt, InHelper,
      InBody, ReadSteps, EnqueueSteps, ClearSteps, ResetSteps, DestroySteps,
      StatusKept, Threads, Callers, One, PublishSteps, FinalAccepted,
      AfterFinal, RingFrame, RingType, WaitType, At, Goto, Call, Back, Return,
      Sleep, Notify, BumpEpoch, vars, world, store, ring, graph, results,
      engine, dispatch, admission, sched, locals, call, parking, producers,
      epochs, GraphType
  <1>1. CASE ProducerAdvertise(t)
    BY <1>1 DEF ProducerAdvertise
  <1>2. CASE ProducerCheck(t)
    BY <1>2 DEF ProducerCheck
  <1>3. CASE ChangeSpin(t)
    BY <1>3 DEF ChangeSpin
  <1>4. CASE ChangeAdvertise(t)
    BY <1>4 DEF ChangeAdvertise
  <1>5. CASE ChangeCheck(t)
    BY <1>5 DEF ChangeCheck
  <1>6. CASE Inactive(t)
    BY <1>6 DEF Inactive
  <1>7. CASE WakeBump(t)
    BY <1>7 DEF WakeBump
  <1>8. CASE WakeNotify(t)
    BY <1>8 DEF WakeNotify
  <1>9. CASE SyncTarget(t)
    BY <1>9 DEF SyncTarget
  <1>10. CASE SyncWait(t)
    BY <1>10 DEF SyncWait
  <1>11. CASE Reset(t)
    BY <1>11, ResetFlags DEF Reset
  <1>12. CASE Cancel(t)
    BY <1>12, CancelFlags DEF Cancel
  <1>13. CASE CancelWait(t)
    BY <1>13 DEF CancelWait
  <1>14. CASE CancelEnd(t)
    BY <1>14, CancelEndFlags DEF CancelEnd
  <1>15. CASE ResetApply(t)
    BY ZenonT(60), <1>15, ResetApplyFlags DEF ResetApply
  <1> QED
    BY <1>1, <1>2, <1>3, <1>4, <1>5, <1>6, <1>7, <1>8, <1>9, <1>10, <1>11,
        <1>12, <1>13, <1>14, <1>15 DEF CallerNext

\* The user writes the ring only as it publishes.
LEMMA UserRing ==
    ASSUME ControlInv, GraphType, RingType, WaitType, UserNext,
           ~(Enqueue \/ TryCheck \/ TryWrite \/ TryPublish \/ Drain)
    PROVE  RingFrame
  <1> USE StreamAssumption DEF ControlInv, ControlType, CallerAt, InHelper,
      InBody, ReadSteps, EnqueueSteps, ClearSteps, ResetSteps, DestroySteps,
      StatusKept, Threads, Callers, One, PublishSteps, FinalAccepted,
      AfterFinal, RingFrame, RingType, WaitType, At, Goto, Call, Back, Return,
      Sleep, Notify, BumpEpoch, vars, world, store, ring, graph, results,
      engine, dispatch, admission, sched, locals, call, parking, producers,
      epochs, GraphType
  <1>1. CASE BeginAccepting
    BY <1>1, BeginAcceptingFlags DEF BeginAccepting
  <1>2. CASE TryGuard
    BY <1>2 DEF TryGuard
  <1>3. CASE ReleaseProducer
    BY <1>3 DEF ReleaseProducer
  <1>4. CASE ReleaseNotify
    BY <1>4 DEF ReleaseNotify
  <1>5. CASE RecordExchange
    BY <1>5 DEF RecordExchange, Published
  <1>6. CASE RecordNotify
    BY <1>6 DEF RecordNotify, Published
  <1>7. CASE WaitForSlot
    BY <1>7 DEF WaitForSlot
  <1>8. CASE FinishStart
    BY <1>8 DEF FinishStart
  <1>9. CASE FinishWait
    BY <1>9 DEF FinishWait
  <1>10. CASE FinishCheck
    BY <1>10 DEF FinishCheck
  <1>11. CASE FinishEnd
    BY <1>11 DEF FinishEnd
  <1>12. CASE Clear
    BY <1>12, ClearFlags DEF Clear
  <1>13. CASE DrainWait
    BY <1>13 DEF DrainWait
  <1>14. CASE DrainEnd
    BY <1>14 DEF DrainEnd
  <1>15. CASE ClearApply
    BY <1>15 DEF ClearApply
  <1>16. CASE Shutdown
    BY <1>16, ShutdownFlags DEF Shutdown
  <1>17. CASE Join
    BY <1>17 DEF Join
  <1> QED
    BY <1>1, <1>2, <1>3, <1>4, <1>5, <1>6, <1>7, <1>8, <1>9, <1>10, <1>11,
        <1>12, <1>13, <1>14, <1>15, <1>16, <1>17 DEF UserNext

\* Making a call leaves the ring alone.
LEMMA StartRing ==
    ASSUME ControlInv, GraphType, RingType, WaitType, StartNext
    PROVE  RingFrame
  <1> USE StreamAssumption DEF ControlInv, ControlType, CallerAt, InHelper,
      InBody, ReadSteps, EnqueueSteps, ClearSteps, ResetSteps, DestroySteps,
      StatusKept, Threads, Callers, One, PublishSteps, FinalAccepted,
      AfterFinal, RingFrame, RingType, WaitType, At, Goto, Call, Back, Return,
      Sleep, Notify, BumpEpoch, vars, world, store, ring, graph, results,
      engine, dispatch, admission, sched, locals, call, parking, producers,
      epochs, GraphType
  <1>1. CASE \E r \in Records : EnqueueStart(r)
    BY SMTT(60), <1>1 DEF EnqueueStart, Start, MayStart
  <1>2. CASE ClearStart
    BY <1>2 DEF ClearStart, Start, MayStart
  <1>3. CASE DestroyStart
    BY <1>3, DestroyStartFlags DEF DestroyStart, MayStart
  <1>4. CASE \E t \in Callers : ReadStart(t)
    BY <1>4 DEF ReadStart, MayStart
  <1>5. CASE \E t \in Callers : ResetStart(t)
    BY <1>5 DEF ResetStart, Start, MayStart
  <1> QED
    BY <1>1, <1>2, <1>3, <1>4, <1>5 DEF StartNext

\* The coordinator moves completed only as it retires, cancels or fails.
LEMMA CoordRing ==
    ASSUME ControlInv, GraphType, RingType, WaitType, CoordNext,
           ~(Cancelled \/ Retire \/ FailCover)
    PROVE  RingFrame
  <1> USE StreamAssumption DEF ControlInv, ControlType, CallerAt, InHelper,
      InBody, ReadSteps, EnqueueSteps, ClearSteps, ResetSteps, DestroySteps,
      StatusKept, Threads, Callers, One, PublishSteps, FinalAccepted,
      AfterFinal, RingFrame, RingType, WaitType, At, Goto, Call, Back, Return,
      Sleep, Notify, BumpEpoch, vars, world, store, ring, graph, results,
      engine, dispatch, admission, sched, locals, call, parking, producers,
      epochs, GraphType
  <1>1. CASE ProducerAdvertise("coord")
    BY <1>1 DEF ProducerAdvertise
  <1>2. CASE ProducerCheck("coord")
    BY <1>2 DEF ProducerCheck
  <1>3. CASE SpinWake
    BY <1>3 DEF SpinWake, Resume
  <1>4. CASE Advertise
    BY <1>4 DEF Advertise
  <1>5. CASE CheckReady
    BY <1>5 DEF CheckReady
  <1>6. CASE Park
    BY <1>6 DEF Park
  <1>7. CASE Withdraw
    BY <1>7 DEF Withdraw
  <1>8. CASE Observe
    BY <1>8 DEF Observe, Resume
  <1>9. CASE LoopCheck
    BY <1>9 DEF LoopCheck
  <1>10. CASE SessionOver
    BY <1>10 DEF SessionOver
  <1>11. CASE Ending
    BY <1>11 DEF Ending
  <1>12. CASE CompletionNotify("cancelNotify", "deactivate")
    BY <1>12 DEF CompletionNotify, Notify
  <1>13. CASE Deactivate
    BY <1>13, DeactivateFlags DEF Deactivate
  <1>14. CASE Inactivate
    BY <1>14, InactivateFlags DEF Inactivate
  <1>15. CASE Step
    BY <1>15 DEF Step
  <1>16. CASE CompletionNotify("retireNotify", "retire")
    BY <1>16 DEF CompletionNotify, Notify
  <1>17. CASE RetireDone
    BY <1>17 DEF RetireDone
  <1>18. CASE Admit
    BY <1>18 DEF Admit
  <1>19. CASE AdmitDone
    BY <1>19 DEF AdmitDone
  <1>20. CASE FlushAdmit
    BY <1>20 DEF FlushAdmit
  <1>21. CASE EndSession
    BY <1>21 DEF EndSession
  <1>22. CASE StepAgain
    BY <1>22 DEF StepAgain
  <1>23. CASE Fail
    BY <1>23, FailFlags DEF Fail
  <1>24. CASE FailClose
    BY <1>24, FailCloseFlags DEF FailClose
  <1>25. CASE CompletionNotify("failNotify", "discard")
    BY <1>25 DEF CompletionNotify, Notify
  <1>26. CASE Discard
    BY <1>26 DEF Discard
  <1> QED
    BY <1>1, <1>2, <1>3, <1>4, <1>5, <1>6, <1>7, <1>8, <1>9, <1>10, <1>11,
        <1>12, <1>13, <1>14, <1>15, <1>16, <1>17, <1>18, <1>19, <1>20, <1>21,
        <1>22, <1>23, <1>24, <1>25, <1>26 DEF CoordNext

\* Workers leave the ring alone.
LEMMA WorkerRing ==
    ASSUME ControlInv, GraphType, RingType, WaitType, WorkerNext
    PROVE  RingFrame
  <1> USE StreamAssumption DEF ControlInv, ControlType, CallerAt, InHelper,
      InBody, ReadSteps, EnqueueSteps, ClearSteps, ResetSteps, DestroySteps,
      StatusKept, Threads, Callers, One, PublishSteps, FinalAccepted,
      AfterFinal, RingFrame, RingType, WaitType, At, Goto, Call, Back, Return,
      Sleep, Notify, BumpEpoch, vars, world, store, ring, graph, results,
      engine, dispatch, admission, sched, locals, call, parking, producers,
      epochs, GraphType
  <1>1. CASE \E i \in DOMAIN ctxs : WorkerClaim(i)
    BY <1>1 DEF WorkerClaim, SetExec
  <1>2. CASE \E i \in DOMAIN ctxs : WorkerFinish(i)
    BY <1>2 DEF WorkerFinish, SetExec, CountOut
  <1>3. CASE \E i \in DOMAIN ctxs : WorkerFail(i)
    BY <1>3 DEF WorkerFail, SetExec, CountOut
  <1>4. CASE WorkerIdleFail
    BY <1>4 DEF WorkerIdleFail, CountOut
  <1>5. CASE WorkerNotify
    BY <1>5 DEF WorkerNotify
  <1>6. CASE StrayReturns
    BY <1>6 DEF StrayReturns
  <1> QED
    BY <1>1, <1>2, <1>3, <1>4, <1>5, <1>6 DEF WorkerNext

-----------------------------------------------------------------------------
(* Steps that write the ring.                                              *)

\* A new session starts on an empty window.
LEMMA EnqueueRing ==
    ASSUME ControlInv, LifecycleInv, RingInv, Enqueue
    PROVE  RingInv'
  <1>0. /\ pc["user"] = "enq" /\ UNCHANGED <<slots, submitted, completed, observed, target>>
        /\ pc'["user"] \in {"idle", "try", "accept"} /\ ret' = ret /\ ret["user"] = "idle"
    BY DEF Enqueue, At, Return, Goto, ring, call, ControlInv, ControlType, CallerAt, Threads,
           Callers, InBody, InHelper, ReadSteps, EnqueueSteps, ClearSteps, ResetSteps,
           DestroySteps
  <1>1. ~AfterFinal'
    BY <1>0 DEF AfterFinal, PublishSteps
  <1>2. RingType' /\ WaitType' /\ RingBound'
    BY <1>0 DEF RingInv, RingType, WaitType, RingBound
  <1>3. WindowHeld'
    <2>1. CASE lc' = lc
      BY <1>0, <2>1 DEF RingInv, WindowHeld, Window, SlotAt
    <2>2. CASE lc' # lc
      <3>1. completed = submitted /\ submitted \in Nat
        BY <2>2, EnqueueFlags DEF LifecycleInv, GraphType, Accounted, RingInv, RingType
      <3> QED
        BY <1>0, <3>1 DEF WindowHeld, Window
    <2> QED
      BY <2>1, <2>2
  <1> QED
    BY <1>0, <1>1, <1>2, <1>3 DEF RingInv, Publishing, FinalHeld

\* The check that lets the user write: the ring is not full, and the session
\* has no FINAL yet.
LEMMA TryCheckRing ==
    ASSUME ControlInv, LifecycleInv, RingInv, TryCheck
    PROVE  RingInv'
  <1>0. /\ pc["user"] = "tryCheck" /\ ret["user"] = "idle" /\ ret' = ret
        /\ UNCHANGED <<slots, submitted, completed, observed, target, lc, rec>>
        /\ pc'["user"] \in {"write", "release"}
        /\ pc'["user"] = "write" => ~QueueFull
        /\ pc'["user"] = "release" => status' # "accepted"
    BY DEF TryCheck, At, Goto, world, store, graph, ring, call, ControlInv, ControlType,
           CallerAt, Threads, Callers, InBody, InHelper, ReadSteps, EnqueueSteps,
           ClearSteps, ResetSteps, DestroySteps
  <1>1. ~AfterFinal'
    BY <1>0 DEF AfterFinal, PublishSteps, FinalAccepted
  <1>2. RingType' /\ WaitType' /\ RingBound'
    BY <1>0 DEF RingInv, RingType, WaitType, RingBound
  <1>3. WindowHeld'
    BY <1>0 DEF RingInv, WindowHeld, Window, SlotAt
  <1>4. Publishing'
    BY <1>0, StreamAssumption DEF RingInv, RingType, Publishing, QueueFull
  <1> QED
    BY <1>1, <1>2, <1>3, <1>4 DEF RingInv, FinalHeld

\* The slot written holds none of the records still in the window.
LEMMA TryWriteRing ==
    ASSUME ControlInv, LifecycleInv, RingInv, TryWrite
    PROVE  RingInv'
  <1> DEFINE r == [id |-> submitted, type |-> rec.type, len |-> rec.len]
  <1>0. /\ pc["user"] = "write" /\ ret["user"] = "idle" /\ ret' = ret
        /\ UNCHANGED <<submitted, completed, observed, target, rec, status>>
        /\ pc'["user"] = "publish"
        /\ slots' = [slots EXCEPT ![submitted % Capacity] = r]
    BY DEF TryWrite, At, Goto, ring, locals, call, ControlInv, ControlType,
           CallerAt, Threads, Callers, InBody, InHelper, ReadSteps, EnqueueSteps,
           ClearSteps, ResetSteps, DestroySteps
  <1>1. /\ submitted \in Nat /\ completed \in Nat /\ submitted - completed < Capacity
        /\ slots \in [0..(Capacity - 1) -> SlotRange]
        /\ submitted % Capacity \in 0..(Capacity - 1) /\ Capacity \in Nat \ {0}
        /\ completed <= submitted
    BY <1>0, SlotIndex, StreamAssumption DEF RingInv, RingType, RingBound, Publishing
  <1>2. lc.active /\ ~lc.finish
    BY <1>0 DEF LifecycleInv, KeptOpen, Trying
  <1>3. rec.type \in Types /\ rec.len \in Nat \ {0} /\ r \in SlotRange
    <2>1. rec \in [type : {"BULK", "NONE", "FINAL"}, len : Nat \ {0}]
      BY StreamAssumption DEF ControlInv, ControlType
    <2> QED
      BY <2>1, <1>1 DEF SlotRange, Types
  <1>4. slots'[submitted % Capacity] = r
    BY <1>0, <1>1
  <1>5. ASSUME NEW n \in Window
        PROVE  n \in Nat /\ n < submitted /\ slots'[n % Capacity] = slots[n % Capacity]
    <2>1. n \in Nat /\ n < submitted /\ submitted - n < Capacity
      BY <1>1 DEF Window
    <2>2. n % Capacity # submitted % Capacity
      BY <1>1, <2>1, SlotsDiffer
    <2>3. n % Capacity \in 0..(Capacity - 1)
      BY <2>1, SlotIndex
    <2> QED
      BY <1>0, <1>1, <2>1, <2>2, <2>3
  <1>6. RingType' /\ WaitType' /\ RingBound'
    <2>1. slots' \in [0..(Capacity - 1) -> SlotRange]
      BY <1>0, <1>1, <1>3
    <2> QED
      BY <1>0, <1>1, <2>1 DEF RingInv, RingType, WaitType, RingBound
  <1>7. Publishing'
    BY <1>0, <1>1, <1>4 DEF Publishing, SlotAt
  <1>8. WindowHeld'
    <2>1. Window' = Window
      BY <1>0 DEF Window
    <2>2. ASSUME NEW n \in Window
          PROVE  SlotAt(n)' = SlotAt(n) /\ SlotAt(n).type # "FINAL"
      BY <1>2, <1>5 DEF SlotAt, RingInv, WindowHeld
    <2> QED
      BY <2>1, <2>2 DEF RingInv, WindowHeld
  <1>9. FinalHeld'
    <2> SUFFICES ASSUME AfterFinal' PROVE SlotAt(lc.target - 1)'.type = "FINAL"
      BY DEF FinalHeld
    <2>1. rec.type = "FINAL"
      BY <1>0 DEF AfterFinal, PublishSteps, FinalAccepted
    <2>2. lc'.target = submitted + 1
      BY <1>1, <2>1, TryWriteFlags DEF LifecycleInv, GraphType
    <2>3. lc'.target - 1 = submitted
      BY <1>1, <2>2
    <2> QED
      BY <1>4, <2>1, <2>3 DEF SlotAt
  <1> QED
    BY <1>6, <1>7, <1>8, <1>9 DEF RingInv

\* The record published joins the window, and FINAL is the last one.
LEMMA TryPublishRing ==
    ASSUME ControlInv, LifecycleInv, RingInv, TryPublish
    PROVE  RingInv'
  <1>0. /\ pc["user"] = "publish" /\ ret["user"] = "idle" /\ ret' = ret
        /\ UNCHANGED <<slots, completed, observed, target, rec, status, lc>>
        /\ submitted' = submitted + 1
        /\ pc'["user"] = "release"
    BY DEF TryPublish, At, Goto, graph, ring, locals, call, ControlInv, ControlType,
           CallerAt, Threads, Callers, InBody, InHelper, ReadSteps, EnqueueSteps,
           ClearSteps, ResetSteps, DestroySteps
  <1>1. /\ submitted \in Nat /\ completed \in Nat /\ submitted - completed < Capacity
        /\ completed <= submitted /\ Capacity \in Nat
        /\ SlotAt(submitted) = [id |-> submitted, type |-> rec.type, len |-> rec.len]
    BY <1>0, StreamAssumption DEF RingInv, RingType, RingBound, Publishing
  <1>2. rec.len # 0 /\ status = "accepted"
    <2>1. rec \in [type : {"BULK", "NONE", "FINAL"}, len : Nat \ {0}]
      BY StreamAssumption DEF ControlInv, ControlType
    <2> QED
      BY <1>0, <2>1 DEF ControlInv, StatusKept
  <1>3. RingType' /\ WaitType' /\ RingBound' /\ Publishing'
    BY <1>0, <1>1 DEF RingInv, RingType, WaitType, RingBound, Publishing
  <1>4. ASSUME NEW n \in Window PROVE SlotAt(n).type # "FINAL"
    BY <1>0, <1>4 DEF RingInv, WindowHeld
  <1>5. rec.type = "FINAL" => lc.finish
    BY <1>0, <1>2 DEF LifecycleInv, Finishing, AfterFinal, PublishSteps, FinalAccepted
  <1>6. WindowHeld'
    <2>1. Window' = Window \union {submitted}
      BY <1>0, <1>1 DEF Window
    <2>2. \A n : SlotAt(n)' = SlotAt(n)
      BY <1>0 DEF SlotAt
    <2>3. ASSUME NEW n \in Window'
          PROVE  /\ SlotAt(n)'.id = n /\ SlotAt(n)'.len # 0
                 /\ SlotAt(n)'.type = "FINAL" => n = submitted' - 1 /\ lc'.finish
      <3>1. CASE n \in Window
        BY <2>2, <3>1, <1>4 DEF RingInv, WindowHeld
      <3>2. CASE n = submitted
        BY <2>2, <3>2, <1>0, <1>1, <1>2, <1>5
      <3> QED
        BY <2>1, <2>3, <3>1, <3>2
    <2> QED
      BY <1>0, <2>2, <2>3 DEF WindowHeld, SlotAt
  <1>7. FinalHeld'
    <2>1. AfterFinal' => AfterFinal
      BY <1>0 DEF AfterFinal, PublishSteps, FinalAccepted
    <2> QED
      BY <1>0, <2>1 DEF RingInv, FinalHeld, SlotAt
  <1> QED
    BY <1>3, <1>6, <1>7 DEF RingInv

\* A drain arms the finish for what is in the window.
LEMMA DrainRing ==
    ASSUME ControlInv, LifecycleInv, RingInv, Drain
    PROVE  RingInv'
  <1>0. /\ UNCHANGED <<slots, submitted, completed, observed, target>>
        /\ pc'["user"] = "wake" /\ ret'["user"] = "drainWait" /\ lc'.finish
    BY DrainFlags DEF Drain, At, Call, Goto, ring, call, ControlInv, ControlType, Threads,
         Callers, LifecycleInv, GraphType, RingInv, RingType
  <1>1. ~AfterFinal'
    BY <1>0 DEF AfterFinal, PublishSteps
  <1>2. RingType' /\ WaitType' /\ RingBound'
    BY <1>0 DEF RingInv, RingType, WaitType, RingBound
  <1>3. WindowHeld'
    BY <1>0 DEF RingInv, WindowHeld, Window, SlotAt
  <1> QED
    BY <1>0, <1>1, <1>2, <1>3 DEF RingInv, Publishing, FinalHeld

\* Moving completed forward shrinks the window.
LEMMA CompletedRing ==
    ASSUME RingInv, completed' \in Nat, completed <= completed', completed' <= submitted,
           UNCHANGED <<slots, submitted, observed, target, rec, status>>,
           pc'["user"] = pc["user"], ret'["user"] = ret["user"],
           lc'.finish = lc.finish, lc'.target = lc.target, lc.target \in Nat
    PROVE  RingInv'
  <1>0. /\ completed \in Nat /\ submitted \in Nat /\ Capacity \in Nat
        /\ submitted - completed <= Capacity
    BY StreamAssumption DEF RingInv, RingType, RingBound
  <1>1. RingType' /\ WaitType' /\ RingBound'
    <2>0. submitted' = submitted
      OBVIOUS
    <2> DEFINE later == completed'
    <2>2. later \in Nat /\ completed <= later /\ later <= submitted
      OBVIOUS
    <2> HIDE DEF later
    <2>3. submitted - later <= Capacity
      BY <1>0, <2>2
    <2>1. RingBound'
      BY <2>0, <2>2, <2>3 DEF RingBound, later
    <2> QED
      BY <2>1 DEF RingInv, RingType, WaitType
  <1>2. Publishing'
    BY StreamAssumption DEF RingInv, RingType, Publishing, SlotAt
  <1>3. WindowHeld'
    <2>1. Window' \subseteq Window
      BY DEF Window, RingInv, RingType
    <2> QED
      BY <2>1 DEF RingInv, WindowHeld, SlotAt
  <1>4. FinalHeld'
    <2>1. AfterFinal' => AfterFinal
      BY DEF AfterFinal, PublishSteps, FinalAccepted
    <2>2. completed' < lc.target => completed < lc.target
      BY DEF RingInv, RingType
    <2> QED
      BY <2>1, <2>2 DEF RingInv, FinalHeld, SlotAt
  <1> QED
    BY <1>1, <1>2, <1>3, <1>4 DEF RingInv

\* A cancel and a failure move completed up to submitted.
LEMMA CoverRing ==
    ASSUME ControlInv, LifecycleInv, RingInv, Cancelled \/ FailCover
    PROVE  RingInv'
  <1>1. /\ UNCHANGED <<slots, submitted, observed, target, rec, status>>
        /\ completed' = submitted /\ pc'["user"] = pc["user"] /\ ret' = ret
    <2>1. CASE Cancelled
      BY <2>1 DEF Cancelled, Goto, locals, call, ControlInv, ControlType, Threads, Callers
    <2>2. CASE FailCover
      BY <2>2 DEF FailCover, Goto, locals, call, ControlInv, ControlType, Threads, Callers
    <2> QED
      BY <2>1, <2>2
  <1>2. lc'.finish = lc.finish /\ lc'.target = lc.target /\ lc.target \in Nat
    BY CancelledFlags DEF FailCover, graph, LifecycleInv, GraphType, LifecycleFlags
  <1>3. submitted \in Nat /\ completed \in Nat /\ completed <= submitted
    BY DEF RingInv, RingType, RingBound
  <1> QED
    BY <1>1, <1>2, <1>3, CompletedRing

-----------------------------------------------------------------------------
(* Steps that leave the contexts alone.                                    *)

\* The ring and the contexts stay, admission goes on where it was, and the
\* user does not publish over what a failure left behind.
ContextFrame ==
    /\ UNCHANGED <<slots, completed, submitted, frame, ctxs, admitted, cutAt,
                   finalPending, flushAdmitted>>
    /\ progressed' \in BOOLEAN
    /\ Tiled' => Tiled
    /\ pc'["user"] = "publish" => pc["user"] = "publish"
    /\ Tiled /\ lc.finish => lc'.finish
    /\ Sealed'

\* Such a step keeps ContextInv.
LEMMA ContextFramed ==
    ASSUME ContextInv, ContextFrame
    PROVE  ContextInv'
  <1> USE DEF ContextFrame
  <1>1. DispatchType'
    BY DEF ContextInv, DispatchType
  <1>2. Admission'
    BY DEF ContextInv, Admission, SlotAt
  <1>3. ContextsLined'
    BY DEF ContextInv, ContextsLined, Covers, ClosesWhat, Precedes, SlotAt
  <1>4. InOrder'
    BY DEF ContextInv, InOrder, Follows, Tiled
  <1>5. InPlaceHeld' /\ Sealed' /\ LoopIsEmpty'
    BY DEF ContextInv, InPlaceHeld, LoopIsEmpty, SlotAt
  <1> QED
    BY <1>1, <1>2, <1>3, <1>4, <1>5 DEF ContextInv

\* Steps of the helpers and of the calls both callers make leave the contexts
\* alone.
LEMMA CallerContexts ==
    ASSUME ControlInv, GraphType, TokenHeld, RingType, DispatchType, Sealed, NEW t \in Callers,
           CallerNext(t)
    PROVE  ContextFrame
  <1> USE StreamAssumption DEF ControlInv, ControlType, CallerAt, InHelper,
      InBody, ReadSteps, EnqueueSteps, ClearSteps, ResetSteps, DestroySteps,
      CoordAt, GuardHeld, Guarded, WaitSteps, Leaving, Failing, Frames, Threads,
      Callers, GraphType, InSession, TokenHeld, ContextFrame, Tiled, Sealed,
      DispatchType, At, Goto, Call, Back, Return, Sleep, Notify, BumpEpoch,
      vars, world, store, ring, graph, results, engine, dispatch, admission,
      sched, locals, call, parking, producers, epochs
  <1>1. CASE ProducerAdvertise(t)
    BY <1>1 DEF ProducerAdvertise
  <1>2. CASE ProducerCheck(t)
    BY <1>2 DEF ProducerCheck
  <1>3. CASE ChangeSpin(t)
    BY <1>3 DEF ChangeSpin
  <1>4. CASE ChangeAdvertise(t)
    BY <1>4 DEF ChangeAdvertise
  <1>5. CASE ChangeCheck(t)
    BY <1>5 DEF ChangeCheck
  <1>6. CASE Inactive(t)
    BY <1>6 DEF Inactive
  <1>7. CASE WakeBump(t)
    BY <1>7 DEF WakeBump
  <1>8. CASE WakeNotify(t)
    BY <1>8 DEF WakeNotify
  <1>9. CASE SyncTarget(t)
    BY <1>9 DEF SyncTarget
  <1>10. CASE SyncWait(t)
    BY <1>10 DEF SyncWait
  <1>11. CASE Reset(t)
    BY <1>11, ResetFlags DEF Reset
  <1>12. CASE Cancel(t)
    BY <1>12, CancelFlags DEF Cancel
  <1>13. CASE CancelWait(t)
    BY <1>13 DEF CancelWait
  <1>14. CASE CancelEnd(t)
    BY <1>14, CancelEndFlags DEF CancelEnd
  <1>15. CASE ResetApply(t)
    <2>1. UNCHANGED <<ring, engine, ret>> /\ pc' = [pc EXCEPT ![t] = "idle"]
      BY <1>15 DEF ResetApply
    <2> QED
      BY <1>15, <2>1, ResetApplyFlags
  <1> QED
    BY <1>1, <1>2, <1>3, <1>4, <1>5, <1>6, <1>7, <1>8, <1>9, <1>10, <1>11,
        <1>12, <1>13, <1>14, <1>15 DEF CallerNext

\* The user touches the contexts only as it publishes.
LEMMA UserContexts ==
    ASSUME ControlInv, GraphType, TokenHeld, RingType, DispatchType, Sealed, UserNext,
           ~(TryWrite \/ TryPublish)
    PROVE  ContextFrame
  <1> USE StreamAssumption DEF ControlInv, ControlType, CallerAt, InHelper,
      InBody, ReadSteps, EnqueueSteps, ClearSteps, ResetSteps, DestroySteps,
      CoordAt, GuardHeld, Guarded, WaitSteps, Leaving, Failing, Frames, Threads,
      Callers, GraphType, InSession, TokenHeld, ContextFrame, Tiled, Sealed,
      DispatchType, At, Goto, Call, Back, Return, Sleep, Notify, BumpEpoch,
      vars, world, store, ring, graph, results, engine, dispatch, admission,
      sched, locals, call, parking, producers, epochs
  <1>1. CASE Enqueue
    BY <1>1, EnqueueFlags DEF Enqueue
  <1>2. CASE BeginAccepting
    BY <1>2, BeginAcceptingFlags DEF BeginAccepting
  <1>3. CASE TryGuard
    BY <1>3 DEF TryGuard
  <1>4. CASE TryCheck
    BY <1>4 DEF TryCheck
  <1>5. CASE ReleaseProducer
    BY <1>5 DEF ReleaseProducer
  <1>6. CASE ReleaseNotify
    BY <1>6 DEF ReleaseNotify
  <1>7. CASE RecordExchange
    BY <1>7 DEF RecordExchange, Published
  <1>8. CASE RecordNotify
    BY <1>8 DEF RecordNotify, Published
  <1>9. CASE WaitForSlot
    BY <1>9 DEF WaitForSlot
  <1>10. CASE FinishStart
    BY <1>10 DEF FinishStart
  <1>11. CASE FinishWait
    BY <1>11 DEF FinishWait
  <1>12. CASE FinishCheck
    BY <1>12 DEF FinishCheck
  <1>13. CASE FinishEnd
    BY <1>13 DEF FinishEnd
  <1>14. CASE Clear
    BY <1>14, ClearFlags DEF Clear
  <1>15. CASE Drain
    BY <1>15, DrainFlags DEF Drain
  <1>16. CASE DrainWait
    BY <1>16 DEF DrainWait
  <1>17. CASE DrainEnd
    BY <1>17 DEF DrainEnd
  <1>18. CASE ClearApply
    BY <1>18 DEF ClearApply
  <1>19. CASE Shutdown
    BY <1>19, ShutdownFlags DEF Shutdown
  <1>20. CASE Join
    BY <1>20 DEF Join
  <1> QED
    BY <1>1, <1>2, <1>3, <1>4, <1>5, <1>6, <1>7, <1>8, <1>9, <1>10, <1>11,
        <1>12, <1>13, <1>14, <1>15, <1>16, <1>17, <1>18, <1>19, <1>20 DEF UserNext

\* Making a call leaves the contexts alone.
LEMMA StartContexts ==
    ASSUME ControlInv, GraphType, TokenHeld, RingType, DispatchType, Sealed, StartNext
    PROVE  ContextFrame
  <1> USE StreamAssumption DEF ControlInv, ControlType, CallerAt, InHelper,
      InBody, ReadSteps, EnqueueSteps, ClearSteps, ResetSteps, DestroySteps,
      CoordAt, GuardHeld, Guarded, WaitSteps, Leaving, Failing, Frames, Threads,
      Callers, GraphType, InSession, TokenHeld, ContextFrame, Tiled, Sealed,
      DispatchType, At, Goto, Call, Back, Return, Sleep, Notify, BumpEpoch,
      vars, world, store, ring, graph, results, engine, dispatch, admission,
      sched, locals, call, parking, producers, epochs
  <1>1. CASE \E r \in Records : EnqueueStart(r)
    BY <1>1 DEF EnqueueStart, Start, MayStart
  <1>2. CASE ClearStart
    BY <1>2 DEF ClearStart, Start, MayStart
  <1>3. CASE DestroyStart
    BY <1>3, DestroyStartFlags DEF DestroyStart, MayStart
  <1>4. CASE \E t \in Callers : ReadStart(t)
    BY <1>4 DEF ReadStart, MayStart
  <1>5. CASE \E t \in Callers : ResetStart(t)
    BY <1>5 DEF ResetStart, Start, MayStart
  <1> QED
    BY <1>1, <1>2, <1>3, <1>4, <1>5 DEF StartNext

\* Steps of the coordinator that admit, retire and drop nothing.
LEMMA CoordContexts ==
    ASSUME ControlInv, GraphType, TokenHeld, RingType, DispatchType, Sealed,
           Tiled /\ pc["user"] = "accept" => ctxs = <<>>,
           frame = "dispatch" /\ stop /\ ~stopError => lc.cancel, CoordNext,
           ~(LoopCheck \/ Cancelled \/ FailCover \/ Retire
             \/ Admit \/ FlushAdmit \/ EndSession \/ Discard)
    PROVE  ContextFrame
  <1> USE StreamAssumption DEF ControlInv, ControlType, CallerAt, InHelper,
      InBody, ReadSteps, EnqueueSteps, ClearSteps, ResetSteps, DestroySteps,
      CoordAt, GuardHeld, Guarded, WaitSteps, Leaving, Failing, Frames, Threads,
      Callers, GraphType, InSession, TokenHeld, ContextFrame, Tiled, Sealed,
      DispatchType, At, Goto, Call, Back, Return, Sleep, Notify, BumpEpoch,
      vars, world, store, ring, graph, results, engine, dispatch, admission,
      sched, locals, call, parking, producers, epochs
  <1>1. CASE ProducerAdvertise("coord")
    BY <1>1 DEF ProducerAdvertise
  <1>2. CASE ProducerCheck("coord")
    BY <1>2 DEF ProducerCheck
  <1>3. CASE SpinWake
    BY <1>3 DEF SpinWake, Resume
  <1>4. CASE Advertise
    BY <1>4 DEF Advertise
  <1>5. CASE CheckReady
    BY <1>5 DEF CheckReady
  <1>6. CASE Park
    BY <1>6 DEF Park
  <1>7. CASE Withdraw
    BY <1>7 DEF Withdraw
  <1>8. CASE Observe
    BY <1>8 DEF Observe, Resume
  <1>9. CASE SessionOver
    BY <1>9 DEF SessionOver
  <1>10. CASE Ending
    BY <1>10 DEF Ending
  <1>11. CASE CompletionNotify("cancelNotify", "deactivate")
    BY <1>11 DEF CompletionNotify, Notify
  <1>12. CASE Deactivate
    BY <1>12, DeactivateFlags DEF Deactivate
  <1>13. CASE Inactivate
    BY <1>13, InactivateFlags DEF Inactivate
  <1>14. CASE Step
    BY ZenonT(60), <1>14 DEF Step
  <1>15. CASE CompletionNotify("retireNotify", "retire")
    BY <1>15 DEF CompletionNotify, Notify
  <1>16. CASE RetireDone
    BY <1>16 DEF RetireDone
  <1>17. CASE AdmitDone
    BY <1>17 DEF AdmitDone
  <1>18. CASE StepAgain
    BY <1>18 DEF StepAgain
  <1>19. CASE Fail
    BY <1>19, FailFlags DEF Fail
  <1>20. CASE FailClose
    BY <1>20, FailCloseFlags DEF FailClose
  <1>21. CASE CompletionNotify("failNotify", "discard")
    BY <1>21 DEF CompletionNotify, Notify
  <1> QED
    BY <1>1, <1>2, <1>3, <1>4, <1>5, <1>6, <1>7, <1>8, <1>9, <1>10, <1>11,
        <1>12, <1>13, <1>14, <1>15, <1>16, <1>17, <1>18, <1>19, <1>20, <1>21 DEF
        CoordNext

-----------------------------------------------------------------------------
(* Sequences of contexts.                                                  *)

\* What is left when the oldest context goes.
LEMMA TailFacts ==
    ASSUME NEW S, NEW s \in Seq(S), s # <<>>
    PROVE  /\ Tail(s) \in Seq(S) /\ Len(Tail(s)) = Len(s) - 1 /\ Head(s) = s[1]
           /\ DOMAIN Tail(s) = 1..(Len(s) - 1) /\ DOMAIN s = 1..Len(s)
           /\ Len(s) \in Nat \ {0}
           /\ \A i \in 1..(Len(s) - 1) : Tail(s)[i] = s[i + 1]
  <1>1. /\ Tail(s) \in Seq(S) /\ Len(Tail(s)) = Len(s) - 1
        /\ \A i \in 1..Len(Tail(s)) : Tail(s)[i] = s[i + 1]
    BY HeadTailProperties
  <1>2. Len(s) \in Nat \ {0} /\ DOMAIN s = 1..Len(s) /\ DOMAIN Tail(s) = 1..Len(Tail(s))
    BY <1>1, EmptySeq, LenProperties
  <1>3. Head(s) = s[1]
    OBVIOUS
  <1> QED
    BY <1>1, <1>2, <1>3

\* What there is when a context is admitted.
LEMMA AppendFacts ==
    ASSUME NEW S, NEW s \in Seq(S), NEW e \in S
    PROVE  /\ Append(s, e) \in Seq(S) /\ Len(Append(s, e)) = Len(s) + 1
           /\ DOMAIN Append(s, e) = 1..(Len(s) + 1) /\ DOMAIN s = 1..Len(s)
           /\ Len(s) \in Nat
           /\ Append(s, e)[Len(s) + 1] = e
           /\ \A i \in 1..Len(s) : Append(s, e)[i] = s[i]
  <1>1. /\ Append(s, e) \in Seq(S) /\ Len(Append(s, e)) = Len(s) + 1
        /\ Append(s, e)[Len(s) + 1] = e
        /\ \A i \in 1..Len(s) : Append(s, e)[i] = s[i]
    BY AppendProperties
  <1>2. DOMAIN Append(s, e) = 1..Len(Append(s, e)) /\ DOMAIN s = 1..Len(s) /\ Len(s) \in Nat
    BY <1>1, LenProperties
  <1> QED
    BY <1>1, <1>2

\* Before its first record is published a session has no context.
LEMMA AcceptEmpty ==
    ASSUME RingType, ContextInv, Accounted, Tiled, pc["user"] = "accept"
    PROVE  ctxs = <<>>
  <1> SUFFICES ASSUME ctxs # <<>> PROVE FALSE
    OBVIOUS
  <1>1. 1 \in DOMAIN ctxs /\ ctxs[1] \in ContextRange
    BY TailFacts DEF ContextInv, DispatchType
  <1>2. Covers(ctxs[1])
    BY <1>1 DEF ContextInv, ContextsLined
  <1>3. completed <= ctxs[1].first /\ ctxs[1].first <= ctxs[1].seq /\ ctxs[1].seq < submitted
        /\ completed = submitted
    BY <1>2 DEF Covers, Accounted
  <1> QED
    BY <1>1, <1>3 DEF ContextRange, RingType

\* A set of natural numbers that is not empty has a least element.
LEMMA Least ==
    ASSUME NEW S \in SUBSET Nat, S # {}
    PROVE  \E n \in S : \A m \in S : n <= m
  <1>1. PICK n \in S : \A m \in S : ~(<<m, n>> \in OpToRel(<, Nat))
    BY NatLessThanWellFounded, WFMin
  <1>2. ASSUME NEW m \in S PROVE n <= m
    <2>1. <<m, n>> \in OpToRel(<, Nat) <=> m < n
      <3>1. OpToRel(<, Nat) = {ss \in Nat \X Nat : ss[1] < ss[2]}
        BY DEF OpToRel
      <3>2. m \in Nat /\ n \in Nat
        OBVIOUS
      <3> QED
        BY <3>1, <3>2
    <2>2. ~(m < n)
      BY <1>1, <2>1
    <2> QED
      BY <2>2
  <1> QED
    BY <1>2

\* A batch of joined records is not empty and stops at the last one queued.
LEMMA TakeFits ==
    ASSUME admitted \in Nat, submitted \in Nat, admitted < submitted
    PROVE  /\ Take \in 1..(submitted - admitted)
           /\ Take # 1 => Joins(Take)
  <1>1. CASE RecordBytes = 0 \/ ~Joins(1)
    BY <1>1 DEF Take
  <1>2. CASE ~(RecordBytes = 0 \/ ~Joins(1))
    <2> DEFINE K == submitted - admitted
               S == {n \in 1..K : n = K \/ ~Joins(n + 1)}
    <2>1. K \in Nat /\ K >= 1
      OBVIOUS
    <2> HIDE DEF K
    <2>2. S \in SUBSET Nat /\ K \in S
      BY <2>1
    <2>3. PICK n \in S : \A m \in S : n <= m
      BY <2>2, Least
    <2>4. n \in 1..K /\ (n = K \/ ~Joins(n + 1))
      BY <2>3
    <2>5. Joins(n)
      <3>1. CASE n = 1
        BY <3>1, <1>2
      <3>2. CASE n # 1
        <4>1. n - 1 \in 1..K /\ n - 1 < n /\ (n - 1) + 1 = n
          BY <2>1, <2>4, <3>2
        <4>2. n - 1 \notin S
          BY <2>3, <2>4, <4>1, <2>1
        <4> QED
          BY <4>1, <4>2
      <3> QED
        BY <3>1, <3>2
    <2>6. Take = CHOOSE k \in 1..K : Joins(k) /\ (k = K \/ ~Joins(k + 1))
      BY <1>2 DEF Take, K
    <2>7. Take \in 1..K /\ Joins(Take)
      BY <2>4, <2>5, <2>6
    <2> QED
      BY <2>7 DEF K
  <1> QED
    BY <1>1, <1>2

\* What Piece admits: at least one byte of the record at `admitted', all of a
\* record that is not cut, more than one record only if all of them are BULK.
LEMMA PieceFacts ==
    ASSUME RingInv, DispatchType, Admission, Tiled, admitted < submitted,
           NEW c, c = Piece
    PROVE  /\ c \in ContextRange /\ c.first = admitted /\ c.lo = cutAt
           /\ ~c.flush /\ c.exec = "ready"
           /\ admitted <= c.seq /\ c.seq < submitted
           /\ ~c.last => /\ c.seq = admitted /\ c.hi # 0 /\ c.hi < SlotAt(admitted).len
                         /\ RecordBytes # 0 /\ SlotAt(admitted).type # "NONE"
           /\ c.closes <=> c.last /\ SlotAt(admitted).type # "FINAL"
           /\ ~c.closes => c.seq = admitted
           /\ c.inPlace => c.seq = admitted
           /\ c.closes => \A n \in c.first..c.seq : SlotAt(n).type # "FINAL"
  <1> DEFINE s == SlotAt(admitted)
             size == IF Cut /\ RecordBytes < s.len - cutAt THEN RecordBytes
                                                           ELSE s.len - cutAt
             last == cutAt + size = s.len
             take == IF Cut THEN 1 ELSE Take
  <1>1. /\ admitted \in Nat /\ submitted \in Nat /\ completed \in Nat /\ cutAt \in Nat
        /\ completed <= admitted /\ RecordBytes \in Nat /\ admitted \in Window
    BY StreamAssumption DEF RingInv, RingType, DispatchType, Admission, Window
  <1>2. s.type \in Types /\ s.len \in Nat \ {0}
    <2>1. s \in SlotRange
      BY <1>1, SlotIndex DEF RingInv, RingType, SlotAt
    <2>2. s.len # 0
      BY <1>1 DEF RingInv, WindowHeld
    <2> QED
      BY <2>1, <2>2 DEF SlotRange, NoRecord, Types
  <1>3. /\ cutAt # 0 => Cut
        /\ cutAt < s.len
        /\ Cut => RecordBytes # 0 /\ s.type # "NONE"
    BY <1>1, <1>2 DEF Admission, Cut
  <1>4. c = [first |-> admitted, seq |-> admitted + take - 1, lo |-> cutAt,
             hi |-> cutAt + size, last |-> last, inPlace |-> take = 1,
             closes |-> last /\ s.type # "FINAL", flush |-> FALSE, exec |-> "ready"]
    BY DEF Piece, Closes
  <1> HIDE DEF s
  <1>5. /\ size \in Nat /\ size >= 1 /\ cutAt + size <= s.len
        /\ ~last => Cut /\ cutAt + size < s.len
    BY <1>1, <1>2, <1>3
  <1>6. /\ take \in 1..(submitted - admitted)
        /\ take # 1 => Joins(take)
        /\ Cut => take = 1
    <2>1. 1 \in 1..(submitted - admitted)
      BY <1>1
    <2>2. Take \in 1..(submitted - admitted) /\ (Take # 1 => Joins(Take))
      BY <1>1, TakeFits
    <2> QED
      BY <2>1, <2>2
  <1> HIDE DEF size, take
  <1>7. take \in Nat /\ take >= 1 /\ admitted + take - 1 \in Nat /\ take <= submitted - admitted
    BY <1>1, <1>6
  <1>8. take # 1 => \A n \in admitted..(admitted + take - 1) : SlotAt(n).type = "BULK"
    <2> SUFFICES ASSUME take # 1, NEW n \in admitted..(admitted + take - 1)
                 PROVE  SlotAt(n).type = "BULK"
      OBVIOUS
    <2>1. n - admitted \in 0..(take - 1) /\ admitted + (n - admitted) = n
      BY <1>1, <1>7
    <2>2. \A k \in 0..(take - 1) : SlotAt(admitted + k).type = "BULK"
      BY <1>6 DEF Joins
    <2> QED
      BY <2>1, <2>2
  <1>9. s.type = "FINAL" => take = 1
    <2>1. admitted \in admitted..(admitted + take - 1)
      BY <1>1, <1>7
    <2> QED
      BY <1>8, <2>1 DEF s
  <1>10. c \in ContextRange
    <2>1. cutAt + size \in Nat
      BY <1>1, <1>5
    <2> HIDE DEF last
    <2> QED
      BY <1>1, <1>4, <1>7, <2>1 DEF ContextRange, last
  <1>11. /\ c.first = admitted /\ c.lo = cutAt /\ ~c.flush /\ c.exec = "ready"
         /\ c.seq = admitted + take - 1 /\ c.hi = cutAt + size /\ c.last = last
         /\ c.inPlace = (take = 1) /\ c.closes = (last /\ s.type # "FINAL")
    BY <1>4
  <1>12. c.closes => \A n \in c.first..c.seq : SlotAt(n).type # "FINAL"
    <2>1. CASE take = 1
      <3>1. \A n \in admitted..(admitted + take - 1) : n = admitted
        BY <1>1, <2>1
      <3> QED
        BY <1>11, <3>1 DEF s
    <2>2. CASE take # 1
      BY <1>8, <1>11, <2>2
    <2> QED
      BY <2>1, <2>2
  <1>13. admitted <= c.seq /\ c.seq < submitted /\ (take = 1 => c.seq = admitted)
    BY <1>1, <1>7, <1>11
  <1>14. ~c.last => /\ take = 1 /\ c.hi # 0 /\ c.hi < s.len /\ RecordBytes # 0
                    /\ s.type # "NONE"
    <2> SUFFICES ASSUME ~last
                 PROVE  /\ take = 1 /\ cutAt + size # 0 /\ cutAt + size < s.len
                        /\ RecordBytes # 0 /\ s.type # "NONE"
      BY <1>11
    <2>1. Cut /\ cutAt + size < s.len
      BY <1>5
    <2>2. cutAt + size # 0
      BY <1>1, <1>5
    <2> QED
      BY <1>3, <1>6, <2>1, <2>2
  <1>15. ~c.closes => take = 1
    BY <1>9, <1>11, <1>14
  <1>16. (c.closes <=> c.last /\ s.type # "FINAL") /\ (c.inPlace => take = 1)
    BY <1>11
  <1> QED
    BY <1>10, <1>11, <1>12, <1>13, <1>14, <1>15, <1>16 DEF s

-----------------------------------------------------------------------------
(* Workers.                                                                *)

\* Two contexts that cover the same part of the stream.
SameCover(c, d) ==
    /\ c.first = d.first /\ c.seq = d.seq /\ c.lo = d.lo /\ c.hi = d.hi
    /\ c.last = d.last /\ c.inPlace = d.inPlace /\ c.closes = d.closes
    /\ c.flush = d.flush

\* A worker marks a context and leaves what it covers alone.
LEMMA SetExecFacts ==
    ASSUME DispatchType, NEW i \in DOMAIN ctxs,
           NEW v \in {"ready", "running", "done", "dropped"}, SetExec(i, v)
    PROVE  /\ ctxs' \in Seq(ContextRange) /\ Len(ctxs') = Len(ctxs)
           /\ DOMAIN ctxs' = DOMAIN ctxs /\ DOMAIN ctxs = 1..Len(ctxs)
           /\ \A j \in DOMAIN ctxs : SameCover(ctxs'[j], ctxs[j])
           /\ ctxs'[i].exec = v
           /\ \A j \in DOMAIN ctxs : j # i => ctxs'[j] = ctxs[j]
           /\ ctxs' = <<>> <=> ctxs = <<>>
  <1>1. DOMAIN ctxs = 1..Len(ctxs) /\ Len(ctxs) \in Nat /\ ctxs \in Seq(ContextRange)
    BY LenProperties DEF DispatchType
  <1>2. \A j \in DOMAIN ctxs : ctxs[j] \in ContextRange
    BY <1>1, ElementOfSeq
  <1> DEFINE d == [ctxs[i] EXCEPT !.exec = v]
  <1>3. d \in ContextRange /\ SameCover(d, ctxs[i]) /\ d.exec = v
    BY <1>2 DEF ContextRange, SameCover
  <1>4. ctxs' = [ctxs EXCEPT ![i] = d]
    BY DEF SetExec
  <1> HIDE DEF d
  <1>5. /\ ctxs' \in Seq(ContextRange) /\ Len(ctxs') = Len(ctxs)
        /\ \A j \in 1..Len(ctxs) : ctxs'[j] = IF j = i THEN d ELSE ctxs[j]
    BY <1>1, <1>3, <1>4, ExceptSeq
  <1>6. DOMAIN ctxs' = 1..Len(ctxs')
    BY <1>5, LenProperties
  <1>7. ctxs' = <<>> <=> ctxs = <<>>
    BY <1>1, <1>5, EmptySeq
  <1> QED
    BY <1>1, <1>3, <1>5, <1>6, <1>7 DEF SameCover

\* So every part of the invariant survives it.
LEMMA ExecContexts ==
    ASSUME ContextInv, NEW i \in DOMAIN ctxs,
           NEW v \in {"ready", "running", "done", "dropped"}, SetExec(i, v),
           UNCHANGED <<slots, submitted, completed, lc, frame, admitted, cutAt,
                       finalPending, flushAdmitted, progressed, pc>>
    PROVE  ContextInv'
  <1>0. DispatchType
    BY DEF ContextInv
  <1>1. /\ ctxs' \in Seq(ContextRange) /\ Len(ctxs') = Len(ctxs)
        /\ DOMAIN ctxs' = DOMAIN ctxs /\ DOMAIN ctxs = 1..Len(ctxs)
        /\ \A j \in DOMAIN ctxs : SameCover(ctxs'[j], ctxs[j])
        /\ ctxs' = <<>> <=> ctxs = <<>>
    BY <1>0, SetExecFacts
  <1>2. DispatchType'
    BY <1>0, <1>1 DEF DispatchType
  <1>3. Admission'
    BY DEF ContextInv, Admission, SlotAt, Tiled
  <1>4. (Tiled' <=> Tiled) /\ \A n : SlotAt(n)' = SlotAt(n)
    BY DEF Tiled, SlotAt
  <1>5. Len(ctxs) \in Nat
    BY <1>0, LenProperties DEF DispatchType
  <1>6. ContextsLined'
    <2> SUFFICES ASSUME Tiled
                 PROVE  /\ \A j \in DOMAIN ctxs : (Covers(ctxs[j]) /\ ClosesWhat(ctxs[j]))'
                        /\ \A j, k \in DOMAIN ctxs : j < k =>
                              Precedes(ctxs'[j], ctxs'[k]) /\ ~ctxs'[j].flush
                        /\ flushAdmitted /\ ctxs # <<>> => ctxs'[Len(ctxs)].flush
      BY <1>1, <1>4 DEF ContextsLined, Precedes
    <2>1. ASSUME NEW j \in DOMAIN ctxs PROVE (Covers(ctxs[j]) /\ ClosesWhat(ctxs[j]))'
      <3>1. Covers(ctxs[j]) /\ ClosesWhat(ctxs[j]) /\ SameCover(ctxs'[j], ctxs[j])
        BY <1>1 DEF ContextInv, ContextsLined
      <3> QED
        BY <3>1, <1>4 DEF Covers, ClosesWhat, SameCover
    <2>2. ASSUME NEW j \in DOMAIN ctxs, NEW k \in DOMAIN ctxs, j < k
          PROVE  Precedes(ctxs'[j], ctxs'[k]) /\ ~ctxs'[j].flush
      <3>1. Precedes(ctxs[j], ctxs[k]) /\ ~ctxs[j].flush
        BY <2>2 DEF ContextInv, ContextsLined
      <3> QED
        BY <3>1, <1>1 DEF Precedes, SameCover
    <2>3. flushAdmitted /\ ctxs # <<>> => ctxs'[Len(ctxs)].flush
      <3> SUFFICES ASSUME flushAdmitted, ctxs # <<>> PROVE ctxs'[Len(ctxs)].flush
        OBVIOUS
      <3>1. Len(ctxs) \in DOMAIN ctxs
        BY <1>0, <1>1, <1>5, EmptySeq DEF DispatchType
      <3>2. ctxs[Len(ctxs)].flush
        BY DEF ContextInv, ContextsLined
      <3> QED
        BY <3>1, <3>2, <1>1 DEF SameCover
    <2> QED
      BY <2>1, <2>2, <2>3
  <1>7. InOrder'
    <2> SUFFICES ASSUME Tiled
                 PROVE  /\ \A j \in 1..(Len(ctxs) - 1) : Follows(ctxs'[j], ctxs'[j + 1])
                        /\ IF ctxs = <<>>
                             THEN admitted = completed
                                    + (IF finalPending /\ ~flushAdmitted THEN 1 ELSE 0)
                             ELSE LET c == ctxs'[Len(ctxs)] IN
                                    /\ ctxs'[1].first = completed
                                    /\ IF c.last THEN admitted = c.seq + 1 /\ cutAt = 0
                                                ELSE admitted = c.first /\ cutAt = c.hi
      BY <1>1, <1>4 DEF InOrder, Tiled, Follows
    <2>1. ASSUME NEW j \in 1..(Len(ctxs) - 1) PROVE Follows(ctxs'[j], ctxs'[j + 1])
      <3>1. j \in DOMAIN ctxs /\ j + 1 \in DOMAIN ctxs
        BY <1>1, <1>5
      <3>2. Follows(ctxs[j], ctxs[j + 1])
        BY DEF ContextInv, InOrder, Tiled
      <3> QED
        BY <3>1, <3>2, <1>1 DEF Follows, SameCover
    <2>2. CASE ctxs = <<>>
      BY <2>1, <2>2 DEF ContextInv, InOrder, Tiled
    <2>3. CASE ctxs # <<>>
      <3>1. Len(ctxs) \in DOMAIN ctxs /\ 1 \in DOMAIN ctxs
        BY <1>0, <1>1, <1>5, <2>3, EmptySeq DEF DispatchType
      <3>2. /\ ctxs[1].first = completed
            /\ IF ctxs[Len(ctxs)].last
                 THEN admitted = ctxs[Len(ctxs)].seq + 1 /\ cutAt = 0
                 ELSE admitted = ctxs[Len(ctxs)].first /\ cutAt = ctxs[Len(ctxs)].hi
        BY <2>3 DEF ContextInv, InOrder, Tiled
      <3>3. SameCover(ctxs'[1], ctxs[1]) /\ SameCover(ctxs'[Len(ctxs)], ctxs[Len(ctxs)])
        BY <3>1, <1>1
      <3> QED
        BY <2>1, <2>3, <3>2, <3>3 DEF SameCover
    <2> QED
      BY <2>2, <2>3
  <1>8. InPlaceHeld'
    BY <1>1, <1>4 DEF ContextInv, InPlaceHeld, SameCover
  <1>9. Sealed' /\ LoopIsEmpty'
    BY <1>1 DEF ContextInv, Sealed, LoopIsEmpty
  <1> QED
    BY <1>2, <1>3, <1>6, <1>7, <1>8, <1>9 DEF ContextInv

\* Workers only mark contexts.
LEMMA WorkerContexts ==
    ASSUME ContextInv, WorkerNext
    PROVE  ContextInv'
  <1> USE DEF store, ring, graph, admission, dispatch
  <1>1. ASSUME NEW i \in DOMAIN ctxs, WorkerClaim(i) PROVE ContextInv'
    BY <1>1, ExecContexts DEF WorkerClaim
  <1>2. ASSUME NEW i \in DOMAIN ctxs, WorkerFinish(i) PROVE ContextInv'
    <2>1. PICK v \in {"done", "dropped"} : SetExec(i, v)
      BY <1>2 DEF WorkerFinish
    <2> QED
      BY <1>2, <2>1, ExecContexts DEF WorkerFinish
  <1>3. ASSUME NEW i \in DOMAIN ctxs, WorkerFail(i) PROVE ContextInv'
    BY <1>3, ExecContexts DEF WorkerFail
  <1>4. CASE WorkerIdleFail \/ WorkerNotify \/ StrayReturns
    <2>1. UNCHANGED <<slots, submitted, completed, lc, frame, ctxs, admitted, cutAt,
                      finalPending, flushAdmitted, progressed, pc>>
      BY <1>4 DEF WorkerIdleFail, WorkerNotify, StrayReturns
    <2>2. ContextFrame
      BY <2>1 DEF ContextInv, DispatchType, ContextFrame, Tiled, Sealed
    <2> QED
      BY <2>2, ContextFramed
  <1> QED
    BY <1>1, <1>2, <1>3, <1>4 DEF WorkerNext

-----------------------------------------------------------------------------
(* The user publishes.                                                     *)

\* Nothing is written over a record that a context still reads in place.
LEMMA TryWriteContexts ==
    ASSUME ControlInv, LifecycleInv, RingInv, ContextInv, TryWrite
    PROVE  ContextInv'
  <1>0. /\ pc["user"] = "write" /\ pc'["user"] = "publish" /\ pc'["coord"] = pc["coord"]
        /\ UNCHANGED <<submitted, completed, frame, ctxs, admitted, cutAt,
                       finalPending, flushAdmitted, progressed>>
        /\ slots' = [slots EXCEPT ![submitted % Capacity] =
                       [id |-> submitted, type |-> rec.type, len |-> rec.len]]
    BY DEF TryWrite, At, Goto, engine, dispatch, admission, ControlInv, ControlType,
           Threads, Callers
  <1>1. /\ submitted \in Nat /\ completed \in Nat /\ submitted - completed < Capacity
        /\ slots \in [0..(Capacity - 1) -> SlotRange] /\ Capacity \in Nat \ {0}
        /\ completed <= submitted
    BY <1>0, StreamAssumption DEF RingInv, RingType, RingBound, Publishing
  <1>2. lc.active /\ ~lc.finish /\ ~lc.cancel
    BY <1>0 DEF LifecycleInv, KeptOpen, Trying
  <1>3. (lc.finish => lc'.finish) /\ lc'.cancel = lc.cancel
    BY <1>1, <1>2, TryWriteFlags DEF LifecycleInv, GraphType
  <1>4. ASSUME NEW n \in Window PROVE SlotAt(n)' = SlotAt(n)
    <2>1. n \in Nat /\ n < submitted /\ submitted - n < Capacity
      BY <1>1 DEF Window
    <2>2. n % Capacity # submitted % Capacity
      BY <1>1, <2>1, SlotsDiffer
    <2>3. n % Capacity \in 0..(Capacity - 1)
      BY <2>1, SlotIndex
    <2> QED
      BY <1>0, <1>1, <2>2, <2>3 DEF SlotAt
  <1>5. ~finalPending \/ ~Tiled
    BY <1>2 DEF ContextInv, Admission
  <1>6. ~Tiled => ctxs = <<>>
    <2>1. frame \in {"loop", "dispatch"}
      BY DEF ControlInv, Frames
    <2> QED
      BY <1>0, <1>2, <2>1 DEF Tiled, ContextInv, LoopIsEmpty, Sealed
  <1>7. DispatchType'
    BY <1>0 DEF ContextInv, DispatchType
  <1>8. Tiled' <=> Tiled
    BY <1>0 DEF Tiled
  <1>9. Admission'
    <2> SUFFICES ASSUME Tiled
                 PROVE  /\ completed <= admitted /\ admitted <= submitted
                        /\ cutAt # 0 =>
                             /\ admitted < submitted /\ cutAt < SlotAt(admitted)'.len
                             /\ RecordBytes # 0 /\ SlotAt(admitted)'.type # "NONE"
                        /\ ~finalPending /\ ~flushAdmitted
      BY <1>0, <1>8 DEF Admission, SlotAt
    <2>1. cutAt # 0 => admitted \in Window
      BY <1>1 DEF ContextInv, DispatchType, Admission, Window
    <2>2. cutAt # 0 => SlotAt(admitted)' = SlotAt(admitted)
      BY <2>1, <1>0, <1>4 DEF SlotAt
    <2>3. ~finalPending /\ ~flushAdmitted
      BY <1>5 DEF ContextInv, DispatchType, Admission
    <2> QED
      BY <2>2, <2>3 DEF ContextInv, Admission
  <1>10. ASSUME Tiled, NEW i \in DOMAIN ctxs
         PROVE  \A n \in ctxs[i].first..ctxs[i].seq : SlotAt(n)' = SlotAt(n)
    <2>1. Covers(ctxs[i]) /\ ctxs[i] \in ContextRange
      BY <1>10 DEF ContextInv, ContextsLined, DispatchType
    <2>2. ctxs[i].first..ctxs[i].seq \subseteq Window
      BY <2>1, <1>1 DEF Covers, ContextRange, Window
    <2> QED
      BY <2>2, <1>4
  <1>11. ContextsLined'
    <2> SUFFICES ASSUME Tiled
                 PROVE  /\ \A i \in DOMAIN ctxs : Covers(ctxs[i])' /\ ClosesWhat(ctxs[i])'
                        /\ \A i, j \in DOMAIN ctxs : i < j =>
                             Precedes(ctxs[i], ctxs[j]) /\ ~ctxs[i].flush
                        /\ flushAdmitted /\ ctxs # <<>> => ctxs[Len(ctxs)].flush
      BY <1>0, <1>8 DEF ContextsLined, Precedes
    <2>1. ASSUME NEW i \in DOMAIN ctxs PROVE (Covers(ctxs[i]) /\ ClosesWhat(ctxs[i]))'
      <3>1. Covers(ctxs[i]) /\ ClosesWhat(ctxs[i])
        BY DEF ContextInv, ContextsLined
      <3>2. Covers(ctxs[i])'
        BY <3>1, <1>0 DEF Covers
      <3>3. ClosesWhat(ctxs[i])'
        BY <3>1, <1>0, <1>10 DEF ClosesWhat
      <3> QED
        BY <3>2, <3>3
    <2> QED
      BY <2>1 DEF ContextInv, ContextsLined
  <1>12. InOrder'
    BY <1>0, <1>8 DEF ContextInv, InOrder, Tiled, Follows
  <1>13. InPlaceHeld'
    <2> SUFFICES ASSUME NEW i \in DOMAIN ctxs, ctxs[i].inPlace, ~ctxs[i].flush
                 PROVE  SlotAt(ctxs[i].seq)'.id = ctxs[i].seq
      BY <1>0 DEF InPlaceHeld, SlotAt
    <2>1. Tiled
      BY <1>6
    <2>2. Covers(ctxs[i]) /\ ctxs[i] \in ContextRange
      BY <2>1 DEF ContextInv, ContextsLined, DispatchType
    <2>3. ctxs[i].seq \in ctxs[i].first..ctxs[i].seq
      BY <2>2 DEF Covers, ContextRange
    <2>4. SlotAt(ctxs[i].seq)' = SlotAt(ctxs[i].seq)
      BY <2>1, <2>3, <1>0, <1>10 DEF SlotAt
    <2>5. SlotAt(ctxs[i].seq).id = ctxs[i].seq
      BY DEF ContextInv, InPlaceHeld
    <2> QED
      BY <2>4, <2>5
  <1>14. Sealed'
    <2>1. ctxs # <<>> => Tiled
      BY <1>6
    <2>2. pc["coord"] \in {"failCover", "failNotify", "discard"} => ctxs = <<>>
      BY <1>0, <1>2 DEF ContextInv, Sealed
    <2>3. pc["coord"] \in {"wpAdvertise", "wpCheck"} /\ ctxs # <<>> => ~lc.accepting
      BY <1>0, <1>2 DEF ContextInv, Sealed
    <2>4. ~lc.accepting => ~lc'.accepting
      BY <1>1, <1>2, TryWriteFlags DEF LifecycleInv, GraphType
    <2> QED
      BY <1>0, <2>2, <2>3, <2>4 DEF Sealed
  <1>15. LoopIsEmpty'
    BY <1>0 DEF ContextInv, LoopIsEmpty
  <1> QED
    BY <1>7, <1>9, <1>11, <1>12, <1>13, <1>14, <1>15 DEF ContextInv

\* A record published is admitted by nobody yet.
LEMMA TryPublishContexts ==
    ASSUME ControlInv, RingInv, ContextInv, TryPublish
    PROVE  ContextInv'
  <1>0. /\ pc["user"] = "publish" /\ pc'["user"] = "release" /\ pc'["coord"] = pc["coord"]
        /\ UNCHANGED <<slots, completed, lc, frame, ctxs, admitted, cutAt,
                       finalPending, flushAdmitted, progressed>>
        /\ submitted' = submitted + 1 /\ submitted \in Nat
    BY DEF TryPublish, At, Goto, engine, graph, dispatch, admission, ControlInv, ControlType,
           Threads, Callers, RingInv, RingType
  <1>1. DispatchType' /\ (Tiled' <=> Tiled)
    BY <1>0 DEF ContextInv, DispatchType, Tiled
  <1>2. Tiled => ~finalPending
    BY <1>0 DEF ContextInv, Admission
  <1>3. Admission'
    <2> SUFFICES ASSUME Tiled PROVE Admission'
      BY <1>1 DEF Admission
    <2>1. admitted <= submitted' /\ (admitted < submitted => admitted < submitted')
      BY <1>0 DEF ContextInv, DispatchType, Admission
    <2> QED
      BY <1>0, <1>1, <1>2, <2>1 DEF ContextInv, Admission, SlotAt
  <1>4. ASSUME Tiled, NEW i \in DOMAIN ctxs
        PROVE  Covers(ctxs[i])' /\ ClosesWhat(ctxs[i])'
    <2>1. Covers(ctxs[i]) /\ ClosesWhat(ctxs[i]) /\ ctxs[i] \in ContextRange
      BY <1>4 DEF ContextInv, ContextsLined, DispatchType
    <2>2. ctxs[i].seq < submitted'
      BY <2>1, <1>0 DEF Covers, ContextRange
    <2> QED
      BY <1>0, <2>1, <2>2 DEF Covers, ClosesWhat, SlotAt
  <1>5. ContextsLined'
    BY <1>0, <1>1, <1>4 DEF ContextInv, ContextsLined, Precedes
  <1>6. InOrder'
    BY <1>0, <1>1 DEF ContextInv, InOrder, Tiled, Follows
  <1>7. InPlaceHeld' /\ Sealed' /\ LoopIsEmpty'
    BY <1>0 DEF ContextInv, InPlaceHeld, Sealed, LoopIsEmpty, SlotAt
  <1> QED
    BY <1>1, <1>3, <1>5, <1>6, <1>7 DEF ContextInv

-----------------------------------------------------------------------------
(* Sessions begin and end with no context.                                 *)

\* Between two sessions nothing is in flight.
LEMMA LoopContexts ==
    ASSUME frame' = "loop", ctxs' = <<>>, DispatchType'
    PROVE  ContextInv'
  BY DEF ContextInv, Admission, ContextsLined, InOrder, InPlaceHeld, Sealed, LoopIsEmpty, Tiled

\* A session starts at the first record not retired.
LEMMA LoopCheckContexts ==
    ASSUME ControlInv, RingInv, ContextInv, LoopCheck
    PROVE  ContextInv'
  <1>0. /\ pc["coord"] = "check" /\ frame = "loop" /\ ctxs = <<>> /\ ctxs' = <<>>
        /\ UNCHANGED <<slots, submitted, completed>>
    BY DEF LoopCheck, At, ControlInv, CoordAt, Frames, WaitSteps, Failing, ContextInv,
           LoopIsEmpty, store, ring
  <1>1. CASE frame' = "loop"
    <2>1. DispatchType'
      BY <1>0, <1>1 DEF LoopCheck, ContextInv, DispatchType, admission
    <2> QED
      BY <1>0, <1>1, <2>1, LoopContexts
  <1>2. CASE frame' # "loop"
    <2>1. /\ frame' = "dispatch" /\ admitted' = completed /\ cutAt' = 0
          /\ finalPending' = FALSE /\ flushAdmitted' = FALSE /\ progressed' = FALSE
          /\ pc'["coord"] = "step"
      BY <1>0, <1>2 DEF LoopCheck, Goto, ControlInv, ControlType, Threads
    <2>2. completed \in Nat /\ completed <= submitted /\ completed + 0 = completed
      BY DEF RingInv, RingType, RingBound
    <2>3. DispatchType'
      BY <1>0, <2>1, <2>2 DEF ContextInv, DispatchType, Frames
    <2>4. Admission'
      BY <1>0, <2>1, <2>2 DEF Admission
    <2>5. InOrder'
      <3>1. 1..(Len(ctxs') - 1) = {}
        BY <1>0
      <3> QED
        BY <1>0, <2>1, <2>2, <3>1 DEF InOrder
    <2> QED
      BY <1>0, <2>1, <2>3, <2>4, <2>5
         DEF ContextInv, ContextsLined, InPlaceHeld, Sealed, LoopIsEmpty
  <1> QED
    BY <1>1, <1>2

\* A session that ends, is cancelled or drops its contexts leaves none.
LEMMA OverContexts ==
    ASSUME ControlInv, ContextInv, Cancelled \/ EndSession \/ Discard
    PROVE  ContextInv'
  <1>1. CASE Cancelled
    <2>1. frame = "loop" /\ ctxs = <<>>
      BY <1>1 DEF Cancelled, At, ControlInv, CoordAt, Frames, WaitSteps, Failing, ContextInv,
                  LoopIsEmpty
    <2>2. UNCHANGED <<frame, ctxs, admitted, cutAt, finalPending, flushAdmitted, progressed>>
      BY <1>1 DEF Cancelled, engine, dispatch, admission
    <2> QED
      BY <2>1, <2>2, LoopContexts DEF ContextInv, DispatchType
  <1>2. CASE EndSession
    BY <1>2, LoopContexts DEF EndSession, MayEnd, admission, ContextInv, DispatchType, Frames
  <1>3. CASE Discard
    <2>1. <<>> \in Seq(ContextRange) /\ Len(<<>>) = 0
      BY EmptySeq
    <2>2. DispatchType'
      BY <1>3, <2>1, StreamAssumption
         DEF Discard, admission, ContextInv, DispatchType, Frames
    <2> QED
      BY <1>3, <2>2, LoopContexts DEF Discard
  <1> QED
    BY <1>1, <1>2, <1>3

\* A failure covers what is queued; the contexts wait to be dropped.
LEMMA FailCoverContexts ==
    ASSUME ControlInv, ContextInv, FailCover
    PROVE  ContextInv'
  <1>0. /\ pc["coord"] = "failCover" /\ pc'["coord"] = "failNotify" /\ pc'["user"] = pc["user"]
        /\ UNCHANGED <<slots, lc, frame, ctxs, admitted, cutAt, finalPending,
                       flushAdmitted, progressed>>
    BY DEF FailCover, At, Goto, engine, graph, dispatch, admission, ControlInv, ControlType,
           Threads, Callers
  <1>1. ~Tiled' /\ DispatchType'
    BY <1>0 DEF Tiled, ContextInv, DispatchType
  <1>2. InPlaceHeld' /\ Sealed' /\ LoopIsEmpty'
    BY <1>0 DEF ContextInv, InPlaceHeld, Sealed, LoopIsEmpty, SlotAt
  <1> QED
    BY <1>1, <1>2 DEF ContextInv, Admission, ContextsLined, InOrder, Tiled

-----------------------------------------------------------------------------
(* Admission appends a context.                                            *)

\* A context behind which the others stay in line keeps the line.
LEMMA AppendLined ==
    ASSUME DispatchType, ContextsLined, Tiled, NEW c \in ContextRange,
           ctxs' = Append(ctxs, c),
           \A e \in ContextRange : Covers(e) /\ ClosesWhat(e) =>
             (Covers(e) /\ ClosesWhat(e))' /\ Precedes(e, c) /\ ~e.flush,
           (Covers(c) /\ ClosesWhat(c))',
           flushAdmitted' => c.flush
    PROVE  ContextsLined'
  <1> DEFINE n == Len(ctxs)
  <1>1. /\ ctxs' \in Seq(ContextRange) /\ Len(ctxs') = n + 1
        /\ DOMAIN ctxs' = 1..(n + 1) /\ DOMAIN ctxs = 1..n /\ n \in Nat
        /\ ctxs'[n + 1] = c
        /\ \A i \in 1..n : ctxs'[i] = ctxs[i]
    BY AppendFacts DEF DispatchType
  <1>2. ASSUME NEW i \in 1..n
        PROVE  /\ ctxs[i] \in ContextRange /\ Covers(ctxs[i]) /\ ClosesWhat(ctxs[i])
               /\ ctxs'[i] = ctxs[i]
    BY <1>1 DEF DispatchType, ContextsLined
  <1>3. ASSUME NEW i \in DOMAIN ctxs' PROVE (Covers(ctxs[i]) /\ ClosesWhat(ctxs[i]))'
    <2>1. CASE i \in 1..n
      <3>1. PICK e \in ContextRange : e = ctxs[i] /\ e = ctxs'[i] /\ Covers(e) /\ ClosesWhat(e)
        BY <1>2, <2>1
      <3>2. (Covers(e) /\ ClosesWhat(e))'
        BY <3>1
      <3> QED
        BY <3>1, <3>2 DEF Covers, ClosesWhat
    <2>2. CASE i = n + 1
      BY <1>1, <2>2 DEF Covers, ClosesWhat
    <2> QED
      BY <1>1, <2>1, <2>2
  <1>4. ASSUME NEW i \in DOMAIN ctxs', NEW j \in DOMAIN ctxs', i < j
        PROVE  Precedes(ctxs'[i], ctxs'[j]) /\ ~ctxs'[i].flush
    <2>1. i \in 1..n
      BY <1>1, <1>4
    <2>2. CASE j \in 1..n
      BY <1>1, <1>4, <2>1, <2>2 DEF ContextsLined
    <2>3. CASE j = n + 1
      BY <1>1, <1>2, <2>1, <2>3
    <2> QED
      BY <1>1, <2>2, <2>3
  <1>5. flushAdmitted' => ctxs'[Len(ctxs')].flush
    BY <1>1
  <1> QED
    BY <1>3, <1>4, <1>5 DEF ContextsLined, Precedes

\* A context that starts where the last one stops keeps the order.
LEMMA AppendOrdered ==
    ASSUME DispatchType, InOrder, Tiled, NEW c \in ContextRange,
           ctxs' = Append(ctxs, c), completed' = completed,
           ctxs # <<>> => Follows(ctxs[Len(ctxs)], c),
           ctxs = <<>> => c.first = completed,
           IF c.last THEN admitted' = c.seq + 1 /\ cutAt' = 0
                     ELSE admitted' = c.first /\ cutAt' = c.hi
    PROVE  InOrder'
  <1> DEFINE n == Len(ctxs)
  <1>1. /\ ctxs' \in Seq(ContextRange) /\ Len(ctxs') = n + 1
        /\ DOMAIN ctxs' = 1..(n + 1) /\ DOMAIN ctxs = 1..n /\ n \in Nat
        /\ ctxs'[n + 1] = c
        /\ \A i \in 1..n : ctxs'[i] = ctxs[i]
    BY AppendFacts DEF DispatchType
  <1>2. (ctxs = <<>> <=> n = 0) /\ ctxs' # <<>>
    BY <1>1, EmptySeq DEF DispatchType
  <1> HIDE DEF n
  <1>3. ASSUME NEW i \in 1..n PROVE Follows(ctxs'[i], ctxs'[i + 1])
    <2>1. CASE i = n
      BY <1>1, <1>2, <2>1 DEF n
    <2>2. CASE i # n
      <3>1. i \in 1..(n - 1) /\ i + 1 \in 1..n
        BY <1>1, <2>2
      <3>2. Follows(ctxs[i], ctxs[i + 1])
        BY <3>1 DEF InOrder, Tiled, n
      <3> QED
        BY <1>1, <3>1, <3>2
    <2> QED
      BY <2>1, <2>2
  <1>4. ctxs'[1].first = completed
    <2>1. CASE n = 0
      BY <1>1, <1>2, <2>1
    <2>2. CASE n # 0
      BY <1>1, <1>2, <2>2 DEF InOrder, Tiled, n
    <2> QED
      BY <2>1, <2>2
  <1>5. Len(ctxs') - 1 = n
    BY <1>1
  <1> QED
    BY <1>1, <1>2, <1>3, <1>4, <1>5 DEF InOrder, Follows, n

\* The flush comes behind the last piece of FINAL and closes its sequence.
LEMMA FlushAdmitContexts ==
    ASSUME ControlInv, RingInv, ContextInv, FlushAdmit
    PROVE  ContextInv'
  <1> DEFINE c == [first |-> admitted - 1, seq |-> admitted - 1, lo |-> 0, hi |-> 0,
                   last |-> TRUE, inPlace |-> FALSE, closes |-> TRUE, flush |-> TRUE,
                   exec |-> "ready"]
  <1>0. /\ pc["coord"] = "flush" /\ finalPending /\ ~flushAdmitted /\ Len(ctxs) < Contexts
        /\ pc'["coord"] = "step" /\ pc'["user"] = pc["user"]
        /\ ctxs' = Append(ctxs, c) /\ flushAdmitted' = TRUE
        /\ UNCHANGED <<slots, submitted, completed, lc, frame, admitted, cutAt,
                       finalPending, progressed>>
    BY DEF FlushAdmit, At, Goto, Free, store, ring, graph, ControlInv, ControlType, Threads,
           Callers
  <1>1. frame = "dispatch" /\ Tiled /\ Tiled'
    BY <1>0 DEF ControlInv, CoordAt, Frames, WaitSteps, Leaving, Tiled
  <1>2. /\ admitted \in Nat /\ submitted \in Nat /\ completed \in Nat /\ cutAt = 0
        /\ admitted = submitted /\ lc.finish /\ pc["user"] # "publish"
        /\ ctxs \in Seq(ContextRange)
    BY <1>0, <1>1 DEF ContextInv, DispatchType, Admission, RingInv, RingType
  <1>3. ASSUME ctxs # <<>>
        PROVE  /\ ctxs[Len(ctxs)].last /\ ctxs[Len(ctxs)].seq = admitted - 1
               /\ completed <= admitted - 1
    <2> DEFINE d == ctxs[Len(ctxs)]
    <2>1. Len(ctxs) \in DOMAIN ctxs /\ d \in ContextRange
      BY <1>2, <1>3, TailFacts
    <2>2. Covers(d)
      BY <1>1, <2>1 DEF ContextInv, ContextsLined
    <2>3. IF d.last THEN admitted = d.seq + 1 /\ cutAt = 0
                    ELSE admitted = d.first /\ cutAt = d.hi
      BY <1>1, <1>3 DEF ContextInv, InOrder, Tiled
    <2> HIDE DEF d
    <2>4. d.last
      BY <1>2, <2>2, <2>3 DEF Covers
    <2>5. completed <= d.seq /\ d.seq \in Nat /\ admitted = d.seq + 1
      BY <1>2, <2>1, <2>2, <2>3, <2>4 DEF Covers, ContextRange
    <2>6. d.seq = admitted - 1
      BY <2>5
    <2> QED
      BY <2>4, <2>5, <2>6 DEF d
  <1>4. ctxs = <<>> => admitted = completed + 1
    BY <1>0, <1>1 DEF ContextInv, InOrder, Tiled
  <1>5. admitted - 1 \in Nat /\ completed <= admitted - 1 /\ (admitted - 1) + 1 = admitted
    BY <1>2, <1>3, <1>4
  <1>6. c \in ContextRange /\ c.last /\ c.flush /\ c.closes /\ ~c.inPlace
        /\ c.first = admitted - 1 /\ c.seq = admitted - 1
    BY <1>5 DEF ContextRange
  <1> HIDE DEF c
  <1>7. ContextsLined'
    <2>1. ASSUME NEW e \in ContextRange, Covers(e), ClosesWhat(e)
          PROVE  (Covers(e) /\ ClosesWhat(e))' /\ Precedes(e, c) /\ ~e.flush
      <3>1. ~e.flush
        BY <1>0, <2>1 DEF ClosesWhat
      <3>2. Precedes(e, c)
        BY <1>0, <1>2, <1>5, <1>6, <2>1, <3>1 DEF Covers, ClosesWhat, Precedes, ContextRange
      <3>3. (Covers(e) /\ ClosesWhat(e))'
        BY <1>0, <2>1, <3>1 DEF Covers, ClosesWhat, SlotAt
      <3> QED
        BY <3>1, <3>2, <3>3
    <2>2. PICK d \in ContextRange : d = c
      BY <1>6
    <2>3. Covers(d)'
      BY <1>0, <1>2, <1>5, <1>6, <2>2 DEF Covers
    <2>4. ClosesWhat(d)'
      BY <1>0, <1>6, <2>2 DEF ClosesWhat
    <2> QED
      BY <1>0, <1>1, <1>6, <2>1, <2>2, <2>3, <2>4, AppendLined DEF ContextInv
  <1>8. InOrder'
    <2>1. ctxs # <<>> => Follows(ctxs[Len(ctxs)], c)
      BY <1>3, <1>6 DEF Follows
    <2>2. ctxs = <<>> => c.first = completed
      BY <1>2, <1>4, <1>6
    <2>3. admitted' = c.seq + 1 /\ cutAt' = 0
      BY <1>0, <1>2, <1>5, <1>6
    <2> QED
      BY <1>0, <1>1, <1>6, <2>1, <2>2, <2>3, AppendOrdered DEF ContextInv
  <1>9. /\ ctxs' \in Seq(ContextRange) /\ Len(ctxs') = Len(ctxs) + 1
        /\ DOMAIN ctxs' = 1..(Len(ctxs) + 1) /\ DOMAIN ctxs = 1..Len(ctxs)
        /\ Len(ctxs) \in Nat /\ ctxs'[Len(ctxs) + 1] = c
        /\ \A i \in 1..Len(ctxs) : ctxs'[i] = ctxs[i]
    BY <1>0, <1>2, <1>6, AppendFacts
  <1>10. DispatchType'
    BY <1>0, <1>9, StreamAssumption DEF ContextInv, DispatchType
  <1>11. InPlaceHeld'
    BY <1>0, <1>6, <1>9 DEF ContextInv, InPlaceHeld, SlotAt
  <1>12. Admission'
    BY <1>0, <1>1 DEF ContextInv, Admission, SlotAt
  <1> QED
    BY <1>0, <1>1, <1>7, <1>8, <1>10, <1>11, <1>12 DEF ContextInv, Sealed, LoopIsEmpty

\* A piece, a record or a batch is admitted behind what was admitted before.
LEMMA AdmitContexts ==
    ASSUME ControlInv, RingInv, ContextInv, Admit
    PROVE  ContextInv'
  <1>0. /\ pc["coord"] = "admit" /\ admitted < submitted /\ Len(ctxs) < Contexts
        /\ UNCHANGED <<slots, submitted, completed, lc, frame, flushAdmitted, pc>>
        /\ progressed' = TRUE
    BY DEF Admit, At, Free, store, ring, graph
  <1>1. frame = "dispatch" /\ Tiled /\ Tiled'
    BY <1>0 DEF ControlInv, CoordAt, Frames, WaitSteps, Leaving, Tiled
  <1>2. /\ admitted \in Nat /\ submitted \in Nat /\ completed \in Nat /\ cutAt \in Nat
        /\ completed <= admitted /\ ctxs \in Seq(ContextRange)
        /\ ~finalPending /\ ~flushAdmitted /\ admitted \in Window
    BY <1>0, <1>1 DEF ContextInv, DispatchType, Admission, RingInv, RingType, Window
  <1>3. PICK c \in ContextRange : c = Piece
    BY <1>0, <1>1, PieceFacts DEF ContextInv
  <1>4. /\ ctxs' = Append(ctxs, c)
        /\ cutAt' = IF c.last THEN 0 ELSE c.hi
        /\ admitted' = IF c.last THEN c.seq + 1 ELSE admitted
        /\ finalPending' = (c.last /\ SlotAt(admitted).type = "FINAL")
    BY <1>2, <1>3 DEF Admit, CutAfter
  <1>5. /\ c.first = admitted /\ c.lo = cutAt /\ ~c.flush
        /\ admitted <= c.seq /\ c.seq < submitted
        /\ ~c.last => /\ c.seq = admitted /\ c.hi # 0 /\ c.hi < SlotAt(admitted).len
                      /\ RecordBytes # 0 /\ SlotAt(admitted).type # "NONE"
        /\ c.closes <=> c.last /\ SlotAt(admitted).type # "FINAL"
        /\ ~c.closes => c.seq = admitted
        /\ c.inPlace => c.seq = admitted
        /\ c.closes => \A n \in c.first..c.seq : SlotAt(n).type # "FINAL"
    BY <1>0, <1>1, <1>3, PieceFacts DEF ContextInv
  <1>6. c.seq \in Nat /\ c.hi \in Nat /\ c.last \in BOOLEAN /\ c.closes \in BOOLEAN
    BY DEF ContextRange
  <1>7. /\ SlotAt(admitted).id = admitted
        /\ SlotAt(admitted).type = "FINAL" =>
             admitted = submitted - 1 /\ lc.finish /\ pc["user"] # "publish"
    BY <1>2 DEF RingInv, WindowHeld
  <1> DEFINE next == admitted'
             cut == cutAt'
  <1>8. /\ next = IF c.last THEN c.seq + 1 ELSE admitted
        /\ cut = IF c.last THEN 0 ELSE c.hi
    BY <1>4
  <1>9. \A n : SlotAt(n)' = SlotAt(n)
    BY <1>0 DEF SlotAt
  <1> HIDE DEF next, cut
  <1>10. /\ next \in Nat /\ cut \in Nat /\ admitted <= next /\ next <= submitted
         /\ c.last => admitted < next /\ c.seq = next - 1
         /\ ~c.last => next = admitted /\ cut # 0 /\ cut = c.hi
    BY <1>2, <1>5, <1>6, <1>8
  <1>11. Admission'
    <2>1. completed <= next /\ next <= submitted
      BY <1>2, <1>10
    <2>2. ASSUME cut # 0
          PROVE  /\ next = admitted /\ next < submitted /\ cut < SlotAt(admitted).len
                 /\ RecordBytes # 0 /\ SlotAt(admitted).type # "NONE"
      BY <1>0, <1>5, <1>8, <2>2
    <2>3. ASSUME c.last, SlotAt(admitted).type = "FINAL"
          PROVE  next = submitted /\ cut = 0 /\ lc.finish /\ pc["user"] # "publish"
      <3>1. c.seq = admitted
        BY <1>5, <2>3
      <3> QED
        BY <1>2, <1>7, <1>8, <2>3, <3>1
    <2> QED
      BY <1>0, <1>2, <1>4, <2>1, <2>2, <2>3 DEF Admission, SlotAt, next, cut
  <1>12. ContextsLined'
    <2>1. ASSUME NEW e \in ContextRange, Covers(e), ClosesWhat(e)
          PROVE  (Covers(e) /\ ClosesWhat(e))' /\ Precedes(e, c) /\ ~e.flush
      <3>0. /\ e.seq \in Nat /\ e.first \in Nat /\ e.last \in BOOLEAN /\ e.closes \in BOOLEAN
        BY DEF ContextRange
      <3>1. ~e.flush /\ (e.last => e.closes) /\ (e.closes => e.last)
        BY <1>2, <2>1, <3>0 DEF ClosesWhat, Covers
      <3>2. (e.last => e.seq < admitted) /\ e.seq <= admitted
        BY <1>2, <2>1, <3>0 DEF Covers
      <3>3. Precedes(e, c)
        BY <1>5, <3>1, <3>2 DEF Precedes
      <3>4. e.seq < next \/ (e.seq = next /\ ~e.last /\ cut # 0)
        <4>1. CASE c.last
          BY <1>2, <1>10, <3>0, <3>2, <4>1
        <4>2. CASE ~c.last
          BY <1>2, <1>10, <3>0, <3>2, <4>2, <2>1 DEF Covers
        <4> QED
          BY <4>1, <4>2
      <3>5. Covers(e)'
        BY <1>0, <2>1, <3>4 DEF Covers, next, cut
      <3>6. ASSUME e.closes, c.last, SlotAt(admitted).type = "FINAL" PROVE e.seq < next - 1
        <4>1. e.seq < admitted /\ c.seq = admitted /\ c.seq = next - 1
          BY <3>1, <3>2, <3>6, <1>5, <1>10
        <4> QED
          BY <4>1
      <3>7. ClosesWhat(e)'
        BY <1>4, <1>9, <2>1, <3>1, <3>6 DEF ClosesWhat, next
      <3> QED
        BY <3>1, <3>3, <3>5, <3>7
    <2>2. Covers(c)'
      BY <1>0, <1>2, <1>5, <1>6, <1>10 DEF Covers, next, cut
    <2>3. ClosesWhat(c)'
      <3>1. c.closes => ~finalPending'
        BY <1>4, <1>5
      <3>2. c.last /\ ~c.closes => finalPending' /\ c.seq = next - 1
        BY <1>4, <1>5, <1>10
      <3> QED
        BY <1>5, <1>9, <3>1, <3>2 DEF ClosesWhat, next
    <2>4. ~flushAdmitted'
      BY <1>0, <1>2
    <2> QED
      BY <1>1, <1>4, <2>1, <2>2, <2>3, <2>4, AppendLined DEF ContextInv
  <1>13. InOrder'
    <2>1. ctxs # <<>> => Follows(ctxs[Len(ctxs)], c)
      BY <1>1, <1>5 DEF ContextInv, InOrder, Tiled, Follows
    <2>2. ctxs = <<>> => c.first = completed
      <3>1. completed + 0 = completed
        BY <1>2
      <3> QED
        BY <1>1, <1>2, <1>5, <3>1 DEF ContextInv, InOrder, Tiled
    <2>3. IF c.last THEN admitted' = c.seq + 1 /\ cutAt' = 0
                    ELSE admitted' = c.first /\ cutAt' = c.hi
      BY <1>4, <1>5
    <2> QED
      BY <1>0, <1>1, <1>4, <2>1, <2>2, <2>3, AppendOrdered DEF ContextInv
  <1>14. /\ ctxs' \in Seq(ContextRange) /\ Len(ctxs') = Len(ctxs) + 1
         /\ DOMAIN ctxs' = 1..(Len(ctxs) + 1) /\ DOMAIN ctxs = 1..Len(ctxs)
         /\ Len(ctxs) \in Nat /\ ctxs'[Len(ctxs) + 1] = c
         /\ \A i \in 1..Len(ctxs) : ctxs'[i] = ctxs[i]
    BY <1>2, <1>4, AppendFacts
  <1>15. DispatchType'
    <2>1. finalPending' \in BOOLEAN
      BY <1>4
    <2>2. Len(ctxs') <= Contexts
      BY <1>0, <1>14, StreamAssumption
    <2>3. admitted' \in Nat /\ cutAt' \in Nat
      BY <1>10 DEF next, cut
    <2> QED
      BY <1>0, <1>14, <2>1, <2>2, <2>3 DEF ContextInv, DispatchType
  <1>16. InPlaceHeld'
    <2> SUFFICES ASSUME NEW i \in 1..(Len(ctxs) + 1), ctxs'[i].inPlace, ~ctxs'[i].flush
                 PROVE  slots[ctxs'[i].seq % Capacity].id = ctxs'[i].seq
      BY <1>0, <1>14 DEF InPlaceHeld, SlotAt
    <2>1. CASE i \in 1..Len(ctxs)
      BY <1>14, <2>1 DEF ContextInv, InPlaceHeld, SlotAt
    <2>2. CASE i = Len(ctxs) + 1
      BY <1>5, <1>7, <1>14, <2>2 DEF SlotAt
    <2> QED
      BY <1>14, <2>1, <2>2
  <1> QED
    BY <1>0, <1>1, <1>11, <1>12, <1>13, <1>15, <1>16 DEF ContextInv, Sealed, LoopIsEmpty

-----------------------------------------------------------------------------
(* Retirement drops the oldest context.                                    *)

\* Retiring moves completed up to the next context, or to what admission has
\* reached; a piece and the end of FINAL leave it where it is.
LEMMA RetireCounts ==
    ASSUME ControlInv, RingInv, ContextInv, Retire
    PROVE  /\ Tiled /\ Tiled' /\ ctxs # <<>> /\ ctxs' = Tail(ctxs)
           /\ pc'["user"] = pc["user"] /\ pc'["coord"] \in {"retire", "retireNotify"}
           /\ UNCHANGED <<slots, submitted, lc, frame, admitted, cutAt, finalPending,
                          flushAdmitted>>
           /\ progressed' = TRUE
           /\ completed' = IF ctxs[1].closes THEN ctxs[1].seq + 1 ELSE completed
           /\ completed' \in Nat /\ completed <= completed' /\ completed' <= submitted
           /\ completed' <= admitted
           /\ ctxs[1] \in ContextRange /\ Covers(ctxs[1]) /\ ClosesWhat(ctxs[1])
           /\ ctxs[1].first = completed
  <1>0. /\ pc["coord"] = "retire" /\ ctxs # <<>> /\ ctxs' = Tail(ctxs)
        /\ pc'["user"] = pc["user"] /\ pc'["coord"] \in {"retire", "retireNotify"}
        /\ UNCHANGED <<slots, submitted, lc, frame, admitted, cutAt, finalPending,
                       flushAdmitted>>
        /\ progressed' = TRUE
        /\ completed' = IF Head(ctxs).closes THEN Head(ctxs).seq + 1 ELSE completed
    BY DEF Retire, At, Goto, PrefixDone, ControlInv, ControlType, Threads, Callers, admission
  <1>1. frame = "dispatch" /\ Tiled /\ Tiled'
    BY <1>0 DEF ControlInv, CoordAt, Frames, WaitSteps, Leaving, Tiled
  <1>2. Head(ctxs) = ctxs[1] /\ 1 \in DOMAIN ctxs /\ ctxs[1] \in ContextRange
    BY <1>0, TailFacts DEF ContextInv, DispatchType
  <1>3. Covers(ctxs[1]) /\ ClosesWhat(ctxs[1]) /\ ctxs[1].first = completed
    BY <1>0, <1>1, <1>2 DEF ContextInv, ContextsLined, InOrder, Tiled
  <1> DEFINE c == ctxs[1]
             later == completed'
  <1>4. later = IF c.closes THEN c.seq + 1 ELSE completed
    BY <1>0, <1>2
  <1>5. /\ completed \in Nat /\ admitted \in Nat /\ submitted \in Nat /\ c.seq \in Nat
        /\ completed <= c.seq /\ c.seq < submitted /\ completed <= admitted
        /\ completed <= submitted
        /\ c.closes => c.seq < admitted
    BY <1>1, <1>2, <1>3 DEF RingInv, RingType, RingBound, ContextInv, DispatchType, Admission,
                            Covers, ContextRange
  <1> HIDE DEF c, later
  <1>6. later \in Nat /\ completed <= later /\ later <= submitted /\ later <= admitted
    BY <1>4, <1>5
  <1> QED
    BY <1>0, <1>1, <1>2, <1>3, <1>4, <1>6 DEF c, later

\* Retiring the oldest context keeps the others in line and in order.
LEMMA RetireContexts ==
    ASSUME ControlInv, RingInv, ContextInv, Retire
    PROVE  ContextInv'
  <1> DEFINE c == ctxs[1]
             n == Len(ctxs)
             later == completed'
  <1>0. /\ Tiled /\ Tiled' /\ ctxs # <<>> /\ ctxs' = Tail(ctxs)
        /\ pc'["user"] = pc["user"] /\ pc'["coord"] \in {"retire", "retireNotify"}
        /\ UNCHANGED <<slots, submitted, lc, frame, admitted, cutAt, finalPending,
                       flushAdmitted>>
        /\ progressed' = TRUE
        /\ later = IF c.closes THEN c.seq + 1 ELSE completed
        /\ later \in Nat /\ completed <= later /\ later <= submitted
        /\ later <= admitted
        /\ c \in ContextRange /\ Covers(c) /\ ClosesWhat(c)
        /\ c.first = completed
    BY RetireCounts
  <1>1. /\ ctxs' \in Seq(ContextRange) /\ Len(ctxs') = n - 1
        /\ DOMAIN ctxs' = 1..(n - 1) /\ DOMAIN ctxs = 1..n /\ n \in Nat \ {0}
        /\ \A i \in 1..(n - 1) : ctxs'[i] = ctxs[i + 1]
        /\ ctxs \in Seq(ContextRange) /\ n <= Contexts
    BY <1>0, TailFacts DEF ContextInv, DispatchType
  <1>2. ASSUME NEW i \in 1..n
        PROVE  ctxs[i] \in ContextRange /\ Covers(ctxs[i]) /\ ClosesWhat(ctxs[i])
    BY <1>0, <1>1 DEF ContextInv, ContextsLined
  <1>3. ASSUME NEW i \in 1..n, NEW j \in 1..n, i < j
        PROVE  Precedes(ctxs[i], ctxs[j]) /\ ~ctxs[i].flush
    BY <1>0, <1>1, <1>3 DEF ContextInv, ContextsLined
  <1>4. ASSUME NEW i \in 1..(n - 1) PROVE Follows(ctxs[i], ctxs[i + 1])
    BY <1>0 DEF ContextInv, InOrder, Tiled
  <1>5. IF ctxs[n].last THEN admitted = ctxs[n].seq + 1 /\ cutAt = 0
                        ELSE admitted = ctxs[n].first /\ cutAt = ctxs[n].hi
    BY <1>0 DEF ContextInv, InOrder, Tiled
  <1>6. flushAdmitted => ctxs[n].flush
    BY <1>0 DEF ContextInv, ContextsLined
  <1>7. /\ completed \in Nat /\ admitted \in Nat /\ submitted \in Nat /\ cutAt \in Nat
        /\ finalPending => cutAt = 0
        /\ c.seq \in Nat /\ c.first \in Nat
    BY <1>0 DEF RingInv, RingType, ContextInv, DispatchType, Admission, ContextRange
  <1>8. \A k : SlotAt(k)' = SlotAt(k)
    BY <1>0 DEF SlotAt
  <1>9. DispatchType'
    <2>1. Len(ctxs') <= Contexts
      BY <1>1, StreamAssumption
    <2> QED
      BY <1>0, <1>1, <2>1 DEF ContextInv, DispatchType
  <1> HIDE DEF n, c, later
  <1>10. Admission'
    BY <1>0 DEF ContextInv, Admission, SlotAt, later
  <1>11. ASSUME NEW i \in 1..(n - 1)
         PROVE  i + 1 \in 1..n /\ 1 \in 1..n /\ 1 < i + 1 /\ i \in 1..n
    BY <1>1
  <1>12. ContextsLined'
    <2>1. ASSUME NEW i \in 1..(n - 1) PROVE (Covers(ctxs[i]) /\ ClosesWhat(ctxs[i]))'
      <3>1. PICK d \in ContextRange : d = ctxs[i + 1] /\ d = ctxs'[i] /\ Covers(d) /\ ClosesWhat(d)
        BY <1>1, <1>2, <1>11
      <3>2. Precedes(c, d)
        BY <1>3, <1>11, <3>1 DEF c
      <3>3. later <= d.first
        <4>1. d.first \in Nat /\ completed <= d.first
          BY <3>1 DEF Covers, ContextRange
        <4> QED
          BY <1>0, <1>7, <3>2, <4>1 DEF Precedes
      <3>4. Covers(d)'
        BY <1>0, <3>1, <3>3 DEF Covers, later
      <3>5. ClosesWhat(d)'
        BY <1>0, <1>8, <3>1 DEF ClosesWhat
      <3> QED
        BY <3>1, <3>4, <3>5 DEF Covers, ClosesWhat
    <2>2. ASSUME NEW i \in 1..(n - 1), NEW j \in 1..(n - 1), i < j
          PROVE  Precedes(ctxs'[i], ctxs'[j]) /\ ~ctxs'[i].flush
      <3>1. i + 1 < j + 1
        BY <2>2
      <3> QED
        BY <1>1, <1>3, <1>11, <3>1
    <2>3. ASSUME flushAdmitted', ctxs' # <<>> PROVE ctxs'[Len(ctxs')].flush
      <3>1. n - 1 \in 1..(n - 1)
        BY <1>1, <2>3, EmptySeq
      <3>2. ctxs'[n - 1] = ctxs[n]
        BY <1>1, <3>1
      <3> QED
        BY <1>0, <1>1, <1>6, <2>3, <3>2
    <2> QED
      BY <1>1, <2>1, <2>2, <2>3 DEF ContextsLined, Precedes
  <1>13. InOrder'
    <2>1. ASSUME NEW i \in 1..((n - 1) - 1) PROVE Follows(ctxs'[i], ctxs'[i + 1])
      <3>1. i \in 1..(n - 1) /\ i + 1 \in 1..(n - 1)
        BY <1>1
      <3> QED
        BY <1>1, <1>4, <3>1
    <2>2. CASE n = 1
      <3>1. ctxs' = <<>>
        BY <1>1, <2>2, EmptySeq
      <3>2. ASSUME c.closes
            PROVE  admitted = later /\ ~(finalPending /\ ~flushAdmitted)
        <4>1. c.last
          BY <1>0, <3>2 DEF Covers
        <4>2. admitted = c.seq + 1
          BY <1>5, <2>2, <4>1 DEF c
        <4>3. ~(finalPending /\ ~flushAdmitted)
          BY <1>0, <1>7, <3>2, <4>2 DEF ClosesWhat
        <4> QED
          BY <1>0, <3>2, <4>2, <4>3
      <3>3. ASSUME ~c.closes, c.last
            PROVE  admitted = later + 1 /\ finalPending /\ ~flushAdmitted
        <4>1. ~c.flush /\ finalPending /\ c.seq = admitted - 1
          BY <1>0, <3>3 DEF ClosesWhat
        <4>2. c.seq = completed /\ later = completed
          BY <1>0, <3>3 DEF Covers
        <4>3. ~flushAdmitted
          BY <1>6, <2>2, <4>1 DEF c
        <4> QED
          BY <1>7, <4>1, <4>2, <4>3
      <3>4. ASSUME ~c.closes, ~c.last PROVE admitted = later /\ ~finalPending
        <4>1. admitted = c.first /\ cutAt = c.hi
          BY <1>5, <2>2, <3>4 DEF c
        <4>2. c.hi # 0
          BY <1>0, <3>4 DEF Covers
        <4> QED
          BY <1>0, <1>7, <3>4, <4>1, <4>2
      <3>5. admitted = later + (IF finalPending /\ ~flushAdmitted THEN 1 ELSE 0)
        BY <1>0, <3>2, <3>3, <3>4
      <3>6. 1..(Len(ctxs') - 1) = {}
        BY <1>1, <2>2
      <3> QED
        BY <1>0, <3>1, <3>5, <3>6 DEF InOrder, later
    <2>3. CASE n # 1
      <3>1. 1 \in 1..(n - 1) /\ n - 1 \in 1..(n - 1) /\ (n - 1) + 1 = n /\ 2 \in 1..n
        BY <1>1, <2>3
      <3>2. ctxs' # <<>> /\ ctxs'[1] = ctxs[2] /\ ctxs'[n - 1] = ctxs[n]
        BY <1>1, <3>1, EmptySeq
      <3> DEFINE d == ctxs[2]
      <3>3. /\ Follows(c, d) /\ Precedes(c, d) /\ ~c.flush /\ d \in ContextRange
            /\ Covers(d)
        BY <1>2, <1>3, <1>4, <3>1 DEF c
      <3> HIDE DEF d
      <3>4. d.first \in Nat /\ d.seq \in Nat
        BY <3>3 DEF ContextRange
      <3>5. d.first = later
        <4>1. CASE ~c.last
          BY <1>0, <3>3, <4>1 DEF Follows, Covers
        <4>2. CASE c.last /\ c.closes
          BY <1>0, <1>7, <3>3, <3>4, <4>2 DEF Follows, Precedes
        <4>3. CASE c.last /\ ~c.closes
          <5>1. finalPending /\ c.seq = admitted - 1 /\ cutAt = 0
            BY <1>0, <1>7, <3>3, <4>3 DEF ClosesWhat
          <5>2. c.seq = completed /\ later = completed
            BY <1>0, <4>3 DEF Covers
          <5>3. d.flush
            BY <1>7, <3>3, <3>4, <4>3, <5>1 DEF Follows, Covers
          <5> QED
            BY <3>3, <4>3, <5>2, <5>3 DEF Follows
        <4> QED
          BY <4>1, <4>2, <4>3
      <3> QED
        BY <1>0, <1>1, <1>5, <2>1, <3>2, <3>5 DEF InOrder, Follows, d, later
    <2> QED
      BY <2>2, <2>3
  <1>14. InPlaceHeld'
    <2> SUFFICES ASSUME NEW i \in 1..(n - 1), ctxs'[i].inPlace, ~ctxs'[i].flush
                 PROVE  slots[ctxs'[i].seq % Capacity].id = ctxs'[i].seq
      BY <1>0, <1>1 DEF InPlaceHeld, SlotAt
    <2> QED
      BY <1>1, <1>11 DEF ContextInv, InPlaceHeld, SlotAt
  <1>15. Sealed' /\ LoopIsEmpty'
    BY <1>0 DEF Sealed, LoopIsEmpty, Tiled
  <1> QED
    BY <1>9, <1>10, <1>12, <1>13, <1>14, <1>15 DEF ContextInv

-----------------------------------------------------------------------------
(* Counting the contexts that execute.                                     *)

\* Some of a sequence of contexts are finitely many, at most its length.
LEMMA SomeAreFinite ==
    ASSUME NEW s \in Seq(ContextRange), NEW E \in SUBSET DOMAIN s
    PROVE  /\ IsFiniteSet(E) /\ Cardinality(E) \in Nat /\ Cardinality(E) <= Len(s)
           /\ DOMAIN s = 1..Len(s) /\ Len(s) \in Nat
  <1> DEFINE n == Len(s)
  <1>1. DOMAIN s = 1..n /\ n \in Nat
    BY LenProperties
  <1> HIDE DEF n
  <1>2. /\ IsFiniteSet(1..n)
        /\ Cardinality(1..n) = IF 1 > n THEN 0 ELSE n - 1 + 1
    BY <1>1, FS_Interval
  <1>3. IsFiniteSet(1..n) /\ Cardinality(1..n) = n
    BY <1>1, <1>2
  <1>4. IsFiniteSet(E) /\ Cardinality(E) <= n
    BY <1>1, <1>3, FS_Subset
  <1>5. Cardinality(E) \in Nat
    BY <1>4, FS_CardinalityType
  <1> QED
    BY <1>1, <1>4, <1>5 DEF n

\* There are at most as many as there are contexts.
LEMMA ExecutingFinite ==
    ASSUME DispatchType
    PROVE  /\ IsFiniteSet(Executing) /\ Cardinality(Executing) \in Nat
           /\ Cardinality(Executing) <= Contexts
           /\ DOMAIN ctxs = 1..Len(ctxs) /\ Len(ctxs) \in Nat
  <1>1. ctxs \in Seq(ContextRange) /\ Executing \in SUBSET DOMAIN ctxs /\ Len(ctxs) <= Contexts
    BY DEF DispatchType, Executing
  <1>2. /\ IsFiniteSet(Executing) /\ Cardinality(Executing) \in Nat
        /\ Cardinality(Executing) <= Len(ctxs)
        /\ DOMAIN ctxs = 1..Len(ctxs) /\ Len(ctxs) \in Nat
    BY <1>1, SomeAreFinite
  <1> QED
    BY <1>1, <1>2, StreamAssumption

\* A claim adds one, ...
LEMMA ClaimCounts ==
    ASSUME DispatchType, NEW i \in DOMAIN ctxs, ctxs[i].exec # "running",
           SetExec(i, "running")
    PROVE  Cardinality(Executing') = Cardinality(Executing) + 1
  <1>1. /\ DOMAIN ctxs' = DOMAIN ctxs /\ ctxs'[i].exec = "running"
        /\ \A j \in DOMAIN ctxs : j # i => ctxs'[j] = ctxs[j]
    BY SetExecFacts
  <1>2. Executing' = Executing \cup {i} /\ i \notin Executing
    BY <1>1 DEF Executing
  <1> QED
    BY <1>2, ExecutingFinite, FS_AddElement

\* ... a worker that finishes or fails takes one away, ...
LEMMA LeaveCounts ==
    ASSUME DispatchType, NEW i \in DOMAIN ctxs, ctxs[i].exec = "running",
           NEW v \in {"done", "dropped"}, SetExec(i, v)
    PROVE  /\ Cardinality(Executing') = Cardinality(Executing) - 1
           /\ Cardinality(Executing) # 0
  <1>1. /\ DOMAIN ctxs' = DOMAIN ctxs /\ ctxs'[i].exec = v
        /\ \A j \in DOMAIN ctxs : j # i => ctxs'[j] = ctxs[j]
    BY SetExecFacts
  <1>2. Executing' = Executing \ {i} /\ i \in Executing
    BY <1>1 DEF Executing
  <1>3. Cardinality(Executing) # 0
    BY <1>2, ExecutingFinite, FS_EmptySet
  <1> QED
    BY <1>2, <1>3, ExecutingFinite, FS_RemoveElement

\* ... a context admitted does not execute yet, ...
LEMMA AppendCounts ==
    ASSUME DispatchType, NEW c \in ContextRange, c.exec = "ready",
           ctxs' = Append(ctxs, c)
    PROVE  Executing' = Executing
  <1>1. /\ DOMAIN ctxs' = 1..(Len(ctxs) + 1) /\ DOMAIN ctxs = 1..Len(ctxs)
        /\ Len(ctxs) \in Nat /\ ctxs'[Len(ctxs) + 1] = c
        /\ \A i \in 1..Len(ctxs) : ctxs'[i] = ctxs[i]
    BY AppendFacts DEF DispatchType
  <1>2. DOMAIN ctxs' = DOMAIN ctxs \cup {Len(ctxs) + 1}
    BY <1>1
  <1> QED
    BY <1>1, <1>2 DEF Executing

\* ... and one retired no longer does.
LEMMA RetireKeepsCount ==
    ASSUME DispatchType, ctxs # <<>>, ctxs[1].exec = "done", ctxs' = Tail(ctxs)
    PROVE  Cardinality(Executing') = Cardinality(Executing)
  <1> DEFINE n == Len(ctxs)
             f == [i \in Executing |-> i - 1]
  <1>1. /\ DOMAIN ctxs' = 1..(n - 1) /\ DOMAIN ctxs = 1..n /\ n \in Nat \ {0}
        /\ \A i \in 1..(n - 1) : ctxs'[i] = ctxs[i + 1]
    BY TailFacts DEF DispatchType
  <1> HIDE DEF n
  <1>2. ASSUME NEW i \in Executing PROVE i - 1 \in Executing' /\ i \in Nat
    <2>1. i \in 1..n /\ ctxs[i].exec = "running" /\ i # 1
      BY <1>1 DEF Executing
    <2>2. i - 1 \in 1..(n - 1) /\ (i - 1) + 1 = i
      BY <1>1, <2>1
    <2> QED
      BY <1>1, <2>1, <2>2 DEF Executing
  <1>3. ASSUME NEW j \in Executing' PROVE j + 1 \in Executing /\ (j + 1) - 1 = j
    <2>1. j \in 1..(n - 1) /\ ctxs'[j].exec = "running"
      BY <1>1 DEF Executing
    <2>2. j + 1 \in 1..n /\ (j + 1) - 1 = j
      BY <1>1, <2>1
    <2> QED
      BY <1>1, <2>1, <2>2 DEF Executing
  <1>4. f \in [Executing -> Executing']
    BY <1>2
  <1>5. \A i, j \in Executing : f[i] = f[j] => i = j
    BY <1>2
  <1>6. \A j \in Executing' : \E i \in Executing : f[i] = j
    BY <1>3
  <1>7. f \in Bijection(Executing, Executing')
    BY <1>4, <1>5, <1>6 DEF Bijection, Injection, Surjection, IsInjective
  <1>8. ExistsBijection(Executing, Executing')
    BY <1>7 DEF ExistsBijection
  <1> QED
    BY <1>8, ExecutingFinite, FS_Bijection

-----------------------------------------------------------------------------
(* Steps that leave the scheduler alone.                                   *)

\* The contexts and the scheduler's counters stay, a cancel is not taken back
\* while a session runs, and the coordinator does not start to fail.
WorkerFrame ==
    /\ UNCHANGED <<ctxs, sched>>
    /\ frame' = "dispatch" => frame = "dispatch"
    /\ frame = "dispatch" /\ lc.cancel => lc'.cancel
    /\ pc'["coord"] \in Failing \union {"discard"} =>
         pc["coord"] \in Failing \union {"discard"}

\* Such a step keeps what is known of the workers.
LEMMA WorkerFramed ==
    ASSUME WorkerInv, WorkerFrame
    PROVE  WorkerInv'
  <1>1. Executing' = Executing
    BY DEF WorkerFrame, Executing
  <1> QED
    BY <1>1 DEF WorkerInv, WorkerFrame, SchedType, sched

\* Steps of the helpers and of the calls both callers make leave the scheduler
\* alone.
LEMMA CallerWorkers ==
    ASSUME ControlInv, GraphType, TokenHeld, submitted \in Nat, NEW t \in Callers,
           CallerNext(t)
    PROVE  WorkerFrame
  <1> USE StreamAssumption DEF ControlInv, ControlType, CallerAt, InHelper,
      InBody, ReadSteps, EnqueueSteps, ClearSteps, ResetSteps, DestroySteps,
      CoordAt, GuardHeld, Guarded, WaitSteps, Leaving, Failing, Frames, Threads,
      Callers, GraphType, InSession, TokenHeld, WorkerFrame, At, Goto, Call,
      Back, Return, Sleep, Notify, BumpEpoch, vars, world, store, ring, graph,
      results, engine, dispatch, admission, sched, locals, call, parking,
      producers, epochs
  <1>1. CASE ProducerAdvertise(t)
    BY <1>1 DEF ProducerAdvertise
  <1>2. CASE ProducerCheck(t)
    BY <1>2 DEF ProducerCheck
  <1>3. CASE ChangeSpin(t)
    BY <1>3 DEF ChangeSpin
  <1>4. CASE ChangeAdvertise(t)
    BY <1>4 DEF ChangeAdvertise
  <1>5. CASE ChangeCheck(t)
    BY <1>5 DEF ChangeCheck
  <1>6. CASE Inactive(t)
    BY <1>6 DEF Inactive
  <1>7. CASE WakeBump(t)
    BY <1>7 DEF WakeBump
  <1>8. CASE WakeNotify(t)
    BY <1>8 DEF WakeNotify
  <1>9. CASE SyncTarget(t)
    BY <1>9 DEF SyncTarget
  <1>10. CASE SyncWait(t)
    BY <1>10 DEF SyncWait
  <1>11. CASE Reset(t)
    BY <1>11, ResetFlags DEF Reset
  <1>12. CASE Cancel(t)
    BY <1>12, CancelFlags DEF Cancel
  <1>13. CASE CancelWait(t)
    BY <1>13 DEF CancelWait
  <1>14. CASE CancelEnd(t)
    BY <1>14, CancelEndFlags DEF CancelEnd
  <1>15. CASE ResetApply(t)
    <2>1. UNCHANGED <<ring, engine, ret>> /\ pc' = [pc EXCEPT ![t] = "idle"]
      BY <1>15 DEF ResetApply
    <2> QED
      BY <1>15, <2>1, ResetApplyFlags
  <1> QED
    BY <1>1, <1>2, <1>3, <1>4, <1>5, <1>6, <1>7, <1>8, <1>9, <1>10, <1>11,
        <1>12, <1>13, <1>14, <1>15 DEF CallerNext

\* So do the calls only the user makes.
LEMMA UserWorkers ==
    ASSUME ControlInv, GraphType, TokenHeld, submitted \in Nat, UserNext
    PROVE  WorkerFrame
  <1> USE StreamAssumption DEF ControlInv, ControlType, CallerAt, InHelper,
      InBody, ReadSteps, EnqueueSteps, ClearSteps, ResetSteps, DestroySteps,
      CoordAt, GuardHeld, Guarded, WaitSteps, Leaving, Failing, Frames, Threads,
      Callers, GraphType, InSession, TokenHeld, WorkerFrame, At, Goto, Call,
      Back, Return, Sleep, Notify, BumpEpoch, vars, world, store, ring, graph,
      results, engine, dispatch, admission, sched, locals, call, parking,
      producers, epochs
  <1>1. CASE Enqueue
    BY <1>1, EnqueueFlags DEF Enqueue
  <1>2. CASE BeginAccepting
    BY <1>2, BeginAcceptingFlags DEF BeginAccepting
  <1>3. CASE TryGuard
    BY <1>3 DEF TryGuard
  <1>4. CASE TryCheck
    BY <1>4 DEF TryCheck
  <1>5. CASE TryWrite
    BY <1>5, TryWriteFlags DEF TryWrite
  <1>6. CASE TryPublish
    BY <1>6 DEF TryPublish
  <1>7. CASE ReleaseProducer
    BY <1>7 DEF ReleaseProducer
  <1>8. CASE ReleaseNotify
    BY <1>8 DEF ReleaseNotify
  <1>9. CASE RecordExchange
    BY <1>9 DEF RecordExchange, Published
  <1>10. CASE RecordNotify
    BY <1>10 DEF RecordNotify, Published
  <1>11. CASE WaitForSlot
    BY <1>11 DEF WaitForSlot
  <1>12. CASE FinishStart
    BY <1>12 DEF FinishStart
  <1>13. CASE FinishWait
    BY <1>13 DEF FinishWait
  <1>14. CASE FinishCheck
    BY <1>14 DEF FinishCheck
  <1>15. CASE FinishEnd
    BY <1>15 DEF FinishEnd
  <1>16. CASE Clear
    BY <1>16, ClearFlags DEF Clear
  <1>17. CASE Drain
    BY <1>17, DrainFlags DEF Drain
  <1>18. CASE DrainWait
    BY <1>18 DEF DrainWait
  <1>19. CASE DrainEnd
    BY <1>19 DEF DrainEnd
  <1>20. CASE ClearApply
    BY <1>20 DEF ClearApply
  <1>21. CASE Shutdown
    BY <1>21, ShutdownFlags DEF Shutdown
  <1>22. CASE Join
    BY <1>22 DEF Join
  <1> QED
    BY <1>1, <1>2, <1>3, <1>4, <1>5, <1>6, <1>7, <1>8, <1>9, <1>10, <1>11,
        <1>12, <1>13, <1>14, <1>15, <1>16, <1>17, <1>18, <1>19, <1>20, <1>21,
        <1>22 DEF UserNext

\* Making a call leaves the scheduler alone.
LEMMA StartWorkers ==
    ASSUME ControlInv, GraphType, TokenHeld, submitted \in Nat, StartNext
    PROVE  WorkerFrame
  <1> USE StreamAssumption DEF ControlInv, ControlType, CallerAt, InHelper,
      InBody, ReadSteps, EnqueueSteps, ClearSteps, ResetSteps, DestroySteps,
      CoordAt, GuardHeld, Guarded, WaitSteps, Leaving, Failing, Frames, Threads,
      Callers, GraphType, InSession, TokenHeld, WorkerFrame, At, Goto, Call,
      Back, Return, Sleep, Notify, BumpEpoch, vars, world, store, ring, graph,
      results, engine, dispatch, admission, sched, locals, call, parking,
      producers, epochs
  <1>1. CASE \E r \in Records : EnqueueStart(r)
    BY <1>1 DEF EnqueueStart, Start, MayStart
  <1>2. CASE ClearStart
    BY <1>2 DEF ClearStart, Start, MayStart
  <1>3. CASE DestroyStart
    BY <1>3, DestroyStartFlags DEF DestroyStart, MayStart
  <1>4. CASE \E t \in Callers : ReadStart(t)
    BY <1>4 DEF ReadStart, MayStart
  <1>5. CASE \E t \in Callers : ResetStart(t)
    BY <1>5 DEF ResetStart, Start, MayStart
  <1> QED
    BY <1>1, <1>2, <1>3, <1>4, <1>5 DEF StartNext

\* Steps of the coordinator that neither stop the workers nor change the
\* contexts.
LEMMA CoordWorkers ==
    ASSUME ControlInv, GraphType, TokenHeld, submitted \in Nat, CoordNext,
           ~(LoopCheck \/ Step \/ Retire \/ Admit \/ FlushAdmit \/ Discard)
    PROVE  WorkerFrame
  <1> USE StreamAssumption DEF ControlInv, ControlType, CallerAt, InHelper,
      InBody, ReadSteps, EnqueueSteps, ClearSteps, ResetSteps, DestroySteps,
      CoordAt, GuardHeld, Guarded, WaitSteps, Leaving, Failing, Frames, Threads,
      Callers, GraphType, InSession, TokenHeld, WorkerFrame, At, Goto, Call,
      Back, Return, Sleep, Notify, BumpEpoch, vars, world, store, ring, graph,
      results, engine, dispatch, admission, sched, locals, call, parking,
      producers, epochs
  <1>1. CASE ProducerAdvertise("coord")
    BY <1>1 DEF ProducerAdvertise
  <1>2. CASE ProducerCheck("coord")
    BY <1>2 DEF ProducerCheck
  <1>3. CASE SpinWake
    BY <1>3 DEF SpinWake, Resume
  <1>4. CASE Advertise
    BY <1>4 DEF Advertise
  <1>5. CASE CheckReady
    BY <1>5 DEF CheckReady
  <1>6. CASE Park
    BY <1>6 DEF Park
  <1>7. CASE Withdraw
    BY <1>7 DEF Withdraw
  <1>8. CASE Observe
    BY <1>8 DEF Observe, Resume
  <1>9. CASE SessionOver
    BY <1>9 DEF SessionOver
  <1>10. CASE Ending
    BY <1>10 DEF Ending
  <1>11. CASE Cancelled
    BY <1>11, CancelledFlags DEF Cancelled
  <1>12. CASE CompletionNotify("cancelNotify", "deactivate")
    BY <1>12 DEF CompletionNotify, Notify
  <1>13. CASE Deactivate
    BY <1>13, DeactivateFlags DEF Deactivate
  <1>14. CASE Inactivate
    BY <1>14, InactivateFlags DEF Inactivate
  <1>15. CASE CompletionNotify("retireNotify", "retire")
    BY <1>15 DEF CompletionNotify, Notify
  <1>16. CASE RetireDone
    BY <1>16 DEF RetireDone
  <1>17. CASE AdmitDone
    BY <1>17 DEF AdmitDone
  <1>18. CASE EndSession
    BY <1>18 DEF EndSession
  <1>19. CASE StepAgain
    BY <1>19 DEF StepAgain
  <1>20. CASE Fail
    BY <1>20, FailFlags DEF Fail
  <1>21. CASE FailClose
    BY <1>21, FailCloseFlags DEF FailClose
  <1>22. CASE FailCover
    BY <1>22 DEF FailCover
  <1>23. CASE CompletionNotify("failNotify", "discard")
    BY <1>23 DEF CompletionNotify, Notify
  <1> QED
    BY <1>1, <1>2, <1>3, <1>4, <1>5, <1>6, <1>7, <1>8, <1>9, <1>10, <1>11,
        <1>12, <1>13, <1>14, <1>15, <1>16, <1>17, <1>18, <1>19, <1>20, <1>21,
        <1>22, <1>23 DEF CoordNext

-----------------------------------------------------------------------------
(* Steps of the scheduler.                                                 *)

\* A session starts with no worker executing, and not stopped.
LEMMA LoopCheckWorkers ==
    ASSUME ControlInv, ContextInv, WorkerInv, LoopCheck
    PROVE  WorkerInv'
  <1>0. /\ ctxs' = ctxs /\ UNCHANGED <<running, strays, workerWaking>>
        /\ pc'["coord"] \notin Failing \union {"discard"}
        /\ pc["coord"] = "check"
    BY DEF LoopCheck, At, Goto, ControlInv, ControlType, Threads, Failing
  <1>1. frame = "loop"
    BY <1>0 DEF ControlInv, CoordAt, Frames, WaitSteps, Failing
  <1>2. Executing = {} /\ Executing' = {}
    BY <1>0, <1>1 DEF Executing, ContextInv, LoopIsEmpty
  <1>3. Cardinality(Executing') = 0
    BY <1>2, FS_EmptySet
  <1>4. stop' \in BOOLEAN /\ stopError' \in BOOLEAN /\ (frame' = "dispatch" => stop' = FALSE)
    BY <1>1 DEF LoopCheck, WorkerInv, SchedType
  <1>5. idleFailed' \in 0..IdleFailures
    BY StreamAssumption DEF LoopCheck, WorkerInv, SchedType
  <1>6. running' = 0
    BY <1>0, <1>2, FS_EmptySet DEF WorkerInv, SchedType
  <1>7. PICK f \in 0..IdleFailures : idleFailed' = f
    BY <1>5
  <1>8. 0 \in 0..Contexts /\ 0 <= 0 /\ 0 <= 0 + f
    BY StreamAssumption
  <1>9. SchedType'
    BY <1>0, <1>4, <1>5, <1>6, <1>8 DEF WorkerInv, SchedType
  <1> QED
    BY <1>0, <1>3, <1>4, <1>6, <1>7, <1>8, <1>9 DEF WorkerInv

\* A stopped session is left only when no worker is counted, and only a cancel
\* stops one that did not fail.
LEMMA StepWorkers ==
    ASSUME ControlInv, WorkerInv, Step
    PROVE  WorkerInv'
  <1>0. /\ UNCHANGED <<ctxs, frame, lc, stopError, running, strays, workerWaking, idleFailed>>
        /\ pc["coord"] = "step"
    BY DEF Step, At, store, graph
  <1>1. Executing' = Executing
    BY <1>0 DEF Executing
  <1>2. stop' \in BOOLEAN /\ (stop' => stop \/ lc.cancel)
    BY DEF Step, WorkerInv, SchedType
  <1>3. pc'["coord"] \in Failing \union {"discard"} => stop' /\ running = 0
    BY <1>0 DEF Step, Goto, WorkersIdle, ControlInv, ControlType, Threads, Failing
  <1> QED
    BY <1>0, <1>1, <1>2, <1>3 DEF WorkerInv, SchedType

\* Admission and retirement change no count.
LEMMA ContextWorkers ==
    ASSUME ControlInv, RingInv, ContextInv, WorkerInv, Retire \/ Admit \/ FlushAdmit
    PROVE  WorkerInv'
  <1>0. /\ pc["coord"] \in {"retire", "admit", "flush"} /\ UNCHANGED <<sched, frame, lc>>
        /\ pc'["coord"] \notin Failing \union {"discard"}
    BY DEF Retire, Admit, FlushAdmit, At, Goto, store, graph, ControlInv, ControlType, Threads,
           Failing
  <1>1. DispatchType /\ DispatchType'
    BY RetireContexts, AdmitContexts, FlushAdmitContexts DEF ContextInv
  <1>2. Cardinality(Executing') = Cardinality(Executing)
    <2>1. CASE Retire
      <3>1. Head(ctxs) = ctxs[1] /\ ctxs # <<>> /\ ctxs[1].exec = "done" /\ ctxs' = Tail(ctxs)
        BY <2>1, TailFacts, <1>1 DEF Retire, PrefixDone, DispatchType
      <3> QED
        BY <1>1, <3>1, RetireKeepsCount
    <2>2. CASE Admit
      <3>1. Tiled /\ admitted < submitted
        BY <2>2 DEF Admit, At, ControlInv, CoordAt, Frames, WaitSteps, Leaving, Tiled
      <3>2. PICK c \in ContextRange : c = Piece /\ c.exec = "ready"
        BY <3>1, PieceFacts DEF ContextInv
      <3>3. ctxs' = Append(ctxs, c)
        BY <2>2, <3>2 DEF Admit
      <3> QED
        BY <1>1, <3>2, <3>3, AppendCounts
    <2>3. CASE FlushAdmit
      <3> DEFINE c == [first |-> admitted - 1, seq |-> admitted - 1, lo |-> 0, hi |-> 0,
                       last |-> TRUE, inPlace |-> FALSE, closes |-> TRUE, flush |-> TRUE,
                       exec |-> "ready"]
      <3>1. ctxs' = Append(ctxs, c) /\ c.exec = "ready"
        BY <2>3 DEF FlushAdmit
      <3> HIDE DEF c
      <3>2. c \in ContextRange
        <4>1. /\ ctxs' \in Seq(ContextRange) /\ ctxs \in Seq(ContextRange)
              /\ Len(ctxs) \in Nat
          BY <1>1, LenProperties DEF DispatchType
        <4>2. Len(ctxs') = Len(ctxs) + 1 /\ ctxs'[Len(ctxs) + 1] = c
          BY <3>1, <4>1
        <4>3. Len(ctxs) + 1 \in 1..Len(ctxs')
          BY <4>1, <4>2
        <4> QED
          BY <4>1, <4>2, <4>3, ElementOfSeq
      <3> QED
        BY <1>1, <3>1, <3>2, AppendCounts
    <2> QED
      BY <2>1, <2>2, <2>3
  <1> QED
    BY <1>0, <1>2 DEF WorkerInv, SchedType, sched

\* A discard drops no context that a counted worker executes.
LEMMA DiscardWorkers ==
    ASSUME ControlInv, ContextInv, WorkerInv, Discard
    PROVE  WorkerInv'
  <1>0. /\ pc["coord"] = "discard" /\ frame' = "loop" /\ ctxs' = <<>>
        /\ stop' = FALSE /\ stopError' = FALSE /\ strays' = Cardinality(Executing)
        /\ UNCHANGED <<running, workerWaking, idleFailed>>
    BY DEF Discard, At, Executing
  <1>1. running = 0
    BY <1>0 DEF WorkerInv, ControlInv, CoordAt, Frames, WaitSteps, Leaving, Failing
  <1>2. Executing' = {}
    BY <1>0 DEF Executing
  <1>3. Cardinality(Executing') = 0
    BY <1>2, FS_EmptySet
  <1>4. strays' \in 0..Contexts
    BY <1>0, ExecutingFinite, StreamAssumption DEF ContextInv
  <1>5. running' = 0 /\ 0 \in 0..Contexts /\ 0 <= 0 /\ 0 <= 0 + idleFailed
    BY <1>0, <1>1, StreamAssumption DEF WorkerInv, SchedType
  <1>6. SchedType'
    BY <1>0, <1>4, <1>5 DEF WorkerInv, SchedType
  <1> QED
    BY <1>0, <1>3, <1>5, <1>6 DEF WorkerInv

\* Workers are counted in when they claim a context and out when they leave it.
LEMMA WorkerWorkers ==
    ASSUME ControlInv, ContextInv, WorkerInv, WorkerNext
    PROVE  WorkerInv'
  <1> DEFINE n == Cardinality(Executing)
  <1>0. DispatchType /\ n \in Nat /\ n <= Contexts /\ Contexts \in Nat
    BY ExecutingFinite, StreamAssumption DEF ContextInv
  <1>1. /\ running \in Nat /\ running <= n /\ n <= running + idleFailed
        /\ idleFailed \in 0..IdleFailures /\ IdleFailures \in Nat
    BY StreamAssumption DEF WorkerInv, SchedType
  <1>2. DispatchType'
    BY WorkerContexts DEF ContextInv
  <1>3. Cardinality(Executing') \in Nat /\ Cardinality(Executing') <= Contexts
    <2>1. /\ ctxs' \in Seq(ContextRange) /\ Executing' \in SUBSET DOMAIN ctxs'
          /\ Len(ctxs') <= Contexts
      BY <1>2 DEF DispatchType, Executing
    <2>2. Cardinality(Executing') \in Nat /\ Cardinality(Executing') <= Len(ctxs')
          /\ Len(ctxs') \in Nat
      BY <2>1, SomeAreFinite
    <2> QED
      BY <1>0, <2>1, <2>2
  <1> USE DEF store, graph, dispatch
  <1>4. ASSUME NEW i \in DOMAIN ctxs, WorkerClaim(i) PROVE WorkerInv'
    <2>1. /\ ~stop /\ running' = running + 1 /\ UNCHANGED <<frame, lc, pc, stop, stopError,
                                                           strays, workerWaking,
                                                           idleFailed>>
      BY <1>4 DEF WorkerClaim
    <2>2. Cardinality(Executing') = n + 1
      BY <1>0, <1>4, ClaimCounts DEF WorkerClaim
    <2> DEFINE m == Cardinality(Executing')
    <2> HIDE DEF n, m
    <2>3. /\ running + 1 \in 0..Contexts /\ running + 1 <= m
          /\ m <= running + 1 + idleFailed
      BY <1>0, <1>1, <1>3, <2>2 DEF m
    <2> QED
      BY <2>1, <2>3 DEF WorkerInv, SchedType, m
  <1>5. ASSUME NEW i \in DOMAIN ctxs, WorkerFinish(i) \/ WorkerFail(i) PROVE WorkerInv'
    <2>1. /\ running' = CountOut /\ UNCHANGED <<frame, lc, pc, strays, idleFailed>>
          /\ workerWaking' \in BOOLEAN /\ stop' \in BOOLEAN /\ stopError' \in BOOLEAN
          /\ (stop' = stop /\ stopError' = stopError) \/ (stop' = TRUE /\ stopError' = TRUE)
      BY <1>5 DEF WorkerFinish, WorkerFail, WorkerInv, SchedType
    <2>2. PICK v \in {"done", "dropped"} : SetExec(i, v) /\ ctxs[i].exec = "running"
      BY <1>5 DEF WorkerFinish, WorkerFail
    <2>3. Cardinality(Executing') = n - 1 /\ n # 0
      BY <1>0, <2>2, LeaveCounts
    <2> DEFINE m == Cardinality(Executing')
    <2> HIDE DEF n, m
    <2>4. /\ CountOut \in 0..Contexts /\ CountOut <= m
          /\ m <= CountOut + idleFailed
          /\ running = 0 => CountOut = 0
      BY <1>0, <1>1, <2>3 DEF CountOut, m
    <2> QED
      BY <2>1, <2>4 DEF WorkerInv, SchedType, m
  <1>6. CASE WorkerIdleFail
    <2>1. /\ running' = CountOut /\ stop' = TRUE /\ stopError' = TRUE
          /\ idleFailed' = idleFailed + 1 /\ idleFailed < IdleFailures
          /\ workerWaking' = TRUE /\ UNCHANGED <<frame, lc, pc, strays, ctxs>>
      BY <1>6 DEF WorkerIdleFail
    <2>2. Executing' = Executing
      BY <2>1 DEF Executing
    <2> HIDE DEF n
    <2>3. /\ CountOut \in 0..Contexts /\ CountOut <= n /\ (running = 0 => CountOut = 0)
          /\ idleFailed < IdleFailures =>
               idleFailed + 1 \in 0..IdleFailures /\ n <= CountOut + (idleFailed + 1)
      BY <1>0, <1>1 DEF CountOut
    <2> QED
      BY <2>1, <2>2, <2>3 DEF WorkerInv, SchedType, n
  <1>7. CASE WorkerNotify \/ StrayReturns
    <2>1. /\ UNCHANGED <<frame, lc, pc, ctxs, stop, stopError, running, idleFailed>>
          /\ workerWaking' \in BOOLEAN /\ strays' \in 0..Contexts
      <3>1. strays \in 0..Contexts /\ (strays # 0 => strays - 1 \in 0..Contexts)
        BY <1>0 DEF WorkerInv, SchedType
      <3>2. CASE WorkerNotify
        BY <3>1, <3>2 DEF WorkerNotify
      <3>3. CASE StrayReturns
        BY <3>1, <3>3 DEF StrayReturns, WorkerInv, SchedType
      <3> QED
        BY <1>7, <3>2, <3>3
    <2>2. Executing' = Executing
      BY <2>1 DEF Executing
    <2> QED
      BY <2>1, <2>2 DEF WorkerInv, SchedType
  <1> QED
    BY <1>4, <1>5, <1>6, <1>7 DEF WorkerNext

-----------------------------------------------------------------------------
(* The invariant is inductive.                                             *)

\* A new stream: no session, an empty ring, nobody waiting.
LEMMA InitStream == Init => StreamInv
  <1> SUFFICES ASSUME Init PROVE StreamInv
    OBVIOUS
  <1> USE StreamAssumption DEF Init
  <1>1. rec \in Records
    OBVIOUS
  <1>2. ControlInv
    <2>1. ControlType
      BY <1>1 DEF ControlType, Labels, Threads, Callers
    <2>2. ParkingType /\ frame \in Frames
      <3>1. /\ producerActive \in BOOLEAN /\ coordinatorWaiting \in BOOLEAN
            /\ moved \in [Frames -> BOOLEAN] /\ frame \in Frames
        BY DEF Frames
      <3>2. producerWaiters \in 0..3 /\ completionWaiters \in 0..2
        OBVIOUS
      <3>3. asleep \in [Threads -> {"none", "producer", "completed", "active", "epoch"}]
        OBVIOUS
      <3> QED
        BY <3>1, <3>2, <3>3 DEF ParkingType
    <2>3. \A t \in Callers : CallerAt(t)
      BY DEF Callers, CallerAt, InBody, Threads
    <2>4. CoordAt /\ GuardHeld /\ WaitersCounted /\ StatusKept
      BY DEF CoordAt, WaitSteps, GuardHeld, Guarded, WaitersCounted, One, StatusKept, Threads,
             Callers
    <2> QED
      BY <2>1, <2>2, <2>3, <2>4 DEF ControlInv
  <1>3. LifecycleInv
    <2>0. pc["user"] = "idle" /\ pc["ctl"] = "idle" /\ pc["coord"] = "wait"
          /\ op["ctl"] = "none" /\ \A t \in Callers : pc[t] = "idle" /\ ret[t] = "idle"
      BY DEF Threads, Callers
    <2>1. lc \in LifecycleFlags /\ ~lc.active /\ ~lc.finish /\ ~lc.cancel
      BY DEF LifecycleFlags
    <2>2. GraphType
      BY <2>1 DEF GraphType
    <2>3. TokenHeld /\ Contract /\ Released /\ CancelArmed
      BY <2>0, <2>1 DEF TokenHeld, InSession, Leaving, One, Contract, Released, CancelArmed
    <2>4. ~Trying /\ ~AfterFinal
      BY <2>0 DEF Trying, AfterFinal, PublishSteps, Callers
    <2>5. KeptOpen /\ Finishing /\ Accounted /\ FailedNeedsReset
      BY <2>0, <2>1, <2>4 DEF KeptOpen, Finishing, Accounted, FailedNeedsReset
    <2> QED
      BY <2>2, <2>3, <2>5 DEF LifecycleInv
  <1>4. RingInv
    <2>0. pc["user"] = "idle" /\ ret["user"] = "idle"
      BY DEF Threads, Callers
    <2>1. RingType /\ WaitType /\ RingBound
      BY DEF RingType, SlotRange, WaitType, RingBound
    <2>2. Publishing /\ FinalHeld
      BY <2>0 DEF Publishing, FinalHeld, AfterFinal, PublishSteps
    <2>3. WindowHeld
      BY DEF WindowHeld, Window
    <2> QED
      BY <2>1, <2>2, <2>3 DEF RingInv
  <1>5. ContextInv
    <2>1. <<>> \in Seq(ContextRange) /\ Len(<<>>) = 0
      BY EmptySeq
    <2>2. ctxs \in Seq(ContextRange) /\ Len(ctxs) <= Contexts
      BY <2>1
    <2>3. DispatchType
      BY <2>2 DEF DispatchType, Frames
    <2> QED
      BY <2>3 DEF ContextInv, Admission, ContextsLined, InOrder, InPlaceHeld, Sealed,
                  LoopIsEmpty, Tiled
  <1>6. WorkerInv
    <2>1. Executing = {}
      BY DEF Executing
    <2>2. Cardinality(Executing) = 0
      BY <2>1, FS_EmptySet
    <2>3. 0 \in 0..Contexts /\ 0 <= 0 /\ 0 \in 0..IdleFailures /\ 0 <= 0 + 0
      OBVIOUS
    <2> QED
      BY <2>2, <2>3 DEF WorkerInv, SchedType, Failing
  <1> QED
    BY <1>2, <1>3, <1>4, <1>5, <1>6 DEF StreamInv

\* The parts of the invariant that the frame lemmas ask for.
LEMMA StreamParts ==
    ASSUME StreamInv
    PROVE  /\ ControlInv /\ LifecycleInv /\ RingInv /\ ContextInv /\ WorkerInv
           /\ GraphType /\ TokenHeld /\ Accounted /\ RingType /\ WaitType /\ RingBound
           /\ DispatchType /\ Sealed /\ submitted \in Nat
  BY DEF StreamInv, LifecycleInv, RingInv, RingType, ContextInv

\* Steps of the helpers and of the calls both callers make.
LEMMA CallerStep ==
    ASSUME StreamInv, NEW t \in Callers, CallerNext(t)
    PROVE  StreamInv'
  <1> USE StreamParts
  <1>1. ControlInv' /\ LifecycleInv'
    BY CallerControl, CallerLifecycle
  <1>2. RingInv'
    BY CallerRing, RingFramed
  <1>3. ContextInv'
    BY CallerContexts, ContextFramed
  <1>4. WorkerInv'
    BY CallerWorkers, WorkerFramed
  <1> QED
    BY <1>1, <1>2, <1>3, <1>4 DEF StreamInv

\* Steps of the calls only the user makes.
LEMMA UserStep ==
    ASSUME StreamInv, UserNext
    PROVE  StreamInv'
  <1> USE StreamParts
  <1>1. ControlInv' /\ LifecycleInv'
    BY UserControl, UserLifecycle
  <1>2. RingInv'
    BY UserRing, RingFramed, EnqueueRing, TryCheckRing, TryWriteRing, TryPublishRing, DrainRing
  <1>3. ContextInv'
    BY UserContexts, ContextFramed, TryWriteContexts, TryPublishContexts
  <1>4. WorkerInv'
    BY UserWorkers, WorkerFramed
  <1> QED
    BY <1>1, <1>2, <1>3, <1>4 DEF StreamInv

\* A caller makes a call.
LEMMA StartStep ==
    ASSUME StreamInv, StartNext
    PROVE  StreamInv'
  <1> USE StreamParts
  <1>1. ControlInv' /\ LifecycleInv'
    BY StartControl, StartLifecycle
  <1>2. RingInv'
    BY StartRing, RingFramed
  <1>3. ContextInv'
    BY StartContexts, ContextFramed
  <1>4. WorkerInv'
    BY StartWorkers, WorkerFramed
  <1> QED
    BY <1>1, <1>2, <1>3, <1>4 DEF StreamInv

\* Retirement moves completed on, never past submitted.
LEMMA RetireRing ==
    ASSUME ControlInv, LifecycleInv, RingInv, ContextInv, Retire
    PROVE  RingInv'
  <1>1. /\ completed' \in Nat /\ completed <= completed' /\ completed' <= submitted
        /\ UNCHANGED <<slots, submitted, lc>> /\ pc'["user"] = pc["user"]
    BY RetireCounts
  <1>2. UNCHANGED <<observed, target, rec, status, ret>>
    BY DEF Retire, locals, call
  <1>3. lc.target \in Nat
    BY DEF LifecycleInv, GraphType, LifecycleFlags
  <1> QED
    BY <1>1, <1>2, <1>3, CompletedRing

\* Steps of the coordinator.
LEMMA CoordStep ==
    ASSUME StreamInv, CoordNext
    PROVE  StreamInv'
  <1> USE StreamParts
  <1>1. Retire => completed' \in Nat /\ completed <= completed' /\ completed' <= submitted
    BY RetireCounts
  <1>2. ControlInv' /\ LifecycleInv'
    BY <1>1, CoordControl, CoordLifecycle
  <1>3. RingInv'
    BY CoordRing, RingFramed, RetireRing, CoverRing
  <1>4. ContextInv'
    <2>1. CASE LoopCheck \/ Cancelled \/ FailCover \/ Retire \/ Admit \/ FlushAdmit
                 \/ EndSession \/ Discard
      BY <2>1, LoopCheckContexts, OverContexts, FailCoverContexts, RetireContexts,
         AdmitContexts, FlushAdmitContexts
    <2>2. CASE ~(LoopCheck \/ Cancelled \/ FailCover \/ Retire \/ Admit \/ FlushAdmit
                   \/ EndSession \/ Discard)
      <3>1. Tiled /\ pc["user"] = "accept" => ctxs = <<>>
        BY AcceptEmpty
      <3>2. frame = "dispatch" /\ stop /\ ~stopError => lc.cancel
        BY DEF WorkerInv
      <3> QED
        BY <2>2, <3>1, <3>2, CoordContexts, ContextFramed
    <2> QED
      BY <2>1, <2>2
  <1>5. WorkerInv'
    <2>1. CASE LoopCheck
      BY <2>1, LoopCheckWorkers
    <2> QED
      BY <2>1, CoordWorkers, WorkerFramed, StepWorkers, ContextWorkers, DiscardWorkers
  <1> QED
    BY <1>2, <1>3, <1>4, <1>5 DEF StreamInv

\* Steps of the pool workers.
LEMMA WorkerStep ==
    ASSUME StreamInv, WorkerNext
    PROVE  StreamInv'
  <1> USE StreamParts
  <1>1. ControlInv' /\ LifecycleInv'
    BY WorkerControl, WorkerLifecycle
  <1>2. RingInv'
    BY WorkerRing, RingFramed
  <1>3. ContextInv' /\ WorkerInv'
    BY WorkerContexts, WorkerWorkers
  <1> QED
    BY <1>1, <1>2, <1>3 DEF StreamInv

\* A step that changes nothing.
LEMMA StutterStep ==
    ASSUME StreamInv, UNCHANGED vars
    PROVE  StreamInv'
  <1> USE DEF vars, world, store, ring, graph, results, engine, dispatch, admission, sched,
              locals, call, parking, producers, epochs
  <1>1. ControlInv'
    BY DEF StreamInv, ControlInv, ControlType, ParkingType, CallerAt, InHelper, InBody,
           ReadSteps, EnqueueSteps, ClearSteps, ResetSteps, DestroySteps, CoordAt, GuardHeld,
           WaitersCounted, StatusKept
  <1>2. LifecycleInv'
    BY DEF StreamInv, LifecycleInv, GraphType, InSession, TokenHeld, BehindFinal, Contract,
           Released, Canceller, CancelArmed, FinalAccepted, Trying, AfterFinal, Draining,
           KeptOpen, Finishing, Accounted, FailedNeedsReset
  <1>3. RingInv'
    <2>1. RingFrame
      BY StreamParts DEF RingFrame, WaitType, AfterFinal, FinalAccepted
    <2> QED
      BY <2>1, StreamParts, RingFramed
  <1>4. ContextInv'
    <2>1. ContextFrame
      BY StreamParts DEF ContextFrame, DispatchType, Tiled, Sealed
    <2> QED
      BY <2>1, StreamParts, ContextFramed
  <1>5. WorkerInv'
    <2>1. WorkerFrame
      BY DEF WorkerFrame
    <2> QED
      BY <2>1, StreamParts, WorkerFramed
  <1> QED
    BY <1>1, <1>2, <1>3, <1>4, <1>5 DEF StreamInv

\* Every step of the stream keeps the invariant.
LEMMA NextStream == StreamInv /\ [Next]_vars => StreamInv'
  <1> SUFFICES ASSUME StreamInv, [Next]_vars PROVE StreamInv'
    OBVIOUS
  <1>1. CASE \E t \in Callers : CallerNext(t)
    BY <1>1, CallerStep
  <1>2. CASE UserNext
    BY <1>2, UserStep
  <1>3. CASE StartNext
    BY <1>3, StartStep
  <1>4. CASE CoordNext
    BY <1>4, CoordStep
  <1>5. CASE WorkerNext
    BY <1>5, WorkerStep
  <1>6. CASE Destroyed \/ UNCHANGED vars
    BY <1>6, StutterStep DEF Destroyed
  <1> QED
    BY <1>1, <1>2, <1>3, <1>4, <1>5, <1>6 DEF Next

\* StreamInv is an invariant, for rings and pools of any size, any records and
\* any calls the contract allows.
THEOREM StreamInvariant == Spec => []StreamInv
  <1>1. Init => StreamInv
    BY InitStream
  <1>2. StreamInv /\ [Next]_vars => StreamInv'
    BY NextStream
  <1> QED
    BY <1>1, <1>2, PTL DEF Spec

-----------------------------------------------------------------------------
(* What follows for every state.                                           *)

\* Type correctness: the counters of waiters, of executing workers and of
\* strays never leave their range, and no thread is at a label of another's.
THEOREM StreamTyped == Spec => []TypeOK
  <1>1. StreamInv => TypeOK
    BY DEF StreamInv, TypeOK, ControlInv, LifecycleInv, RingInv, ContextInv, WorkerInv
  <1> QED
    BY <1>1, StreamInvariant, PTL

\* The ring never overflows and never retires what was not submitted,
\* whichever of a retirement, a failure and a cancel moves completed.
THEOREM RingNeverOverflows == Spec => []RingBound
  <1>1. StreamInv => RingBound
    BY DEF StreamInv, RingInv
  <1> QED
    BY <1>1, StreamInvariant, PTL

\* No slot is written over while a record in it is not retired or a context
\* reads it in place, behind a failure too.
THEOREM NoSlotReused == Spec => []SlotsHeld
  <1>1. StreamInv => SlotsHeld
    BY DEF StreamInv, RingInv, ContextInv, WindowHeld, Window, InPlaceHeld, SlotsHeld
  <1> QED
    BY <1>1, StreamInvariant, PTL

\* Records are folded into the result exactly once and in order, however they
\* are cut into pieces, joined to batches and followed by a flush.
THEOREM StreamInOrder == Spec => []InOrder
  <1>1. StreamInv => InOrder
    BY DEF StreamInv, ContextInv
  <1> QED
    BY <1>1, StreamInvariant, PTL

\* No lifecycle call finds the single-flight token taken by the session it
\* waited for.
THEOREM CallsNeverRefused == Spec => []NeverRefused
  <1>1. StreamInv => NeverRefused
    BY DEF StreamInv, LifecycleInv, TokenHeld, Released, One, NeverRefused
  <1> QED
    BY <1>1, StreamInvariant, PTL

\* A session that reads as inactive left no record and no context behind.
THEOREM InactiveLeavesNothing == Spec => []InactiveIsClean
  <1>1. ASSUME StreamInv, ~lc.active PROVE completed = submitted /\ ctxs = <<>>
    <2>1. completed = submitted /\ frame # "dispatch"
      BY <1>1 DEF StreamInv, LifecycleInv, Accounted, TokenHeld, InSession
    <2>2. frame = "loop"
      BY <1>1, <2>1 DEF StreamInv, ControlInv, Frames
    <2> QED
      BY <1>1, <2>1, <2>2 DEF StreamInv, ContextInv, LoopIsEmpty
  <1>2. StreamInv => InactiveIsClean
    BY <1>1 DEF InactiveIsClean
  <1> QED
    BY <1>2, StreamInvariant, PTL

\* A stopped session drops its contexts from under no more workers than failed
\* holding no record, for any number of contexts and of failures: what
\* wait_until_idle_locked waits for is short by at most those.  With none, no
\* context is dropped while a worker executes it.
THEOREM DiscardWaitsForWorkers == Spec => []DiscardCountsWorkers
  <1>1. ASSUME StreamInv, pc["coord"] = "discard"
        PROVE  Cardinality(Executing) <= idleFailed
    <2>1. frame = "dispatch"
      BY <1>1 DEF StreamInv, ControlInv, CoordAt, Frames, WaitSteps, Leaving
    <2>2. running = 0 /\ Cardinality(Executing) <= running + idleFailed
      BY <1>1, <2>1 DEF StreamInv, WorkerInv, Failing
    <2>3. idleFailed \in Int
      BY <1>1 DEF StreamInv, WorkerInv, SchedType
    <2> QED
      BY <2>2, <2>3
  <1>2. StreamInv => DiscardCountsWorkers
    BY <1>1 DEF DiscardCountsWorkers, Executing
  <1> QED
    BY <1>2, StreamInvariant, PTL

-----------------------------------------------------------------------------
(* What no step may do.                                                    *)

\* Only begin_async_streaming makes a session active.
LEMMA OnlyEnqueueBegins ==
    ASSUME StreamInv, [Next]_vars, ~lc.active, lc'.active
    PROVE  Enqueue
  <1> USE StreamParts
  <1>1. RingFrame => FALSE
    BY DEF RingFrame
  <1>2. CASE UserNext
    <2>1. TryCheck \/ TryPublish => lc' = lc
      BY DEF TryCheck, TryPublish, world, store, graph
    <2>2. TryWrite \/ Drain => lc'.active = lc.active
      BY TryWriteFlags, DrainFlags DEF GraphType
    <2> QED
      BY <1>1, <1>2, <2>1, <2>2, UserRing
  <1>3. CASE CoordNext
    <2>1. Retire \/ FailCover => lc' = lc
      BY DEF Retire, FailCover, graph
    <2>2. Cancelled => lc'.active = lc.active
      BY CancelledFlags DEF GraphType
    <2> QED
      BY <1>1, <1>3, <2>1, <2>2, CoordRing
  <1>4. CASE Destroyed \/ UNCHANGED vars
    BY <1>4 DEF Destroyed, vars, world, store, graph
  <1> QED
    BY <1>1, <1>2, <1>3, <1>4, CallerRing, StartRing, WorkerRing DEF Next

\* Every session starts on a graph that is neither failed nor finalized, with
\* an empty ring.
THEOREM EverySessionStartsClean == Spec => CleanStart
  <1>1. ASSUME StreamInv, [Next]_vars, ~lc.active, lc'.active
        PROVE  result # "failed" /\ ~finalized /\ completed = submitted
    <2>1. Enqueue
      BY <1>1, OnlyEnqueueBegins
    <2>2. ~finalized /\ ~lc.needsReset
      BY <1>1, <2>1 DEF Enqueue
    <2> QED
      BY <1>1, <2>2 DEF StreamInv, LifecycleInv, Accounted, FailedNeedsReset
  <1>2. StreamInv /\ [Next]_vars =>
          [~lc.active /\ lc'.active =>
             result # "failed" /\ ~finalized /\ completed = submitted]_vars
    BY <1>1
  <1> QED
    BY <1>2, StreamInvariant, PTL DEF Spec, CleanStart


-----------------------------------------------------------------------------
(* What FINAL returns.                                                     *)

\* The ring stays where it is, FINAL's answer is not touched, and a failure or
\* a cancel is not forgotten while the user waits for it.
FinalFrame ==
    /\ UNCHANGED completed
    /\ AfterFinal' =>
         /\ AfterFinal /\ lc'.target = lc.target
         /\ lc.failed => lc'.failed
         /\ lc.needsReset => lc'.needsReset
         /\ ~lc'.failed => UNCHANGED <<finalized, snapshot>>
    /\ pc'["user"] = "finEnd" => completed >= lc.target
    /\ FailMarked'
    /\ op'["ctl"] # "reset"

\* Such a step keeps FinalInv.
LEMMA FinalFramed ==
    ASSUME FinalInv, FinalFrame
    PROVE  FinalInv'
  <1>1. pc'["user"] = "finEnd" => AfterFinal'
    BY DEF AfterFinal
  <1> QED
    BY <1>1 DEF FinalInv, FinalFrame, FinalAnswered, FinEndSettled

\* Steps of the helpers and of the calls both callers make leave FINAL's
\* answer alone: the only thread that resets is the user, who then waits for
\* no FINAL.
LEMMA CallerFinal ==
    ASSUME ControlInv, LifecycleInv, RingType, FinalInv, NEW t \in Callers,
           CallerNext(t)
    PROVE  FinalFrame
  <1> USE StreamAssumption DEF LifecycleInv, FinalInv, ControlInv, ControlType,
      CallerAt, InHelper, InBody, ReadSteps, EnqueueSteps, ClearSteps,
      ResetSteps, DestroySteps, CoordAt, GuardHeld, Guarded, WaitSteps, Leaving,
      Failing, Frames, Threads, Callers, GraphType, InSession, TokenHeld,
      PublishSteps, FinalAccepted, AfterFinal, Accounted, Released, Finishing,
      StatusKept, FinEndSettled, FailMarked, FinalFrame, One, RingType, At,
      Goto, Call, Back, Return, Sleep, Notify, BumpEpoch, vars, world, store,
      ring, graph, results, engine, dispatch, admission, sched, locals, call,
      parking, producers, epochs
  <1>1. CASE ProducerAdvertise(t)
    BY <1>1 DEF ProducerAdvertise
  <1>2. CASE ProducerCheck(t)
    BY <1>2 DEF ProducerCheck
  <1>3. CASE ChangeSpin(t)
    BY <1>3 DEF ChangeSpin
  <1>4. CASE ChangeAdvertise(t)
    BY <1>4 DEF ChangeAdvertise
  <1>5. CASE ChangeCheck(t)
    BY <1>5 DEF ChangeCheck
  <1>6. CASE Inactive(t)
    BY <1>6 DEF Inactive
  <1>7. CASE WakeBump(t)
    BY <1>7 DEF WakeBump
  <1>8. CASE WakeNotify(t)
    BY <1>8 DEF WakeNotify
  <1>9. CASE SyncTarget(t)
    BY <1>9 DEF SyncTarget
  <1>10. CASE SyncWait(t)
    BY <1>10 DEF SyncWait
  <1>11. CASE Reset(t)
    BY <1>11, ResetFlags DEF Reset
  <1>12. CASE Cancel(t)
    BY <1>12, CancelFlags DEF Cancel
  <1>13. CASE CancelWait(t)
    BY <1>13 DEF CancelWait
  <1>14. CASE CancelEnd(t)
    BY <1>14, CancelEndFlags DEF CancelEnd
  <1>15. CASE ResetApply(t)
    <2>1. /\ UNCHANGED <<ring, engine, ret>> /\ pc' = [pc EXCEPT ![t] = "idle"]
          /\ op' = [op EXCEPT ![t] = "none"]
      BY <1>15 DEF ResetApply
    <2>2. t = "user" /\ pc["user"] = "resetApply" /\ ret["user"] = "idle"
      BY <1>15 DEF ResetApply
    <2>3. ~lc.active /\ pc["coord"] \notin Failing
      BY <2>2
    <2>4. ~AfterFinal' /\ pc'["user"] # "finEnd" /\ pc'["coord"] \notin Failing
      BY <2>1, <2>2, <2>3
    <2> QED
      BY <2>1, <2>2, <2>4
  <1> QED
    BY <1>1, <1>2, <1>3, <1>4, <1>5, <1>6, <1>7, <1>8, <1>9, <1>10, <1>11,
        <1>12, <1>13, <1>14, <1>15 DEF CallerNext

\* So do the calls only the user makes, except for the write of FINAL.
LEMMA UserFinal ==
    ASSUME ControlInv, LifecycleInv, RingType, FinalInv, UserNext, ~TryWrite
    PROVE  FinalFrame
  <1> USE StreamAssumption DEF LifecycleInv, FinalInv, ControlInv, ControlType,
      CallerAt, InHelper, InBody, ReadSteps, EnqueueSteps, ClearSteps,
      ResetSteps, DestroySteps, CoordAt, GuardHeld, Guarded, WaitSteps, Leaving,
      Failing, Frames, Threads, Callers, GraphType, InSession, TokenHeld,
      PublishSteps, FinalAccepted, AfterFinal, Accounted, Released, Finishing,
      StatusKept, FinEndSettled, FailMarked, FinalFrame, One, RingType, At,
      Goto, Call, Back, Return, Sleep, Notify, BumpEpoch, vars, world, store,
      ring, graph, results, engine, dispatch, admission, sched, locals, call,
      parking, producers, epochs
  <1>1. CASE Enqueue
    BY <1>1, EnqueueFlags DEF Enqueue
  <1>2. CASE BeginAccepting
    BY <1>2, BeginAcceptingFlags DEF BeginAccepting
  <1>3. CASE TryGuard
    BY <1>3 DEF TryGuard
  <1>4. CASE TryCheck
    BY <1>4 DEF TryCheck
  <1>5. CASE TryPublish
    BY <1>5 DEF TryPublish
  <1>6. CASE ReleaseProducer
    BY <1>6 DEF ReleaseProducer
  <1>7. CASE ReleaseNotify
    BY <1>7 DEF ReleaseNotify
  <1>8. CASE RecordExchange
    BY <1>8 DEF RecordExchange, Published
  <1>9. CASE RecordNotify
    BY <1>9 DEF RecordNotify, Published
  <1>10. CASE WaitForSlot
    BY <1>10 DEF WaitForSlot
  <1>11. CASE FinishStart
    BY <1>11 DEF FinishStart
  <1>12. CASE FinishWait
    BY <1>12 DEF FinishWait
  <1>13. CASE FinishCheck
    BY <1>13 DEF FinishCheck
  <1>14. CASE FinishEnd
    BY <1>14 DEF FinishEnd
  <1>15. CASE Clear
    BY <1>15, ClearFlags DEF Clear
  <1>16. CASE Drain
    BY <1>16, DrainFlags DEF Drain
  <1>17. CASE DrainWait
    BY <1>17 DEF DrainWait
  <1>18. CASE DrainEnd
    BY <1>18 DEF DrainEnd
  <1>19. CASE ClearApply
    BY <1>19 DEF ClearApply
  <1>20. CASE Shutdown
    BY <1>20, ShutdownFlags DEF Shutdown
  <1>21. CASE Join
    BY <1>21 DEF Join
  <1> QED
    BY <1>1, <1>2, <1>3, <1>4, <1>5, <1>6, <1>7, <1>8, <1>9, <1>10, <1>11,
        <1>12, <1>13, <1>14, <1>15, <1>16, <1>17, <1>18, <1>19, <1>20, <1>21 DEF
        UserNext

\* A caller that makes a call waits for no FINAL.
LEMMA StartFinal ==
    ASSUME ControlInv, LifecycleInv, RingType, FinalInv, <<"ctl", "reset">> \notin Calls,
           StartNext
    PROVE  FinalFrame
  <1> USE StreamAssumption DEF LifecycleInv, FinalInv, ControlInv, ControlType,
      CallerAt, InHelper, InBody, ReadSteps, EnqueueSteps, ClearSteps,
      ResetSteps, DestroySteps, CoordAt, GuardHeld, Guarded, WaitSteps, Leaving,
      Failing, Frames, Threads, Callers, GraphType, InSession, TokenHeld,
      PublishSteps, FinalAccepted, AfterFinal, Accounted, Released, Finishing,
      StatusKept, FinEndSettled, FailMarked, FinalFrame, One, RingType, At,
      Goto, Call, Back, Return, Sleep, Notify, BumpEpoch, vars, world, store,
      ring, graph, results, engine, dispatch, admission, sched, locals, call,
      parking, producers, epochs
  <1>1. CASE \E r \in Records : EnqueueStart(r)
    BY <1>1 DEF EnqueueStart, Start, MayStart
  <1>2. CASE ClearStart
    BY <1>2 DEF ClearStart, Start, MayStart
  <1>3. CASE DestroyStart
    BY <1>3, DestroyStartFlags DEF DestroyStart, MayStart
  <1>4. CASE \E t \in Callers : ReadStart(t)
    BY <1>4 DEF ReadStart, MayStart
  <1>5. CASE \E t \in Callers : ResetStart(t)
    <2>0. PICK u \in Callers : ResetStart(u)
      BY <1>5
    <2>1. ResetStart("user")
      <3>1. <<u, "reset">> \in Calls
        BY <2>0 DEF ResetStart, Start, MayStart
      <3>2. u = "user"
        BY <3>1
      <3> QED
        BY <2>0, <3>2
    <2>2. /\ UNCHANGED world /\ op' = [op EXCEPT !["user"] = "reset"] /\ pc["user"] = "idle"
          /\ \/ Call("user", "inactive", "reset")
             \/ Call("user", "reset", "idle")
      BY <2>1 DEF ResetStart, Start, MayStart
    <2> QED
      BY <2>2
  <1> QED
    BY <1>1, <1>2, <1>3, <1>4, <1>5 DEF StartNext

\* Steps of the coordinator that neither retire nor cover records.
LEMMA CoordFinal ==
    ASSUME ControlInv, LifecycleInv, RingType, FinalInv, CoordNext,
           ~(Retire \/ Cancelled \/ FailCover)
    PROVE  FinalFrame
  <1> USE StreamAssumption DEF LifecycleInv, FinalInv, ControlInv, ControlType,
      CallerAt, InHelper, InBody, ReadSteps, EnqueueSteps, ClearSteps,
      ResetSteps, DestroySteps, CoordAt, GuardHeld, Guarded, WaitSteps, Leaving,
      Failing, Frames, Threads, Callers, GraphType, InSession, TokenHeld,
      PublishSteps, FinalAccepted, AfterFinal, Accounted, Released, Finishing,
      StatusKept, FinEndSettled, FailMarked, FinalFrame, One, RingType, At,
      Goto, Call, Back, Return, Sleep, Notify, BumpEpoch, vars, world, store,
      ring, graph, results, engine, dispatch, admission, sched, locals, call,
      parking, producers, epochs
  <1>1. CASE ProducerAdvertise("coord")
    BY <1>1 DEF ProducerAdvertise
  <1>2. CASE ProducerCheck("coord")
    BY <1>2 DEF ProducerCheck
  <1>3. CASE SpinWake
    BY <1>3 DEF SpinWake, Resume
  <1>4. CASE Advertise
    BY <1>4 DEF Advertise
  <1>5. CASE CheckReady
    BY <1>5 DEF CheckReady
  <1>6. CASE Park
    BY <1>6 DEF Park
  <1>7. CASE Withdraw
    BY <1>7 DEF Withdraw
  <1>8. CASE Observe
    BY <1>8 DEF Observe, Resume
  <1>9. CASE LoopCheck
    BY <1>9 DEF LoopCheck
  <1>10. CASE SessionOver
    BY <1>10 DEF SessionOver
  <1>11. CASE Ending
    BY <1>11 DEF Ending
  <1>12. CASE CompletionNotify("cancelNotify", "deactivate")
    BY <1>12 DEF CompletionNotify, Notify
  <1>13. CASE Deactivate
    BY <1>13, DeactivateFlags DEF Deactivate
  <1>14. CASE Inactivate
    BY <1>14, InactivateFlags DEF Inactivate
  <1>15. CASE Step
    BY <1>15 DEF Step
  <1>16. CASE CompletionNotify("retireNotify", "retire")
    BY <1>16 DEF CompletionNotify, Notify
  <1>17. CASE RetireDone
    BY <1>17 DEF RetireDone
  <1>18. CASE Admit
    BY <1>18 DEF Admit
  <1>19. CASE AdmitDone
    BY <1>19 DEF AdmitDone
  <1>20. CASE FlushAdmit
    BY <1>20 DEF FlushAdmit
  <1>21. CASE EndSession
    BY <1>21 DEF EndSession
  <1>22. CASE StepAgain
    BY <1>22 DEF StepAgain
  <1>23. CASE Fail
    BY <1>23, FailFlags DEF Fail
  <1>24. CASE FailClose
    BY <1>24, FailCloseFlags DEF FailClose
  <1>25. CASE CompletionNotify("failNotify", "discard")
    BY <1>25 DEF CompletionNotify, Notify
  <1>26. CASE Discard
    BY <1>26 DEF Discard
  <1> QED
    BY <1>1, <1>2, <1>3, <1>4, <1>5, <1>6, <1>7, <1>8, <1>9, <1>10, <1>11,
        <1>12, <1>13, <1>14, <1>15, <1>16, <1>17, <1>18, <1>19, <1>20, <1>21,
        <1>22, <1>23, <1>24, <1>25, <1>26 DEF CoordNext

\* The workers publish nothing.
LEMMA WorkerFinal ==
    ASSUME ControlInv, LifecycleInv, RingType, FinalInv, WorkerNext
    PROVE  FinalFrame
  <1> USE StreamAssumption DEF LifecycleInv, FinalInv, ControlInv, ControlType,
      CallerAt, InHelper, InBody, ReadSteps, EnqueueSteps, ClearSteps,
      ResetSteps, DestroySteps, CoordAt, GuardHeld, Guarded, WaitSteps, Leaving,
      Failing, Frames, Threads, Callers, GraphType, InSession, TokenHeld,
      PublishSteps, FinalAccepted, AfterFinal, Accounted, Released, Finishing,
      StatusKept, FinEndSettled, FailMarked, FinalFrame, One, RingType, At,
      Goto, Call, Back, Return, Sleep, Notify, BumpEpoch, vars, world, store,
      ring, graph, results, engine, dispatch, admission, sched, locals, call,
      parking, producers, epochs
  <1>1. CASE \E i \in DOMAIN ctxs : WorkerClaim(i)
    BY <1>1 DEF WorkerClaim, SetExec
  <1>2. CASE \E i \in DOMAIN ctxs : WorkerFinish(i)
    BY <1>2 DEF WorkerFinish, SetExec, CountOut
  <1>3. CASE \E i \in DOMAIN ctxs : WorkerFail(i)
    BY <1>3 DEF WorkerFail, SetExec, CountOut
  <1>4. CASE WorkerIdleFail
    BY <1>4 DEF WorkerIdleFail, CountOut
  <1>5. CASE WorkerNotify
    BY <1>5 DEF WorkerNotify
  <1>6. CASE StrayReturns
    BY <1>6 DEF StrayReturns
  <1> QED
    BY <1>1, <1>2, <1>3, <1>4, <1>5, <1>6 DEF WorkerNext

\* FINAL is written over no answer: the ring has not reached it yet.
LEMMA TryWriteFinal ==
    ASSUME ControlInv, LifecycleInv, RingInv, FinalInv, TryWrite
    PROVE  FinalInv'
  <1>1. /\ UNCHANGED <<completed, submitted>> /\ pc' = [pc EXCEPT !["user"] = "publish"]
        /\ UNCHANGED <<ret, op, rec, status>>
    BY DEF TryWrite, Goto, locals, call
  <1>2. pc["user"] = "write" /\ ret["user"] = "idle"
    BY DEF TryWrite, At, ControlInv, CallerAt, InHelper, InBody, ReadSteps, EnqueueSteps,
           ClearSteps, ResetSteps, DestroySteps, Callers
  <1>3. AfterFinal' => rec.type = "FINAL"
    BY <1>1, <1>2 DEF AfterFinal, FinalAccepted, ControlInv, ControlType, Threads, Callers
  <1>4. lc'.needsReset = lc.needsReset /\ (AfterFinal' => lc'.target = submitted + 1)
    BY <1>3, TryWriteFlags DEF LifecycleInv, GraphType, RingInv, RingType
  <1>5. completed < submitted + 1
    BY DEF RingInv, RingType, RingBound
  <1>6. AfterFinal' => ~(completed >= submitted + 1)
    BY <1>5 DEF RingInv, RingType
  <1>7. FinalAnswered'
    BY <1>1, <1>4, <1>6 DEF FinalAnswered
  <1>8. pc'["user"] # "finEnd" /\ pc'["coord"] = pc["coord"]
    BY <1>1 DEF ControlInv, ControlType, Threads, Callers
  <1> QED
    BY <1>1, <1>4, <1>7, <1>8 DEF FinalInv, FinEndSettled, FailMarked

\* A cancel covers what is queued, and leaves the graph in need of a reset.
LEMMA CancelledFinal ==
    ASSUME ControlInv, LifecycleInv, RingInv, FinalInv, Cancelled
    PROVE  FinalInv'
  <1>1. lc'.needsReset /\ lc'.target = lc.target
    BY CancelledFlags DEF LifecycleInv, GraphType
  <1>2. completed' = submitted /\ completed <= submitted /\ UNCHANGED op
    BY DEF Cancelled, locals, RingInv, RingBound
  <1>3. pc'["user"] = pc["user"]
    BY DEF Cancelled, Goto, ControlInv, ControlType, Threads, Callers
  <1>4. pc["user"] = "finEnd" => submitted >= lc.target
    BY <1>2 DEF FinalInv, FinEndSettled, LifecycleInv, GraphType, LifecycleFlags, RingInv,
                RingType
  <1>5. FinEndSettled'
    BY <1>1, <1>2, <1>3, <1>4 DEF FinEndSettled
  <1> QED
    BY <1>1, <1>2, <1>5 DEF FinalInv, FinalAnswered, FailMarked

\* A failure covers what is queued once the graph is marked as failed.
LEMMA FailCoverFinal ==
    ASSUME ControlInv, LifecycleInv, RingInv, FinalInv, FailCover
    PROVE  FinalInv'
  <1>1. lc' = lc /\ UNCHANGED op /\ pc["coord"] = "failCover"
    BY DEF FailCover, At, locals, graph
  <1>2. completed' = submitted /\ completed <= submitted
    BY DEF FailCover, RingInv, RingBound
  <1>3. pc'["user"] = pc["user"]
    BY DEF FailCover, Goto, ControlInv, ControlType, Threads, Callers
  <1>4. pc["user"] = "finEnd" => submitted >= lc.target
    BY <1>2 DEF FinalInv, FinEndSettled, LifecycleInv, GraphType, LifecycleFlags, RingInv,
                RingType
  <1>5. FinEndSettled'
    BY <1>1, <1>2, <1>3, <1>4 DEF FinEndSettled
  <1>6. lc.needsReset
    BY <1>1 DEF FinalInv, FailMarked, Failing
  <1> QED
    BY <1>1, <1>5, <1>6 DEF FinalInv, FinalAnswered, FailMarked

\* Only the flush behind FINAL closes FINAL's sequence, and retiring it publishes
\* the final result.
LEMMA RetireFinal ==
    ASSUME ControlInv, LifecycleInv, RingInv, ContextInv, FinalInv, Retire
    PROVE  FinalInv'
  <1> DEFINE c == ctxs[1]
  <1>1. /\ completed' \in Nat /\ completed <= completed' /\ UNCHANGED <<slots, submitted, lc>>
        /\ completed' = IF c.closes THEN c.seq + 1 ELSE completed
        /\ c \in ContextRange /\ Covers(c) /\ ClosesWhat(c) /\ c.first = completed
        /\ ctxs # <<>> /\ pc'["user"] = pc["user"]
        /\ pc'["coord"] \in {"retire", "retireNotify"}
    BY RetireCounts
  <1>2. Head(ctxs) = c
    BY <1>1, TailFacts DEF ContextInv, DispatchType
  <1>3. c.flush => finalized' /\ snapshot' = "final"
    BY <1>2 DEF Retire
  <1>4. UNCHANGED <<op, ret, rec, status>>
    BY DEF Retire, locals, call
  <1>5. AfterFinal' => AfterFinal
    BY <1>1, <1>4 DEF AfterFinal, FinalAccepted
  <1>6. /\ completed \in Nat /\ submitted \in Nat /\ lc.target \in Nat
        /\ c.first \in Nat /\ c.seq \in Nat
    BY <1>1 DEF RingInv, RingType, LifecycleInv, GraphType, LifecycleFlags, ContextRange
  <1>7. completed <= c.seq /\ c.seq < submitted
    BY <1>1, <1>6 DEF Covers
  <1>8. AfterFinal => submitted <= lc.target
    BY <1>6 DEF LifecycleInv, Finishing, One
  <1> HIDE DEF c
  <1> DEFINE later == IF c.closes THEN c.seq + 1 ELSE completed
  <1>9. ASSUME AfterFinal, later >= lc.target PROVE c.flush
    <2>1. completed < lc.target
      BY <1>6, <1>7, <1>8, <1>9
    <2>2. c.closes /\ c.seq = lc.target - 1
      BY <1>6, <1>7, <1>8, <1>9, <2>1
    <2>3. SlotAt(c.seq).type = "FINAL"
      BY <1>9, <2>1, <2>2 DEF RingInv, FinalHeld
    <2>4. c.seq \in c.first..c.seq
      BY <1>1, <1>6, <1>7
    <2> QED
      BY <1>1, <2>2, <2>3, <2>4 DEF ClosesWhat
  <1>10. later >= completed
    BY <1>6, <1>7
  <1>11. pc["user"] = "finEnd" => later >= lc.target
    BY <1>6, <1>7, <1>10 DEF FinalInv, FinEndSettled
  <1> HIDE DEF later
  <1>12. completed' = later
    BY <1>1 DEF later
  <1>13. FinalAnswered'
    BY <1>1, <1>3, <1>5, <1>9, <1>12 DEF FinalAnswered
  <1>14. FinEndSettled'
    BY <1>1, <1>11, <1>12 DEF FinEndSettled
  <1> QED
    BY <1>1, <1>4, <1>13, <1>14 DEF FinalInv, FailMarked, Failing

\* Every step keeps FinalInv, when no watchdog resets the graph.
LEMMA NextFinal ==
    ASSUME <<"ctl", "reset">> \notin Calls, StreamInv, FinalInv, [Next]_vars
    PROVE  FinalInv'
  <1> USE StreamParts
  <1>1. CASE \E t \in Callers : CallerNext(t)
    BY <1>1, CallerFinal, FinalFramed
  <1>2. CASE UserNext
    BY <1>2, UserFinal, FinalFramed, TryWriteFinal
  <1>3. CASE StartNext
    BY <1>3, StartFinal, FinalFramed
  <1>4. CASE CoordNext
    BY <1>4, CoordFinal, FinalFramed, RetireFinal, CancelledFinal, FailCoverFinal
  <1>5. CASE WorkerNext
    BY <1>5, WorkerFinal, FinalFramed
  <1>6. CASE Destroyed \/ UNCHANGED vars
    BY <1>6 DEF Destroyed, vars, world, store, ring, graph, results, locals, call, FinalInv,
                FinalAnswered, FinEndSettled, FailMarked, AfterFinal, FinalAccepted
  <1> QED
    BY <1>1, <1>2, <1>3, <1>4, <1>5, <1>6 DEF Next

\* A FINAL that returns without a failure hands out the whole shot: the ring
\* has reached it, the shot is closed and the flushed result is published. A
\* watchdog that resets under FINAL takes the answer away, so the theorem asks
\* for none.
THEOREM FinalReturnsWhole ==
    ASSUME <<"ctl", "reset">> \notin Calls
    PROVE  Spec => []FinalIsWhole
  <1>1. Init => FinalInv
    BY DEF Init, FinalInv, FinalAnswered, FinEndSettled, FailMarked, AfterFinal, PublishSteps,
           Failing, Threads, Callers
  <1>2. StreamInv /\ FinalInv /\ [Next]_vars => FinalInv'
    BY NextFinal
  <1>3. FinalInv => FinalIsWhole
    BY DEF FinalInv, FinalAnswered, FinEndSettled, AfterFinal, FinalIsWhole
  <1> QED
    BY <1>1, <1>2, <1>3, StreamInvariant, PTL DEF Spec

-----------------------------------------------------------------------------
(* Steps the contract does not see.                                        *)

\* The user is on its way to publish a record, or to close the shot.
Busy == Trying \/ pc["user"] = "publish"

\* Nothing the contract names changes, a failure is not forgotten, and behind
\* a flush neither a record nor a context appears.
ShotFrame ==
    /\ UNCHANGED <<submitted, completed, result, snapshot, finalized>>
    /\ lc'.active = lc.active /\ lc'.needsReset = lc.needsReset
    /\ lc.failed => lc'.failed
    /\ Busy' => Busy
    /\ Tiled' => /\ Tiled /\ (ctxs = <<>> => ctxs' = <<>>)
                 /\ finalPending' = finalPending /\ flushAdmitted' = flushAdmitted
    /\ frame' = "dispatch" /\ pc'["coord"] \notin Broken =>
         frame = "dispatch" /\ pc["coord"] \notin Broken
    /\ pc'["coord"] \in Failing \ {"fail"} => pc["coord"] \in Failing \ {"fail"}
    /\ pc["coord"] \in {"cancelNotify", "deactivate", "inactivate"} =>
         pc'["coord"] \in {"cancelNotify", "deactivate", "inactivate"}

\* Such a step keeps ShotInv, and is no step of the contract.
LEMMA ShotFramed ==
    ASSUME ShotInv, ShotFrame
    PROVE  ShotInv' /\ UNCHANGED RS!vars
  <1>1. InOrderUntilFailed' /\ FailMarked'
    BY DEF ShotInv, ShotFrame, InOrderUntilFailed, FailMarked
  <1>2. ClosedByFlush'
    BY DEF ShotInv, ShotFrame, ClosedByFlush, Busy
  <1>3. UNCHANGED RS!vars
    BY DEF ShotFrame, RS!vars
  <1> QED
    BY <1>1, <1>2, <1>3 DEF ShotInv

\* Steps of the helpers and of the calls both callers make, until a reset is
\* applied.
LEMMA CallerShot ==
    ASSUME ControlInv, LifecycleInv, RingType, NEW t \in Callers, CallerNext(t),
           ~CancelEnd(t), ~ResetApply(t)
    PROVE  ShotFrame
  <1> USE StreamAssumption DEF LifecycleInv, ControlInv, ControlType, CallerAt,
      InHelper, InBody, ReadSteps, EnqueueSteps, ClearSteps, ResetSteps,
      DestroySteps, CoordAt, GuardHeld, Guarded, WaitSteps, Leaving, Failing,
      Broken, Frames, Threads, Callers, GraphType, InSession, TokenHeld,
      PublishSteps, FinalAccepted, Trying, Busy, Tiled, StatusKept, ShotFrame,
      One, RingType, At, Goto, Call, Back, Return, Sleep, Notify, BumpEpoch,
      vars, world, store, ring, graph, results, engine, dispatch, admission,
      sched, locals, call, parking, producers, epochs
  <1>1. CASE ProducerAdvertise(t)
    BY <1>1 DEF ProducerAdvertise
  <1>2. CASE ProducerCheck(t)
    BY <1>2 DEF ProducerCheck
  <1>3. CASE ChangeSpin(t)
    BY <1>3 DEF ChangeSpin
  <1>4. CASE ChangeAdvertise(t)
    BY <1>4 DEF ChangeAdvertise
  <1>5. CASE ChangeCheck(t)
    BY <1>5 DEF ChangeCheck
  <1>6. CASE Inactive(t)
    BY <1>6 DEF Inactive
  <1>7. CASE WakeBump(t)
    BY <1>7 DEF WakeBump
  <1>8. CASE WakeNotify(t)
    BY <1>8 DEF WakeNotify
  <1>9. CASE SyncTarget(t)
    BY <1>9 DEF SyncTarget
  <1>10. CASE SyncWait(t)
    BY <1>10 DEF SyncWait
  <1>11. CASE Reset(t)
    BY <1>11, ResetFlags DEF Reset
  <1>12. CASE Cancel(t)
    BY <1>12, CancelFlags DEF Cancel
  <1>13. CASE CancelWait(t)
    BY <1>13 DEF CancelWait
  <1> QED
    BY <1>1, <1>2, <1>3, <1>4, <1>5, <1>6, <1>7, <1>8, <1>9, <1>10, <1>11,
        <1>12, <1>13 DEF CallerNext

\* The user's own steps, but for the ones that begin a session, publish a
\* record and consume a shot.
LEMMA UserShot ==
    ASSUME ControlInv, LifecycleInv, RingType, UserNext,
           ~(Enqueue \/ TryPublish \/ ClearApply)
    PROVE  ShotFrame
  <1> USE StreamAssumption DEF LifecycleInv, ControlInv, ControlType, CallerAt,
      InHelper, InBody, ReadSteps, EnqueueSteps, ClearSteps, ResetSteps,
      DestroySteps, CoordAt, GuardHeld, Guarded, WaitSteps, Leaving, Failing,
      Broken, Frames, Threads, Callers, GraphType, InSession, TokenHeld,
      PublishSteps, FinalAccepted, Trying, Busy, Tiled, StatusKept, ShotFrame,
      One, RingType, At, Goto, Call, Back, Return, Sleep, Notify, BumpEpoch,
      vars, world, store, ring, graph, results, engine, dispatch, admission,
      sched, locals, call, parking, producers, epochs
  <1>1. CASE BeginAccepting
    BY <1>1, BeginAcceptingFlags DEF BeginAccepting
  <1>2. CASE TryGuard
    BY <1>2 DEF TryGuard
  <1>3. CASE TryCheck
    BY <1>3 DEF TryCheck
  <1>4. CASE TryWrite
    BY <1>4, TryWriteFlags DEF TryWrite
  <1>5. CASE ReleaseProducer
    BY <1>5 DEF ReleaseProducer
  <1>6. CASE ReleaseNotify
    BY <1>6 DEF ReleaseNotify
  <1>7. CASE RecordExchange
    BY <1>7 DEF RecordExchange, Published
  <1>8. CASE RecordNotify
    BY <1>8 DEF RecordNotify, Published
  <1>9. CASE WaitForSlot
    BY <1>9 DEF WaitForSlot
  <1>10. CASE FinishStart
    BY <1>10 DEF FinishStart
  <1>11. CASE FinishWait
    BY <1>11 DEF FinishWait
  <1>12. CASE FinishCheck
    BY <1>12 DEF FinishCheck
  <1>13. CASE FinishEnd
    BY <1>13 DEF FinishEnd
  <1>14. CASE Clear
    BY <1>14, ClearFlags DEF Clear
  <1>15. CASE Drain
    BY <1>15, DrainFlags DEF Drain
  <1>16. CASE DrainWait
    BY <1>16 DEF DrainWait
  <1>17. CASE DrainEnd
    BY <1>17 DEF DrainEnd
  <1>18. CASE Shutdown
    BY <1>18, ShutdownFlags DEF Shutdown
  <1>19. CASE Join
    BY <1>19 DEF Join
  <1> QED
    BY <1>1, <1>2, <1>3, <1>4, <1>5, <1>6, <1>7, <1>8, <1>9, <1>10, <1>11,
        <1>12, <1>13, <1>14, <1>15, <1>16, <1>17, <1>18, <1>19 DEF UserNext

\* A call that starts does nothing yet.
LEMMA StartShot ==
    ASSUME ControlInv, LifecycleInv, RingType, StartNext
    PROVE  ShotFrame
  <1> USE StreamAssumption DEF LifecycleInv, ControlInv, ControlType, CallerAt,
      InHelper, InBody, ReadSteps, EnqueueSteps, ClearSteps, ResetSteps,
      DestroySteps, CoordAt, GuardHeld, Guarded, WaitSteps, Leaving, Failing,
      Broken, Frames, Threads, Callers, GraphType, InSession, TokenHeld,
      PublishSteps, FinalAccepted, Trying, Busy, Tiled, StatusKept, ShotFrame,
      One, RingType, At, Goto, Call, Back, Return, Sleep, Notify, BumpEpoch,
      vars, world, store, ring, graph, results, engine, dispatch, admission,
      sched, locals, call, parking, producers, epochs
  <1>1. CASE \E r \in Records : EnqueueStart(r)
    BY <1>1 DEF EnqueueStart, Start, MayStart
  <1>2. CASE ClearStart
    BY <1>2 DEF ClearStart, Start, MayStart
  <1>3. CASE DestroyStart
    BY <1>3, DestroyStartFlags DEF DestroyStart, MayStart
  <1>4. CASE \E t \in Callers : ReadStart(t)
    BY <1>4 DEF ReadStart, MayStart
  <1>5. CASE \E t \in Callers : ResetStart(t)
    BY <1>5 DEF ResetStart, Start, MayStart
  <1> QED
    BY <1>1, <1>2, <1>3, <1>4, <1>5 DEF StartNext

\* The coordinator's steps between those that start, feed, retire and end a
\* session.
LEMMA CoordShot ==
    ASSUME ControlInv, LifecycleInv, RingType, CoordNext,
           ~(LoopCheck \/ Cancelled \/ Inactivate \/ Retire \/ Admit \/ FlushAdmit),
           ~(Fail \/ FailCover)
    PROVE  ShotFrame
  <1> USE StreamAssumption DEF LifecycleInv, ControlInv, ControlType, CallerAt,
      InHelper, InBody, ReadSteps, EnqueueSteps, ClearSteps, ResetSteps,
      DestroySteps, CoordAt, GuardHeld, Guarded, WaitSteps, Leaving, Failing,
      Broken, Frames, Threads, Callers, GraphType, InSession, TokenHeld,
      PublishSteps, FinalAccepted, Trying, Busy, Tiled, StatusKept, ShotFrame,
      One, RingType, At, Goto, Call, Back, Return, Sleep, Notify, BumpEpoch,
      vars, world, store, ring, graph, results, engine, dispatch, admission,
      sched, locals, call, parking, producers, epochs
  <1>1. CASE ProducerAdvertise("coord")
    BY <1>1 DEF ProducerAdvertise
  <1>2. CASE ProducerCheck("coord")
    BY <1>2 DEF ProducerCheck
  <1>3. CASE SpinWake
    BY <1>3 DEF SpinWake, Resume
  <1>4. CASE Advertise
    BY <1>4 DEF Advertise
  <1>5. CASE CheckReady
    BY <1>5 DEF CheckReady
  <1>6. CASE Park
    BY <1>6 DEF Park
  <1>7. CASE Withdraw
    BY <1>7 DEF Withdraw
  <1>8. CASE Observe
    BY <1>8 DEF Observe, Resume
  <1>9. CASE SessionOver
    BY <1>9 DEF SessionOver
  <1>10. CASE Ending
    BY <1>10 DEF Ending
  <1>11. CASE CompletionNotify("cancelNotify", "deactivate")
    BY <1>11 DEF CompletionNotify, Notify
  <1>12. CASE Deactivate
    BY <1>12, DeactivateFlags DEF Deactivate
  <1>13. CASE Step
    BY <1>13 DEF Step
  <1>14. CASE CompletionNotify("retireNotify", "retire")
    BY <1>14 DEF CompletionNotify, Notify
  <1>15. CASE RetireDone
    BY <1>15 DEF RetireDone
  <1>16. CASE AdmitDone
    BY <1>16 DEF AdmitDone
  <1>17. CASE EndSession
    BY <1>17 DEF EndSession
  <1>18. CASE StepAgain
    BY <1>18 DEF StepAgain
  <1>19. CASE FailClose
    BY <1>19, FailCloseFlags DEF FailClose
  <1>20. CASE CompletionNotify("failNotify", "discard")
    BY <1>20 DEF CompletionNotify, Notify
  <1>21. CASE Discard
    BY <1>21 DEF Discard
  <1> QED
    BY <1>1, <1>2, <1>3, <1>4, <1>5, <1>6, <1>7, <1>8, <1>9, <1>10, <1>11,
        <1>12, <1>13, <1>14, <1>15, <1>16, <1>17, <1>18, <1>19, <1>20, <1>21
        DEF CoordNext

\* The workers' steps.
LEMMA WorkerShot ==
    ASSUME ControlInv, LifecycleInv, RingType, DispatchType, WorkerNext
    PROVE  ShotFrame
  <1> USE StreamAssumption DEF LifecycleInv, ControlInv, ControlType, CallerAt,
      InHelper, InBody, ReadSteps, EnqueueSteps, ClearSteps, ResetSteps,
      DestroySteps, CoordAt, GuardHeld, Guarded, WaitSteps, Leaving, Failing,
      Broken, Frames, Threads, Callers, GraphType, InSession, TokenHeld,
      PublishSteps, FinalAccepted, Trying, Busy, Tiled, StatusKept, ShotFrame,
      One, RingType, At, Goto, Call, Back, Return, Sleep, Notify, BumpEpoch,
      vars, world, store, ring, graph, results, engine, dispatch, admission,
      sched, locals, call, parking, producers, epochs
  <1>1. CASE \E i \in DOMAIN ctxs : WorkerClaim(i)
    BY <1>1 DEF WorkerClaim, SetExec
  <1>2. CASE \E i \in DOMAIN ctxs : WorkerFinish(i)
    BY <1>2 DEF WorkerFinish, SetExec, CountOut
  <1>3. CASE \E i \in DOMAIN ctxs : WorkerFail(i)
    BY <1>3 DEF WorkerFail, SetExec, CountOut
  <1>4. CASE WorkerIdleFail
    BY <1>4 DEF WorkerIdleFail, CountOut
  <1>5. CASE WorkerNotify
    BY <1>5 DEF WorkerNotify
  <1>6. CASE StrayReturns
    BY <1>6 DEF StrayReturns
  <1> QED
    BY <1>1, <1>2, <1>3, <1>4, <1>5, <1>6 DEF WorkerNext

-----------------------------------------------------------------------------
(* What the callers do to a shot.                                          *)

\* begin_async_streaming opens a session on a graph in order; a record behind
\* FINAL, or for a graph that needs a reset, is dropped.
LEMMA EnqueueShot ==
    ASSUME ControlInv, LifecycleInv, ShotInv, Enqueue
    PROVE  ShotInv' /\ (RS!Open \/ UNCHANGED RS!vars)
  <1>1. /\ UNCHANGED <<submitted, completed, finalized, result, frame, ctxs, finalPending,
                       flushAdmitted, rec, status>>
        /\ pc["user"] = "enq" /\ pc'["coord"] = pc["coord"]
        /\ finalized => pc'["user"] = "idle" /\ UNCHANGED ret
    BY DEF Enqueue, At, Goto, Return, ControlInv, ControlType, Threads, Callers, engine,
           dispatch, admission, ring, call
  <1>2. ret["user"] = "idle"
    BY <1>1 DEF ControlInv, CallerAt, InHelper, InBody, ReadSteps, EnqueueSteps, ClearSteps,
                ResetSteps, DestroySteps, Callers
  <1>3. finalized => ~Trying' /\ pc'["user"] # "publish"
    BY <1>1, <1>2 DEF Trying, PublishSteps
  <1>4. lc' \in LifecycleFlags /\ lc'.needsReset = lc.needsReset
    BY EnqueueFlags DEF LifecycleInv, GraphType
  <1>5. CASE lc' = lc /\ snapshot' = snapshot
    <2>1. ShotInv'
      BY <1>1, <1>3, <1>5 DEF ShotInv, InOrderUntilFailed, FailMarked, ClosedByFlush, Tiled
    <2> QED
      BY <1>1, <1>5, <2>1 DEF RS!vars
  <1>6. CASE ~lc.active /\ ~finalized /\ ~lc.needsReset /\ lc'.active /\ snapshot' = "none"
    <2>1. ShotInv'
      BY <1>1, <1>4, <1>6 DEF ShotInv, InOrderUntilFailed, FailMarked, ClosedByFlush
    <2>2. result # "failed" /\ completed = submitted /\ lc'.active = TRUE
      BY <1>4, <1>6 DEF LifecycleInv, FailedNeedsReset, Accounted, LifecycleFlags
    <2> QED
      BY <1>1, <1>4, <1>6, <2>1, <2>2 DEF RS!Open
  <1> QED
    BY <1>5, <1>6, EnqueueFlags DEF LifecycleInv, GraphType

\* Publishing a slot is what makes a record accepted.
LEMMA TryPublishShot ==
    ASSUME ControlInv, LifecycleInv, RingInv, ShotInv, TryPublish
    PROVE  ShotInv' /\ RS!Accept
  <1>1. /\ UNCHANGED <<completed, lc, finalized, result, snapshot, frame, ctxs>>
        /\ submitted' = submitted + 1
        /\ pc["user"] = "publish" /\ pc'["coord"] = pc["coord"]
    BY DEF TryPublish, At, Goto, ControlInv, ControlType, Threads, Callers, engine,
           dispatch, graph, results
  <1>2. ~finalized /\ lc.active /\ submitted - completed < Capacity
    BY <1>1 DEF ShotInv, ClosedByFlush, LifecycleInv, KeptOpen, RingInv, Publishing
  <1>3. ShotInv'
    BY <1>1, <1>2 DEF ShotInv, InOrderUntilFailed, FailMarked, ClosedByFlush
  <1> QED
    BY <1>1, <1>2, <1>3 DEF RS!Accept

\* clear_corrections consumes the shot of an inactive graph.
LEMMA ClearApplyShot ==
    ASSUME ControlInv, LifecycleInv, ShotInv, ClearApply
    PROVE  ShotInv' /\ RS!Consume
  <1>1. /\ UNCHANGED <<submitted, completed, lc, frame>> /\ pc["user"] = "clearApply"
        /\ pc'["coord"] = pc["coord"]
    BY DEF ClearApply, At, Goto, Return, ControlInv, ControlType, Threads, Callers, engine,
           dispatch, ring
  <1>2. ~lc.active /\ inFlight = 0
    BY <1>1 DEF LifecycleInv, Released, TokenHeld, One, Callers
  <1>3. /\ finalized' = FALSE /\ snapshot' = "none"
        /\ result' = IF result = "failed" THEN "failed" ELSE "pending"
    BY <1>2 DEF ClearApply
  <1>4. ShotInv'
    BY <1>1, <1>3 DEF ShotInv, InOrderUntilFailed, FailMarked, ClosedByFlush
  <1> QED
    BY <1>1, <1>2, <1>3, <1>4 DEF RS!Consume

\* Outside a session the coordinator is not failing.
LEMMA IdleCoordinator ==
    ASSUME ControlInv, LifecycleInv, ~lc.active
    PROVE  frame = "loop" /\ pc["coord"] \notin Failing
  BY DEF ControlInv, CoordAt, Frames, WaitSteps, Leaving, Failing, LifecycleInv, TokenHeld,
         InSession

\* A cancel that was honoured takes the publication back.
LEMMA CancelEndShot ==
    ASSUME ControlInv, LifecycleInv, ShotInv, NEW t \in Callers, CancelEnd(t)
    PROVE  ShotInv' /\ RS!Withdraw
  <1>1. /\ UNCHANGED <<submitted, completed, frame, finalized, result, ret, rec, status>>
        /\ pc[t] = "cancelEnd" /\ pc' = [pc EXCEPT ![t] = "resetApply"]
        /\ snapshot' = "none"
    BY DEF CancelEnd, At, Goto, engine, dispatch, ring, locals, call
  <1>2. ~lc.active
    BY <1>1 DEF LifecycleInv, Released
  <1>3. lc'.active = lc.active /\ lc'.needsReset = lc.needsReset
    BY CancelEndFlags DEF LifecycleInv, GraphType
  <1>4. pc'["coord"] = pc["coord"] /\ frame = "loop" /\ pc["coord"] \notin Failing
    BY <1>1, <1>2, IdleCoordinator DEF ControlInv, ControlType, Threads, Callers
  <1>5. pc'["user"] = pc["user"] \/ pc'["user"] = "resetApply"
    BY <1>1 DEF ControlInv, ControlType, Threads, Callers
  <1>6. Busy' => Busy
    BY <1>1, <1>5 DEF Busy, Trying, PublishSteps, FinalAccepted
  <1>7. ShotInv'
    BY <1>1, <1>2, <1>3, <1>4, <1>6
       DEF ShotInv, InOrderUntilFailed, FailMarked, ClosedByFlush, Busy, Tiled
  <1> QED
    BY <1>1, <1>2, <1>3, <1>7 DEF RS!Withdraw

\* The reset of the nodes makes the graph usable again, or fails.
LEMMA ResetApplyShot ==
    ASSUME ControlInv, LifecycleInv, ShotInv, NEW t \in Callers, ResetApply(t)
    PROVE  ShotInv' /\ RS!Reset
  <1>1. /\ UNCHANGED <<submitted, completed, frame>> /\ pc[t] = "resetApply"
        /\ pc' = [pc EXCEPT ![t] = "idle"]
    BY DEF ResetApply, At, Goto, Return, engine, dispatch, ring
  <1>2. ~lc.active /\ inFlight = 0
    BY <1>1 DEF LifecycleInv, Released, TokenHeld, One
  <1>3. lc \in LifecycleFlags /\ lc'.active = lc.active
    BY ResetApplyFlags DEF LifecycleInv, GraphType
  <1>4. /\ finalized' = FALSE /\ snapshot' = "none"
        /\ \E ok \in BOOLEAN : /\ lc' = [lc EXCEPT !.needsReset = ~ok]
                               /\ result' = IF ok THEN "pending" ELSE "failed"
    BY <1>2 DEF ResetApply
  <1>5. \E ok \in BOOLEAN : /\ lc'.needsReset = ~ok
                            /\ result' = IF ok THEN "pending" ELSE "failed"
    BY <1>3, <1>4 DEF LifecycleFlags
  <1>6. pc'["coord"] = pc["coord"] /\ frame = "loop" /\ pc["coord"] \notin Failing
    BY <1>1, <1>2, IdleCoordinator DEF ControlInv, ControlType, Threads, Callers
  <1>7. ShotInv'
    BY <1>1, <1>2, <1>3, <1>4, <1>6 DEF ShotInv, InOrderUntilFailed, FailMarked, ClosedByFlush
  <1> QED
    BY <1>1, <1>2, <1>3, <1>4, <1>5, <1>7 DEF RS!Reset

-----------------------------------------------------------------------------
(* What the coordinator does to a shot.                                    *)

\* The dispatcher is started for a session that has not failed, on contexts
\* that hold nothing.
LEMMA LoopCheckShot ==
    ASSUME ControlInv, LifecycleInv, ContextInv, ShotInv, LoopCheck
    PROVE  ShotInv' /\ UNCHANGED RS!vars
  <1>1. /\ UNCHANGED <<submitted, completed, result, snapshot, finalized, lc, ctxs, ret, rec,
                       status>>
        /\ pc["coord"] = "check" /\ pc'["user"] = pc["user"]
    BY DEF LoopCheck, At, Goto, ControlInv, ControlType, Threads, Callers, store, ring, graph,
           results, locals, call
  <1>2. frame = "loop" /\ ctxs = <<>>
    BY <1>1 DEF ControlInv, CoordAt, Frames, WaitSteps, Failing, ContextInv, LoopIsEmpty
  <1>3. Busy' <=> Busy
    BY <1>1 DEF Busy, Trying, PublishSteps, FinalAccepted
  <1>4. /\ frame' = "dispatch" => lc.active /\ ~lc.failed /\ ~finalPending'
        /\ pc'["coord"] \notin Failing
    BY <1>1, <1>2 DEF LoopCheck, Goto, ControlInv, ControlType, Threads, Callers, Failing
  <1>5. frame' = "dispatch" => ~lc.needsReset
    BY <1>1, <1>4 DEF ShotInv, InOrderUntilFailed
  <1>6. InOrderUntilFailed' /\ FailMarked'
    BY <1>1, <1>4, <1>5 DEF ShotInv, InOrderUntilFailed, FailMarked
  <1>7. ClosedByFlush'
    BY <1>1, <1>2, <1>3, <1>4 DEF ShotInv, ClosedByFlush, Busy, Tiled
  <1> QED
    BY <1>1, <1>6, <1>7 DEF ShotInv, RS!vars

\* A cancel covers what is queued.
LEMMA CancelledShot ==
    ASSUME ControlInv, LifecycleInv, ShotInv, Cancelled
    PROVE  ShotInv' /\ RS!Abandon
  <1>1. /\ UNCHANGED <<submitted, result, snapshot, finalized, frame, ret, rec, status>>
        /\ completed' = submitted
        /\ pc["coord"] = "cancelled" /\ pc'["coord"] = "cancelNotify"
        /\ pc'["user"] = pc["user"]
    BY DEF Cancelled, At, Goto, ControlInv, ControlType, Threads, Callers, engine, dispatch,
           results, locals, call
  <1>2. frame = "loop" /\ lc.active
    BY <1>1 DEF ControlInv, CoordAt, Frames, WaitSteps, Failing, LifecycleInv, TokenHeld,
                InSession, Leaving
  <1>3. lc'.active = lc.active /\ lc'.needsReset = TRUE
    BY CancelledFlags DEF LifecycleInv, GraphType, LifecycleFlags
  <1>4. Busy' <=> Busy
    BY <1>1 DEF Busy, Trying, PublishSteps, FinalAccepted
  <1>5. ShotInv'
    BY <1>1, <1>2, <1>3, <1>4 DEF ShotInv, InOrderUntilFailed, FailMarked, ClosedByFlush,
                                  Busy, Tiled, Failing
  <1> QED
    BY <1>1, <1>2, <1>3, <1>5 DEF RS!Abandon

\* The session ends with nothing queued.
LEMMA InactivateShot ==
    ASSUME ControlInv, LifecycleInv, ShotInv, Inactivate
    PROVE  ShotInv' /\ RS!Close
  <1>1. /\ UNCHANGED <<submitted, completed, result, snapshot, finalized, frame, ret, rec,
                       status>>
        /\ pc["coord"] = "inactivate" /\ pc'["coord"] = "wait" /\ pc'["user"] = pc["user"]
    BY DEF Inactivate, At, Goto, ControlInv, ControlType, Threads, Callers, engine, dispatch,
           ring, results, locals, call
  <1>2. frame = "loop" /\ lc.active /\ completed = submitted
    BY <1>1 DEF ControlInv, CoordAt, Frames, WaitSteps, Failing, LifecycleInv, TokenHeld,
                InSession, Leaving, Accounted
  <1>3. lc'.active = FALSE /\ lc'.needsReset = lc.needsReset
    BY InactivateFlags DEF LifecycleInv, GraphType, LifecycleFlags
  <1>4. Busy' <=> Busy
    BY <1>1 DEF Busy, Trying, PublishSteps, FinalAccepted
  <1>5. ShotInv'
    BY <1>1, <1>2, <1>3, <1>4 DEF ShotInv, InOrderUntilFailed, FailMarked, ClosedByFlush,
                                  Busy, Tiled, Failing
  <1> QED
    BY <1>1, <1>2, <1>3, <1>5 DEF RS!Close

\* A shot that is flushed has nothing left to admit.
LEMMA AdmitShot ==
    ASSUME ControlInv, RingInv, ContextInv, LifecycleInv, ShotInv, Admit \/ FlushAdmit
    PROVE  ShotInv' /\ UNCHANGED RS!vars
  <1>1. /\ UNCHANGED <<submitted, completed, result, snapshot, finalized, lc, frame, ret, rec,
                       status>>
        /\ pc["coord"] \in {"admit", "flush"} /\ pc'["coord"] \in {"admit", "step"}
        /\ pc'["user"] = pc["user"]
    BY DEF Admit, FlushAdmit, At, Goto, ControlInv, ControlType, Threads, Callers, store, ring,
           graph, results, locals, call
  <1>2. frame = "dispatch" /\ Tiled /\ lc.active
    BY <1>1 DEF ControlInv, CoordAt, Frames, WaitSteps, Leaving, Tiled, LifecycleInv,
                TokenHeld, InSession
  <1>3. /\ completed <= admitted /\ completed \in Nat /\ admitted \in Nat
        /\ submitted \in Nat
    BY <1>2 DEF RingInv, RingType, ContextInv, DispatchType, Admission
  <1>4. Admit => ~finalized
    <2>1. Admit => admitted < submitted
      BY DEF Admit
    <2>2. finalized => completed = submitted
      BY <1>2 DEF ShotInv, ClosedByFlush
    <2> QED
      BY <1>3, <2>1, <2>2
  <1>5. FlushAdmit => ~finalized
    BY <1>2 DEF FlushAdmit, ShotInv, ClosedByFlush
  <1>6. InOrderUntilFailed' /\ FailMarked'
    BY <1>1, <1>2 DEF ShotInv, InOrderUntilFailed, FailMarked, Failing, Broken
  <1>7. ClosedByFlush'
    BY <1>1, <1>4, <1>5 DEF ClosedByFlush
  <1> QED
    BY <1>1, <1>6, <1>7 DEF ShotInv, RS!vars

\* A failure is stored and published at once.
LEMMA FailShot ==
    ASSUME ControlInv, LifecycleInv, ShotInv, Fail
    PROVE  ShotInv' /\ RS!Fail
  <1>1. /\ UNCHANGED <<submitted, completed, finalized, frame, ctxs, finalPending,
                       flushAdmitted, ret, rec, status>>
        /\ result' = "failed" /\ snapshot' = "failed"
        /\ pc["coord"] = "fail" /\ pc'["coord"] = "failClose" /\ pc'["user"] = pc["user"]
    BY DEF Fail, At, Goto, ControlInv, ControlType, Threads, Callers, engine, dispatch,
           admission, ring, locals, call
  <1>2. frame = "dispatch" /\ Tiled /\ lc.active
    BY <1>1 DEF ControlInv, CoordAt, Frames, WaitSteps, Leaving, Tiled, LifecycleInv,
                TokenHeld, InSession
  <1>3. lc'.active = lc.active /\ lc'.needsReset = TRUE /\ lc'.failed
    BY FailFlags DEF LifecycleInv, GraphType, LifecycleFlags
  <1>4. ~lc.needsReset
    BY <1>1, <1>2 DEF ShotInv, InOrderUntilFailed, Broken, Failing
  <1>5. Busy' <=> Busy
    BY <1>1 DEF Busy, Trying, PublishSteps, FinalAccepted
  <1>6. InOrderUntilFailed' /\ FailMarked'
    BY <1>1, <1>3 DEF InOrderUntilFailed, FailMarked, Broken, Failing
  <1>7. ClosedByFlush'
    BY <1>1, <1>2, <1>3, <1>5 DEF ShotInv, ClosedByFlush, Busy
  <1> QED
    BY <1>1, <1>2, <1>3, <1>4, <1>6, <1>7 DEF ShotInv, RS!Fail

\* Only a graph marked as failed has what is queued covered.
LEMMA FailCoverShot ==
    ASSUME ControlInv, LifecycleInv, ShotInv, FailCover
    PROVE  ShotInv' /\ RS!Abandon
  <1>1. /\ UNCHANGED <<submitted, result, snapshot, finalized, lc, frame, ret, rec, status>>
        /\ completed' = submitted
        /\ pc["coord"] = "failCover" /\ pc'["coord"] = "failNotify"
        /\ pc'["user"] = pc["user"]
    BY DEF FailCover, At, Goto, ControlInv, ControlType, Threads, Callers, engine, dispatch,
           graph, results, locals, call
  <1>2. frame = "dispatch" /\ lc.active
    BY <1>1 DEF ControlInv, CoordAt, Frames, WaitSteps, Leaving, LifecycleInv, TokenHeld,
                InSession
  <1>3. lc.needsReset
    BY <1>1 DEF ShotInv, FailMarked, Failing
  <1>4. lc'.needsReset = TRUE
    BY <1>1, <1>3 DEF LifecycleInv, GraphType, LifecycleFlags
  <1>5. Busy' <=> Busy
    BY <1>1 DEF Busy, Trying, PublishSteps, FinalAccepted
  <1>6. ShotInv'
    BY <1>1, <1>3, <1>5 DEF ShotInv, InOrderUntilFailed, FailMarked, ClosedByFlush, Busy,
                            Tiled, Failing, Broken
  <1> QED
    BY <1>1, <1>2, <1>4, <1>6 DEF RS!Abandon

\* Retiring the oldest context folds what it covers into the result. A flush
\* is the only context left when it is retired, and FINAL, the last record
\* accepted, the only one queued.
LEMMA RetireShot ==
    ASSUME ControlInv, LifecycleInv, RingInv, ContextInv, ShotInv, Retire
    PROVE  ShotInv' /\ (RS!Fold \/ RS!Flush)
  <1> DEFINE c == ctxs[1]
  <1>1. /\ Tiled /\ ctxs # <<>> /\ ctxs' = Tail(ctxs)
        /\ pc'["user"] = pc["user"] /\ pc'["coord"] \in {"retire", "retireNotify"}
        /\ UNCHANGED <<submitted, lc, frame, finalPending, flushAdmitted>>
        /\ completed' = IF c.closes THEN c.seq + 1 ELSE completed
        /\ completed' \in Nat /\ completed <= completed' /\ completed' <= submitted
        /\ c \in ContextRange /\ Covers(c) /\ ClosesWhat(c) /\ c.first = completed
    BY RetireCounts
  <1>2. Head(ctxs) = c
    BY <1>1, TailFacts DEF ContextInv, DispatchType
  <1>3. pc["coord"] = "retire" /\ UNCHANGED <<ret, rec, status>>
    BY DEF Retire, At, locals, call
  <1>4. frame = "dispatch" /\ lc.active /\ ~lc.needsReset /\ ~finalized
    BY <1>1, <1>3 DEF Tiled, LifecycleInv, TokenHeld, InSession, ShotInv, InOrderUntilFailed,
                      ClosedByFlush, Broken, Failing
  <1>5. InOrderUntilFailed' /\ FailMarked'
    BY <1>1, <1>4 DEF InOrderUntilFailed, FailMarked, Broken, Failing
  <1>6. CASE c.flush
    <2>1. /\ result' = "final" /\ snapshot' = "final" /\ finalized' = TRUE
      BY <1>2, <1>6 DEF Retire
    <2>2. /\ flushAdmitted /\ finalPending /\ c.closes /\ c.seq = admitted - 1
          /\ c.first = c.seq /\ admitted = submitted /\ lc.finish /\ pc["user"] # "publish"
      BY <1>1, <1>6 DEF ClosesWhat, ContextInv, Admission
    <2>3. submitted \in Nat /\ completed \in Nat /\ completed = submitted - 1
      BY <1>1, <2>2 DEF RingInv, RingType
    <2>4. completed' = submitted /\ submitted = completed + 1
      BY <1>1, <2>2, <2>3
    <2>5. ctxs' = <<>>
      <3>1. ctxs \in Seq(ContextRange)
        BY DEF ContextInv, DispatchType
      <3>2. Len(ctxs) \in Nat /\ DOMAIN ctxs = 1..Len(ctxs) /\ Len(ctxs) # 0
        BY <1>1, <3>1
      <3>3. Len(ctxs) <= 1
        <4>1. SUFFICES ASSUME Len(ctxs) >= 2 PROVE FALSE
          BY <3>2
        <4>2. 1 \in DOMAIN ctxs /\ 2 \in DOMAIN ctxs
          BY <3>2, <4>1
        <4> QED
          BY <1>1, <1>6, <4>2 DEF ContextInv, ContextsLined
      <3>4. Len(ctxs) = 1
        BY <3>2, <3>3
      <3> QED
        BY <1>1, <3>1, <3>4
    <2>6. ~Trying
      BY <2>2 DEF LifecycleInv, KeptOpen
    <2>7. ~Trying' /\ pc'["user"] # "publish"
      BY <1>1, <1>3, <2>2, <2>6 DEF Trying, FinalAccepted
    <2>8. ClosedByFlush'
      BY <1>1, <2>2, <2>4, <2>5, <2>7 DEF ClosedByFlush
    <2> QED
      BY <1>1, <1>4, <1>5, <2>1, <2>4, <2>8 DEF ShotInv, RS!Flush
  <1>7. CASE ~c.flush
    <2>1. /\ result' = "partial" /\ snapshot' \in {snapshot, "partial"}
          /\ finalized' = (finalized \/ c.flush)
      BY <1>2, <1>7 DEF Retire
    <2>2. finalized' = finalized /\ ~finalized'
      BY <1>4, <1>7, <2>1 DEF LifecycleInv, GraphType
    <2>3. completed' \in completed..submitted
      BY <1>1 DEF RingInv, RingType
    <2> QED
      BY <1>1, <1>4, <1>5, <2>1, <2>2, <2>3 DEF ShotInv, ClosedByFlush, RS!Fold
  <1> QED
    BY <1>6, <1>7

-----------------------------------------------------------------------------
(* The refinement.                                                         *)

\* Every step keeps ShotInv and is a step of the contract, or none.
LEMMA NextShot ==
    ASSUME StreamInv, ShotInv, [Next]_vars
    PROVE  ShotInv' /\ [RS!Next]_RS!vars
  <1> USE StreamParts DEF RS!Next
  <1>1. CASE \E t \in Callers : CallerNext(t)
    BY <1>1, CallerShot, ShotFramed, CancelEndShot, ResetApplyShot
  <1>2. CASE UserNext
    BY <1>2, UserShot, ShotFramed, EnqueueShot, TryPublishShot, ClearApplyShot
  <1>3. CASE StartNext
    BY <1>3, StartShot, ShotFramed
  <1>4. CASE CoordNext
    BY <1>4, CoordShot, ShotFramed, LoopCheckShot, CancelledShot, InactivateShot, RetireShot,
       AdmitShot, FailShot, FailCoverShot
  <1>5. CASE WorkerNext
    BY <1>5, WorkerShot, ShotFramed DEF ContextInv
  <1>6. CASE Destroyed \/ UNCHANGED vars
    BY <1>6 DEF Destroyed, vars, world, store, ring, graph, results, engine, dispatch,
       admission, locals, call, ShotInv, InOrderUntilFailed, FailMarked, ClosedByFlush, Tiled,
       Trying, FinalAccepted, RS!vars
  <1> QED
    BY <1>1, <1>2, <1>3, <1>4, <1>5, <1>6 DEF Next

\* The stream implements the contract of begin_async_streaming to
\* cancel_async_streaming, for any ring, any number of contexts, records and
\* calls: whatever the threads interleave, a record leaves the queue folded,
\* in its turn, or the graph needs a reset; nothing enters or is folded into
\* a shot that FINAL closed; and no session opens on a graph that is failed,
\* closed or not drained.
THEOREM StreamImplementsContract == Spec => ImplementsRecordStream
  <1>1. Init => ShotInv /\ RS!Init
    BY DEF Init, ShotInv, InOrderUntilFailed, FailMarked, ClosedByFlush, Tiled, Failing,
           Threads, Callers, RS!Init
  <1>2. StreamInv /\ ShotInv /\ [Next]_vars => ShotInv' /\ [RS!Next]_RS!vars
    BY NextShot
  <1> QED
    BY <1>1, <1>2, StreamInvariant, PTL DEF Spec, RS!Spec, ImplementsRecordStream
============================================================================
