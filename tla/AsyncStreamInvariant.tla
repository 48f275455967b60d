------------------------ MODULE AsyncStreamInvariant ------------------------
(***************************************************************************)
(* The inductive invariant of AsyncStream, in five parts: where the three  *)
(* threads can be and who is counted as waiting, who keeps a session open  *)
(* and who ends it, what the ring and the contexts in flight hold, and     *)
(* which contexts the workers execute. Two more rest on it: FinalInv, for  *)
(* what FINAL returns, and ShotInv, for what a shot may still take.        *)
(***************************************************************************)
EXTENDS AsyncStream

-----------------------------------------------------------------------------
(* Control: every thread is at a step of the call it makes, a helper is    *)
(* entered only from the calls that use it, and the waiter counters count. *)

InHelper(t, steps, back) == pc[t] \in steps /\ ret[t] \in back
InBody(t, steps) == pc[t] \in steps /\ ret[t] = "idle"

ReadSteps(t) ==
    \/ InHelper(t, {"wpAdvertise", "wpCheck"}, {"syncTarget"})
    \/ InHelper(t, {"wake", "wakeNotify", "change", "changeCheck"}, {"syncWait"})
    \/ InBody(t, {"syncTarget", "syncWait"})

EnqueueSteps(t) ==
    \/ InHelper(t, {"inactive"}, {"enq", "finEnd"})
    \/ InHelper(t, {"wake", "wakeNotify"}, {"try"})
    \/ InHelper(t, {"change", "changeCheck"}, {"slot", "finWait"})
    \/ InBody(t, {"enq", "accept", "try", "tryCheck", "write", "publish", "release",
                  "releaseNotify", "recWake", "recNotify", "slot", "finish",
                  "finWait", "finCheck", "finEnd"})

ClearSteps(t) ==
    \/ InHelper(t, {"inactive"}, {"clear", "drainEnd"})
    \/ InHelper(t, {"wpAdvertise", "wpCheck"}, {"drain"})
    \/ InHelper(t, {"wake", "wakeNotify"}, {"drainWait"})
    \/ InBody(t, {"clear", "drain", "drainWait", "drainEnd", "clearApply"})

ResetSteps(t) ==
    \/ InHelper(t, {"inactive"}, {"reset", "cancelEnd"})
    \/ InHelper(t, {"wpAdvertise", "wpCheck"}, {"cancel"})
    \/ InHelper(t, {"wake", "wakeNotify"}, {"cancelWait"})
    \/ InBody(t, {"reset", "cancel", "cancelWait", "cancelEnd", "resetApply"})

DestroySteps(t) ==
    \/ InHelper(t, {"inactive"}, {"shutdown"})
    \/ InHelper(t, {"wake", "wakeNotify"}, {"cancelWait", "join"})
    \/ InBody(t, {"cancelWait", "shutdown", "join"})

CallerAt(t) ==
    \/ op[t] = "none" /\ InBody(t, {"idle"})
    \/ op[t] = "read" /\ ReadSteps(t)
    \/ op[t] = "reset" /\ ResetSteps(t)
    \/ t = "user" /\ op[t] = "enqueue" /\ EnqueueSteps(t)
    \/ t = "user" /\ op[t] = "clear" /\ ClearSteps(t)
    \/ t = "user" /\ op[t] = "destroy" /\ DestroySteps(t)

WaitSteps == {"wait", "ready", "park", "withdraw", "observe"}
Leaving == {"cancelled", "cancelNotify", "deactivate", "inactivate"}
Failing == {"fail", "failClose", "wpAdvertise", "wpCheck", "failCover", "failNotify"}

CoordAt ==
    /\ frame = "loop" =>
         pc["coord"] \in WaitSteps \union {"check", "over", "ending", "exit"} \union Leaving
    /\ frame = "dispatch" =>
         pc["coord"] \in WaitSteps \union Failing \union
              {"step", "retire", "retireNotify", "admit", "flush", "discard"}
    /\ ret["coord"] = IF pc["coord"] \in {"wpAdvertise", "wpCheck"} THEN "failCover"
                                                                 ELSE "idle"

\* The guard the producer holds while it publishes.
Guarded == {"tryCheck", "write", "publish", "release"}
GuardHeld == producerActive <=> pc["user"] \in Guarded

One(p) == IF p THEN 1 ELSE 0

WaitersCounted ==
    /\ producerWaiters = One(pc["user"] = "wpCheck") + One(pc["ctl"] = "wpCheck")
                           + One(pc["coord"] = "wpCheck")
    /\ completionWaiters = One(pc["user"] = "changeCheck") + One(pc["ctl"] = "changeCheck")

\* The outcome of a try is kept only until the guard is released.
StatusKept == pc["user"] \notin {"release", "releaseNotify"} => status = "accepted"

ControlInv ==
    /\ ControlType /\ ParkingType /\ frame \in Frames
    /\ \A t \in Callers : CallerAt(t)
    /\ CoordAt /\ GuardHeld /\ WaitersCounted /\ StatusKept

-----------------------------------------------------------------------------
(* Lifecycle: who keeps a session open, and who ends it.                   *)

\* A session in progress is active and holds the single-flight token, which
\* is given back just before the session reads as inactive.
InSession ==
    frame = "dispatch" \/ pc["coord"] \in {"over", "ending"} \union Leaving

TokenHeld ==
    /\ InSession => lc.active
    /\ inFlight = One(lc.active /\ pc["coord"] # "inactivate")

\* The watchdog resets only beside a user that publishes nothing.
Contract == op["ctl"] = "reset" => op["user"] \in {"none", "read"} \/ BehindFinal

\* A call past its wait for the session finds it inactive.
Released ==
    \A t \in Callers :
        pc[t] \in {"drainEnd", "clearApply", "cancelEnd", "resetApply", "shutdown"}
            => ~lc.active

\* A caller that asked for a cancel and waits for the session to end.
Canceller ==
    \E t \in Callers :
        pc[t] = "cancelWait" \/ ret[t] \in {"cancelWait", "cancelEnd", "shutdown"}

CancelArmed ==
    /\ lc.active /\ lc.cancel => Canceller
    /\ pc["coord"] \in {"cancelled", "cancelNotify"} => lc.cancel

PublishSteps == {"publish", "release", "releaseNotify", "recWake", "recNotify"}
FinalAccepted == rec.type = "FINAL" /\ status = "accepted"

\* The user is publishing a record that does not close the session.
Trying ==
    \/ pc["user"] \in {"accept", "try", "tryCheck", "write", "slot"}
    \/ ret["user"] \in {"try", "slot"}
    \/ pc["user"] \in PublishSteps /\ ~FinalAccepted

\* The user has written FINAL, and waits for what it returns.
AfterFinal ==
    \/ pc["user"] \in PublishSteps /\ FinalAccepted
    \/ pc["user"] \in {"finish", "finWait", "finCheck", "finEnd"}
    \/ ret["user"] \in {"finWait", "finEnd"}

Draining == pc["user"] = "drainWait" \/ ret["user"] \in {"drainWait", "drainEnd"}

\* Nothing ends a session under a user that publishes.
KeptOpen ==
    /\ Trying => lc.active /\ ~lc.finish /\ ~lc.cancel
    /\ pc["user"] = "enq" /\ lc.active => ~lc.finish /\ ~lc.cancel
    /\ pc["user"] = "publish" => lc.active

\* A finish covers all that was submitted, and whoever asked for it waits.
Finishing ==
    /\ (lc.active /\ lc.finish) \/ AfterFinal =>
         lc.target = submitted + One(pc["user"] = "publish")
    /\ AfterFinal => lc.finish
    /\ lc.active /\ lc.finish /\ completed < lc.target =>
         (AfterFinal /\ pc["user"] # "finEnd") \/ Draining
    /\ pc["coord"] \in {"deactivate", "inactivate"} =>
         Canceller \/ (lc.finish /\ completed >= lc.target)

\* All that a closed session accepted is accounted for.
Accounted ==
    /\ ~lc.active => completed = submitted
    /\ pc["coord"] \in {"cancelNotify", "deactivate", "inactivate"} =>
         completed = submitted
    /\ pc["user"] = "accept" => completed = submitted

FailedNeedsReset == result = "failed" => lc.needsReset

LifecycleInv ==
    /\ GraphType /\ TokenHeld /\ Contract /\ Released /\ CancelArmed /\ KeptOpen
    /\ Finishing /\ Accounted /\ FailedNeedsReset

-----------------------------------------------------------------------------
(* The ring: what it holds between completed and submitted.                *)

Window == completed..(submitted - 1)

\* The producer's check of the counters stays valid until it publishes, and
\* what it publishes is the record it was given.
Publishing ==
    /\ pc["user"] \in {"write", "publish"} => submitted - completed < Capacity
    /\ pc["user"] = "publish" =>
         SlotAt(submitted) = [id |-> submitted, type |-> rec.type, len |-> rec.len]

\* The ring holds the records not retired; FINAL can only be the last one.
WindowHeld ==
    \A n \in Window :
        /\ SlotAt(n).id = n /\ SlotAt(n).len # 0
        /\ SlotAt(n).type = "FINAL" =>
             n = submitted - 1 /\ lc.finish /\ pc["user"] # "publish"

\* While the window still holds FINAL, it is there.
FinalHeld ==
    AfterFinal /\ completed < lc.target => SlotAt(lc.target - 1).type = "FINAL"

RingInv == RingType /\ WaitType /\ RingBound /\ Publishing /\ WindowHeld /\ FinalHeld

-----------------------------------------------------------------------------
(* The contexts in flight.                                                 *)

\* A running session, up to the point where a failure covers what is queued.
Tiled == frame = "dispatch" /\ pc["coord"] \notin {"failNotify", "discard"}

Admission ==
    Tiled =>
      /\ completed <= admitted /\ admitted <= submitted
      /\ cutAt # 0 =>
           /\ admitted < submitted /\ cutAt < SlotAt(admitted).len
           /\ RecordBytes # 0 /\ SlotAt(admitted).type # "NONE"
      /\ finalPending =>
           admitted = submitted /\ cutAt = 0 /\ lc.finish /\ pc["user"] # "publish"
      /\ flushAdmitted => finalPending

\* A context covers records between the last retired and the next admitted.
Covers(c) ==
    /\ completed <= c.first /\ c.first <= c.seq /\ c.seq < submitted
    /\ c.seq < admitted \/ (c.seq = admitted /\ ~c.last /\ cutAt # 0)
    /\ c.last \/ c.hi # 0
    /\ c.closes => c.last
    /\ ~c.closes => c.first = c.seq

\* A context that is not a flush closes its sequences unless it holds a piece,
\* or the end, of the record behind which the flush comes.
ClosesWhat(c) ==
    /\ ~c.flush /\ c.closes => \A n \in c.first..c.seq : SlotAt(n).type # "FINAL"
    /\ ~c.flush /\ c.closes /\ finalPending => c.seq < admitted - 1
    /\ ~c.flush /\ c.last /\ ~c.closes => finalPending /\ c.seq = admitted - 1
    /\ c.flush => flushAdmitted /\ c.closes /\ c.last /\ c.seq = admitted - 1
                    /\ c.first = c.seq

Precedes(c, d) == IF c.closes THEN c.seq < d.first ELSE c.seq <= d.first

ContextsLined ==
    Tiled =>
      /\ \A i \in DOMAIN ctxs : Covers(ctxs[i]) /\ ClosesWhat(ctxs[i])
      /\ \A i, j \in DOMAIN ctxs : i < j =>
           Precedes(ctxs[i], ctxs[j]) /\ ~ctxs[i].flush
      /\ flushAdmitted /\ ctxs # <<>> => ctxs[Len(ctxs)].flush

\* What is read in place is still there.
InPlaceHeld ==
    \A i \in DOMAIN ctxs :
        ctxs[i].inPlace /\ ~ctxs[i].flush => SlotAt(ctxs[i].seq).id = ctxs[i].seq

\* Behind a failure no record is published over the contexts not yet dropped.
Sealed ==
    /\ pc["coord"] \in {"wpAdvertise", "wpCheck", "failCover", "failNotify", "discard"}
         /\ ctxs # <<>> => lc.cancel \/ (~lc.accepting /\ pc["user"] # "accept")
    /\ pc["coord"] \in {"failCover", "failNotify", "discard"} /\ ctxs # <<>> =>
         lc.cancel \/ pc["user"] # "write"

LoopIsEmpty == frame = "loop" => ctxs = <<>>

ContextInv ==
    /\ DispatchType /\ Admission /\ ContextsLined /\ InOrder /\ InPlaceHeld /\ Sealed
    /\ LoopIsEmpty

-----------------------------------------------------------------------------
(* Workers: the counter of executing workers never exceeds the contexts    *)
(* that execute, and is short of them by at most one for each worker that  *)
(* failed holding none.                                                    *)

Executing == {i \in DOMAIN ctxs : ctxs[i].exec = "running"}

WorkerInv ==
    /\ SchedType
    /\ running <= Cardinality(Executing)
    /\ Cardinality(Executing) <= running + idleFailed
    /\ frame = "dispatch" /\ stop /\ ~stopError => lc.cancel
    /\ frame = "dispatch" /\ pc["coord"] \in Failing \union {"discard"} =>
         stop /\ running = 0

StreamInv == ControlInv /\ LifecycleInv /\ RingInv /\ ContextInv /\ WorkerInv

-----------------------------------------------------------------------------
(* The answer to FINAL, as long as no watchdog resets the graph under it.  *)

\* A FINAL that no failure or cancel answered returns the flushed result.
FinalAnswered ==
    AfterFinal /\ ~lc.failed /\ ~lc.needsReset /\ completed >= lc.target =>
      finalized /\ snapshot = "final"

\* finish_async_streaming does not return before the ring has reached FINAL.
FinEndSettled == pc["user"] = "finEnd" => completed >= lc.target

\* A failure is marked before it covers what is queued.
FailMarked == pc["coord"] \in Failing \ {"fail"} => lc.needsReset

FinalInv ==
    FinalAnswered /\ FinEndSettled /\ FailMarked /\ op["ctl"] # "reset"

-----------------------------------------------------------------------------
(* The shot: what a session folds into, and when it must not.              *)

Broken == (Failing \ {"fail"}) \union {"discard"}

\* A session works on a graph in order, until it fails; one that goes on to
\* be active on a graph that needs a reset has failed or was cancelled.
InOrderUntilFailed ==
    /\ frame = "dispatch" /\ pc["coord"] \notin Broken => ~lc.needsReset
    /\ lc.active /\ lc.needsReset =>
         lc.failed \/ pc["coord"] \in {"cancelNotify", "deactivate", "inactivate"}

\* Nothing follows the flush: no record is on its way, none is queued, and no
\* context is left.
ClosedByFlush ==
    /\ finalized => ~Trying /\ pc["user"] # "publish"
    /\ finalized /\ lc.active => completed = submitted
    /\ finalized /\ Tiled => ctxs = <<>> /\ (finalPending => flushAdmitted)

ShotInv == InOrderUntilFailed /\ FailMarked /\ ClosedByFlush
============================================================================
