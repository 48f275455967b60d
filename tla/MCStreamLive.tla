---------------------------- MODULE MCStreamLive ----------------------------
(***************************************************************************)
(* Liveness of AsyncStream for TLC.  A behaviour follows one scenario: the *)
(* calls its threads make and the records the user sends.  A scenario only *)
(* restricts which calls begin; whatever has begun runs as in FairSpec.    *)
(***************************************************************************)
EXTENDS MCAsyncStream

VARIABLE scenario

Scenario(calls, records) == [calls |-> calls, records |-> records]

\* A second record that waits for the only slot, and a watchdog that resets
\* while the user is idle or behind FINAL; a reader beside a stream that is
\* consumed and destroyed.
Scenarios == {Scenario(LiveCalls, 2), Scenario(ReaderCalls, 1)}

Scripted ==
    /\ \A t \in Callers : op[t] = "none" /\ op'[t] # "none" =>
         /\ <<t, op'[t]>> \in scenario.calls
         /\ op'[t] = "enqueue" => submitted < scenario.records
    /\ UNCHANGED scenario

LiveInit == Init /\ scenario \in Scenarios

LiveSpec ==
    /\ LiveInit
    /\ [][Next /\ Scripted]_<<vars, scenario>>
    /\ Fairness
=============================================================================
