--------------------------- MODULE MCParkHandshake ---------------------------
(***************************************************************************)
(* Both handshakes of ParkHandshake in one instance for TLC: a behaviour   *)
(* is one of CountSpec or one of ExchangeSpec.                             *)
(***************************************************************************)
EXTENDS ParkHandshake

VARIABLE handshake

Counts == handshake = "count" /\ UNCHANGED handshake
Exchanges == handshake = "exchange" /\ UNCHANGED handshake

HandshakeInit == Init /\ handshake \in {"count", "exchange"}

HandshakeSpec ==
    /\ HandshakeInit
    /\ [][(Counts /\ CountNext) \/ (Exchanges /\ ExchangeNext)]_<<vars, handshake>>
    /\ WF_vars(Counts /\ (Publish \/ NotifyIfWaiting))
    /\ WF_vars(Counts /\ CountWaiter)
    /\ WF_vars(Exchanges /\ (Publish \/ ExchangeWaiting \/ BumpAndNotify))
    /\ WF_vars(Exchanges /\ ExchangeWaiter)
    /\ \A t \in Threads : WF_vars(UNCHANGED handshake /\ Drain(t))

\* The coordinator catches up with everything published: the exchange of
\* wake_async_stream_for_record against wait_for_async_wake loses no wake-up,
\* "a producer either sees it and wakes us or we see its record".
ExchangeCatchesUp == handshake = "exchange" => WaiterCatchesUp
==============================================================================
