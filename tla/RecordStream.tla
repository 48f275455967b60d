---------------------------- MODULE RecordStream ----------------------------
(***************************************************************************)
(* What an asynchronous graph promises its callers (the comments on        *)
(* begin_async_streaming to cancel_async_streaming in                      *)
(* decoding_task_graph_impl.h): a session accepts records into a bounded   *)
(* queue and folds them into the result in order. A record leaves the      *)
(* queue unfolded only if the graph is marked as needing a reset. A shot   *)
(* that FINAL flushed takes no further record until it is consumed, and a  *)
(* graph that needs a reset opens no session. Threads, slots, contexts,    *)
(* workers and parking do not appear here.                                 *)
(***************************************************************************)
EXTENDS Integers

CONSTANT Capacity   \* records the queue holds

VARIABLES
    open,        \* a session is active
    accepted,    \* records accepted, and
    done,        \* records that have left the queue
    result,      \* the graph's result: "pending", "partial", "final", "failed"
    published,   \* what the session published of it last, or "none"
    finalized,   \* FINAL's flush is part of the result
    needsReset   \* nothing but a reset is of use

vars == <<open, accepted, done, result, published, finalized, needsReset>>

Init ==
    /\ open = FALSE /\ accepted = 0 /\ done = 0
    /\ result = "pending" /\ published = "none"
    /\ finalized = FALSE /\ needsReset = FALSE

\* A session starts with an empty queue, on a graph in order.
Open ==
    /\ ~open /\ ~finalized /\ ~needsReset
    /\ result # "failed" /\ done = accepted
    /\ open' = TRUE /\ published' = "none"
    /\ UNCHANGED <<accepted, done, result, finalized, needsReset>>

Accept ==
    /\ open /\ ~finalized /\ accepted - done < Capacity
    /\ accepted' = accepted + 1
    /\ UNCHANGED <<open, done, result, published, finalized, needsReset>>

\* Records, or a piece of one, are folded into the result; the session need
\* not publish what changed nothing.
Fold ==
    /\ open /\ ~finalized /\ ~needsReset
    /\ done' \in done..accepted
    /\ result' = "partial" /\ published' \in {published, "partial"}
    /\ UNCHANGED <<open, accepted, finalized, needsReset>>

\* The flush behind FINAL, which is the last record accepted.
Flush ==
    /\ open /\ ~finalized /\ ~needsReset
    /\ accepted = done + 1 /\ done' = accepted
    /\ result' = "final" /\ published' = "final" /\ finalized' = TRUE
    /\ UNCHANGED <<open, accepted, needsReset>>

Fail ==
    /\ open /\ ~needsReset
    /\ result' = "failed" /\ published' = "failed" /\ needsReset' = TRUE
    /\ UNCHANGED <<open, accepted, done, finalized>>

\* A failure or a cancel drops what is queued.
Abandon ==
    /\ open
    /\ done' = accepted /\ needsReset' = TRUE
    /\ UNCHANGED <<open, accepted, result, published, finalized>>

Close ==
    /\ open /\ done = accepted
    /\ open' = FALSE
    /\ UNCHANGED <<accepted, done, result, published, finalized, needsReset>>

\* clear_corrections: a failed result stays.
Consume ==
    /\ ~open
    /\ result' = IF result = "failed" THEN "failed" ELSE "pending"
    /\ published' = "none" /\ finalized' = FALSE
    /\ UNCHANGED <<open, accepted, done, needsReset>>

\* A cancel that was honoured takes its session's publication with it, ...
Withdraw ==
    /\ ~open
    /\ published' = "none"
    /\ UNCHANGED <<open, accepted, done, result, finalized, needsReset>>

\* ... and the reset behind it makes the graph usable again, or fails.
Reset ==
    /\ ~open
    /\ published' = "none" /\ finalized' = FALSE
    /\ \E ok \in BOOLEAN : /\ needsReset' = ~ok
                           /\ result' = IF ok THEN "pending" ELSE "failed"
    /\ UNCHANGED <<open, accepted, done>>

Next ==
    \/ Open \/ Accept \/ Fold \/ Flush \/ Fail \/ Abandon \/ Close
    \/ Consume \/ Withdraw \/ Reset

Spec == Init /\ [][Next]_vars
=============================================================================
