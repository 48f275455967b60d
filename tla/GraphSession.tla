---------------------------- MODULE GraphSession ----------------------------
(***************************************************************************)
(* A decoding server session around a streaming task graph                 *)
(* (DecodingSession.cpp, decode_target.h): the client enqueues rounds and  *)
(* reads or consumes the result, while the graph's dispatcher retires the  *)
(* records of the queue in order (retire_record_context), several queued   *)
(* operations at a time or a long one in pieces, and publishes snapshots.  *)
(*                                                                         *)
(* What the nodes publish for an operation is fixed when it is enqueued:   *)
(* every node sees the rounds in order (RecordScheduler).  `twin' is the   *)
(* synchronous graph that gets the same operations one at a time, so that  *)
(* the two can be compared.                                                *)
(***************************************************************************)
EXTENDS StreamResult, TLC

CONSTANTS
    Topologies,   \* the graphs to check, by name
    MaxResets,    \* bound: resets of one behaviour
    MaxQueued     \* the ring's capacity

\* Outputs are numbered, and lengths are naturals.
IsTopology(t) ==
    /\ t.outputs \in Seq(Range(t.outputs)) /\ t.outputs # <<>>
    /\ t.record \in Nat /\ t.sizes \subseteq Nat

ASSUME GraphAssumption ==
    /\ MaxResets \in Nat /\ MaxQueued \in Nat
    /\ \A x \in DOMAIN Topologies : IsTopology(Topologies[x])

VARIABLES
    graph,        \* the graph's result state
    queue,        \* accepted operations that have not retired
    cut,          \* rounds of the first one already retired
    flushing,     \* its body has retired, its FINAL flush has not
    retiring,     \* retiring_generation and retiring_revision
    snapshot,     \* result_snapshot, snapshot_valid and read_snapshot
    stream,       \* the nodes: rounds seen, committed and accumulated
    call,         \* "final" while FINAL's enqueue waits for its result
    session,      \* shot_state, the frozen graph_result_ and decode_count
    reply,        \* the last response
    \* history: the synchronous twin, its completed operations when the session
    \* last looked, and the failures the environment caused
    twin, seen, injected

dispatcher == <<cut, flushing, retiring>>
history    == <<twin, seen, injected>>
vars == <<topology, graph, queue, dispatcher, snapshot, stream, call, session,
          reply, history>>

----------------------------------------------------------------------------
(* The nodes.  A window commits its interval of rounds in the operation    *)
(* that brings the last round it waits for, or at FINAL, cut to the shot;  *)
(* a native decoder commits as it likes; a fixed one fires on its          *)
(* schedule; a readout publishes as its reading rounds arrive.             *)

NodesOf(kind) == {n \in topology.nodes : topology.kind[n] = kind}

\* The flips node n found in rounds [from, to) of the current shot.
Flips(n, from, to) ==
    {[shot |-> stream.shot, node |-> n, round |-> r] : r \in from .. to - 1}

Publication(n, at, cover, bits) ==
    [node |-> n, at |-> at, cover |-> cover, bits |-> bits, fired |-> TRUE]

\* FINAL captures a node that did not fire as well, with what it last covered.
Unfired(n, at) ==
    [Publication(n, at, stream.cover[n], stream.held[n]) EXCEPT !.fired = FALSE]

CleanStream(shot) ==
    [shot |-> shot, rounds |-> 0,
     committed |-> [n \in topology.nodes |-> 0],
     held      |-> [n \in topology.nodes |-> {}],   \* correction_frame_, corr_
     cover     |-> [n \in topology.nodes |-> NoCoverage],   \* coverage_
     fires |-> 0, tail |-> FALSE, fill |-> 0,
     ended |-> FALSE, consumed |-> [n \in topology.nodes |-> 0]]

\* Windows due within the next n rounds, and at FINAL all that are left.
WindowPublications(n, final, late) ==
    LET total == stream.rounds + n
        due(w) == stream.rounds < w.due /\ w.begin < total
                  /\ (w.due <= total \/ final)
        of(w) == Publication(w.node,
                     IF w.due <= total THEN w.due - stream.rounds ELSE n,
                     <<w.begin, Min({w.end, total})>>,
                     Flips(w.node, w.begin, Min({w.end, total})))
        mine == SelectSeq(topology.windows, due)
        is(w) == w.due > total /\ w.node \in late
    IN  [body  |-> [i \in DOMAIN SelectSeq(mine, LAMBDA w : ~is(w)) |->
                      of(SelectSeq(mine, LAMBDA w : ~is(w))[i])],
         flush |-> [i \in DOMAIN SelectSeq(mine, is) |->
                      of(SelectSeq(mine, is)[i])]]

\* Head rounds are read as they complete; FINAL's flush adds the last rounds.
ReadoutPublications(n, final) ==
    LET total == stream.rounds + n
        head(r) == UNION {Flips("readout", h, h + 1) :
                             h \in {h \in topology.heads : h <= r}}
        due == SetToSortSeq({h \in topology.heads :
                               stream.rounds <= h /\ h < total}, <)
    IN  [body  |-> [i \in DOMAIN due |->
                      Publication("readout", due[i] + 1 - stream.rounds,
                                  <<0, due[i] + 1>>, head(due[i]))],
         flush |-> IF final
                   THEN <<Publication("readout", n, <<0, Whole>>,
                            Xor(head(total), Flips("readout", total - 1, total)))>>
                   ELSE <<>>]

\* A provisional frame is published when it commits more rounds; the shot's
\* last by FINAL itself, or by its flush.
NativePublications(n, final, late, commits) ==
    LET total == stream.rounds + n
        of(x) == LET from == stream.committed[x]
                     to   == IF final THEN total ELSE commits[x]
                     bits == Flips(x, from, to)
                 IN  Publication(x, n,
                        <<IF Staged(x) THEN from ELSE 0,
                          IF ~final \/ topology.known THEN to
                          ELSE IF Staged(x) THEN Whole ELSE from>>,
                        IF Staged(x) THEN bits ELSE stream.held[x] \union bits)
        pick(S) == LET q == SetToSeq(S) IN [i \in DOMAIN q |-> of(q[i])]
        idle == SetToSeq({x \in NodesOf("native") :
                            final /\ x \in late /\ ~Staged(x)})
    IN  [body  |-> pick({x \in NodesOf("native") :
                           IF final THEN x \notin late
                                    ELSE commits[x] > stream.committed[x]})
                   \o [i \in DOMAIN idle |-> Unfired(idle[i], n)],
         flush |-> pick({x \in NodesOf("native") : final /\ x \in late})]

\* Fires within the next n rounds: when the buffer fills, then every stride.
FiresWithin(n) ==
    {at \in 1 .. n : LET over == stream.fill + at - topology.schedule.size
                     IN  over >= 0 /\ over % topology.schedule.stride = 0}

\* Each fire commits its window; FINAL's flush the tail the last one withheld,
\* unless the node has no flips to project it to.
FixedPublications(n, final, late) ==
    LET fires == SetToSortSeq(FiresWithin(n), <)
        f0    == stream.fires
        upto(x, i) == stream.held[x] \union
            UNION {Flips(x, FireBegin(f0 + j - 1), FireEnd(f0 + j - 1)) : j \in 1 .. i}
        of(x) == [i \in DOMAIN fires |->
                    Publication(x, fires[i], NoCoverage, upto(x, i))]
        last  == f0 + Len(fires) - 1
        tail(x) == Publication(x, n, NoCoverage,
                       Xor(upto(x, Len(fires)),
                           Flips(x, TailBegin(last), TailEnd(last))))
        loud == IF final /\ last >= 0 /\ topology.schedule.end > 0
                THEN SetToSeq(NodesOf("fixed") \ late) ELSE <<>>
    IN  [body  |-> FlattenSeq([i \in 1 .. Cardinality(NodesOf("fixed")) |->
                                 of(SetToSeq(NodesOf("fixed"))[i])]),
         flush |-> [i \in DOMAIN loud |-> tail(loud[i])]]

\* An operation of n rounds: what it makes the nodes publish.
Operation(n, final, late, commits, fails) ==
    LET w == WindowPublications(n, final, late)
        r == IF NodesOf("readout") = {} THEN [body |-> <<>>, flush |-> <<>>]
             ELSE ReadoutPublications(n, final)
        d == NativePublications(n, final, late, commits)
        f == FixedPublications(n, final, late)
    IN  [rounds |-> n, final |-> final, fails |-> fails,
         body  |-> w.body \o r.body \o d.body \o f.body,
         flush |-> w.flush \o r.flush \o d.flush \o f.flush]

\* The nodes after it.
After(op, commits) ==
    LET all == op.body \o op.flush
        of(x) == SelectSeq(all, LAMBDA p : p.node = x)
        fires == Cardinality(FiresWithin(op.rounds))
    IN  [stream EXCEPT
           !.rounds = @ + op.rounds,
           !.committed = [x \in topology.nodes |->
               IF topology.kind[x] # "native" THEN 0
               ELSE IF op.final THEN @[x] ELSE commits[x]],
           !.held = [x \in topology.nodes |->
               IF Staged(x) \/ of(x) = <<>> THEN @[x] ELSE Last(of(x)).bits],
           !.cover = [x \in topology.nodes |->
               IF topology.kind[x] # "native" \/ of(x) = <<>> THEN @[x]
               ELSE Last(of(x)).cover],
           !.fires = @ + fires, !.tail = op.final,
           !.fill = LET raw == @ + op.rounds
                    IN  IF fires = 0 THEN raw
                        ELSE raw - fires * topology.schedule.stride,
           !.ended = op.final]

\* clear_corrections on the nodes: an ended shot's numbering starts over, but
\* a fixed node keeps the rounds it buffers, a native one its last coverage.
Cleared ==
    IF stream.ended
    THEN [CleanStream(stream.shot + 1) EXCEPT
             !.fires = stream.fires, !.fill = stream.fill,
             !.cover = stream.cover]
    ELSE [stream EXCEPT !.held = [x \in topology.nodes |-> {}],
                        !.consumed = stream.committed]

----------------------------------------------------------------------------
(* What a reader sees.                                                     *)

\* async_streaming_result, or the live view of a synchronous graph.
Visible == IF ~topology.async THEN Public(graph)
           ELSE IF snapshot.valid THEN snapshot.result ELSE snapshot.read

\* publish_async_stream_snapshot
Published(g) == [snapshot EXCEPT !.result = Public(g), !.valid = TRUE]

\* clear_corrections and reset_decoder replace what was published.
Replaced(g) == [snapshot EXCEPT !.read = Public(g), !.valid = FALSE]

Init ==
    /\ topology \in {Topologies[x] : x \in DOMAIN Topologies}
    /\ graph = Clean(0) /\ twin = Clean(0)
    /\ queue = <<>> /\ cut = 0 /\ flushing = FALSE
    /\ retiring = [generation |-> 0, revision |-> 0]
    /\ snapshot = [result |-> Public(Clean(0)), valid |-> FALSE,
                   read |-> Public(Clean(0))]
    /\ stream = CleanStream(1)
    /\ call = "idle"
    /\ session = [state |-> "collecting", frozen |-> Public(Clean(0))]
    /\ reply = [request |-> "none", status |-> "OK", data |-> {}]
    /\ seen = 0 /\ injected = FALSE

----------------------------------------------------------------------------
(* The dispatcher: dispatch_async_session and retire_record_context.       *)

\* The pieces an operation longer than a record is cut into.
Pieces(op) ==
    IF topology.record = 0 \/ op.rounds <= topology.record THEN <<op.body>>
    ELSE [i \in 1 .. (op.rounds + topology.record - 1) \div topology.record |->
            SelectSeq(op.body, LAMBDA p :
                (p.at - 1) \div topology.record = i - 1)]

\* Queued BULK operations a record can take together.
Takes == {k \in 1 .. Len(queue) :
            k > 1 => /\ \A i \in 1 .. k : ~queue[i].final
                     /\ FoldSet(LAMBDA i, s : s + queue[i].rounds, 0, 1 .. k)
                          <= topology.record}

\* handle_async_stream_error: the failure is latched and published.
Fail(g) ==
    /\ graph' = FailStreamingProgress(g)
    /\ snapshot' = Published(FailStreamingProgress(g))

Failed == graph'.status = "failed"

\* Mutant: an unchanged aggregate is not published, whatever an output did.
PublishOnGeneration(g, from, flush) == g.generation # from.generation \/ flush

\* Only an operation that changed something is published.
MustPublish(g, from, flush) ==
    g.revision # from.revision \/ snapshot.result.opDone # g.opDone \/ flush

\* Mutant: the last of several operations is judged from where the first began.
JudgedFromFirst(applied, from, operations) == from

\* The last of several operations is judged from where the others left it.
LastFrom(applied, from, operations) ==
    IF Len(operations) > 1 THEN [from EXCEPT !.generation = applied.before]
    ELSE from

\* The result of a context that ends an operation.
Closed(g, closes, from, advanced, flush) ==
    LET counted(done) == [g EXCEPT !.opDone = done,
                            !.completed = @ + advanced + (IF done THEN 1 ELSE 0)]
    IN  IF closes THEN counted(Completes(g, from.generation, flush)) ELSE g

\* One context retires: `operations' is what it captured.
Retire(operations, opens, closes, flush) ==
    LET from  == IF opens THEN [generation |-> graph.generation,
                                revision |-> graph.revision] ELSE retiring
        begun == IF opens THEN [graph EXCEPT !.opDone = FALSE] ELSE graph
        publish(g, judged) ==
            /\ graph' = g /\ retiring' = judged
            /\ snapshot' = IF closes /\ MustPublish(g, judged, flush)
                           THEN Published(g) ELSE snapshot
        finish(fresh, judged, advanced) ==
            IF fresh.broken
            THEN Fail([fresh EXCEPT !.values = graph.values]) /\ UNCHANGED retiring
            ELSE publish(Closed(fresh, closes, judged, advanced, flush), judged)
        retired(applied) ==
            finish(Compose(RefreshStreamingProgress(
                      [applied.graph EXCEPT !.finalized = @ \/ flush], flush)),
                   LastFrom(applied, from, operations), applied.advanced)
    IN  retired(ApplyRecord(begun, operations))

\* A record of one operation, or of several queued ones.
RetireRecord ==
    /\ queue # <<>> /\ ~flushing
    /\ topology.record = 0 \/ queue[1].rounds <= topology.record
    /\ \E k \in Takes :
         /\ \A i \in 1 .. k : ~queue[i].fails
         /\ Retire([i \in 1 .. k |-> queue[i].body], TRUE, ~queue[k].final, FALSE)
         /\ flushing' = (queue[k].final /\ ~Failed)
         /\ queue' = IF Failed THEN <<>> ELSE IF queue[k].final THEN queue
                     ELSE SubSeq(queue, k + 1, Len(queue))
    /\ UNCHANGED <<topology, cut, stream, call, session, reply, history>>

\* Mutant: the offset survives the operation's last piece.
CutLeft(last, next) == IF Failed THEN 0 ELSE next

\* Rounds of the first operation that have retired.
CutAfter(last, next) == IF last \/ Failed THEN 0 ELSE next

\* A piece of an operation longer than a record: the first opens it, the last
\* closes it.
RetirePiece ==
    /\ queue # <<>> /\ ~flushing
    /\ topology.record # 0 /\ queue[1].rounds > topology.record
    /\ ~queue[1].fails
    /\ LET op   == queue[1]
           next == cut + topology.record
           last == next >= op.rounds
       IN  /\ Retire(<<Pieces(op)[cut \div topology.record + 1]>>,
                     cut = 0, last /\ ~op.final, FALSE)
           /\ cut' = CutAfter(last, next)
           /\ flushing' = (last /\ op.final /\ ~Failed)
           /\ queue' = IF Failed THEN <<>>
                       ELSE IF last /\ ~op.final THEN Tail(queue) ELSE queue
    /\ UNCHANGED <<topology, stream, call, session, reply, history>>

\* FINAL's flush is a context of its own.
RetireFlush ==
    /\ flushing
    /\ Retire(<<queue[1].flush>>, FALSE, TRUE, TRUE)
    /\ flushing' = FALSE /\ queue' = <<>>
    /\ UNCHANGED <<topology, cut, stream, call, session, reply, history>>

\* A node throws; what has not retired is dropped.
RecordFails ==
    /\ \E i \in DOMAIN queue : queue[i].fails
    /\ Fail(graph)
    /\ queue' = <<>> /\ cut' = 0 /\ flushing' = FALSE
    /\ UNCHANGED <<topology, retiring, stream, call, session, reply, history>>

----------------------------------------------------------------------------
(* The session: enqueue_core, read_result_core and reset_core.             *)

Reply(request, status, data) ==
    reply' = [request |-> request, status |-> status, data |-> data]

\* An aggregate completed since the session last froze one.
NewResult(result, frozen) ==
    /\ result.generation > 0 /\ Readable(result.status)
    /\ result.completed > frozen.completed

\* capture_result_update
Capture(s, result) ==
    IF s.state = "failed" \/ result.status = "failed"
    THEN [s EXCEPT !.state = "failed"]
    ELSE IF NewResult(result, s.frozen)
    THEN [state |-> "result_ready", frozen |-> result] ELSE s

Collecting == [session EXCEPT !.state = "collecting"]

\* Once processing has failed, only a reset changes anything.
Usable == session.state # "failed" /\ graph.status # "failed"

\* A synchronous graph starts the operation before it drops the round.
Dropped(g) == IF topology.async THEN g ELSE [g EXCEPT !.opDone = FALSE]

\* A round after FINAL: the graph drops it, and the session, which has already
\* gone back to collecting, looks for a result behind FINAL only.
EnqueueDropped(final) ==
    /\ call = "idle" /\ Usable /\ graph.finalized /\ queue = <<>>
    /\ graph' = Dropped(graph) /\ twin' = Dropped(twin)
    /\ session' = IF final THEN Capture(Collecting, Visible) ELSE Collecting
    /\ Reply("enqueue", "OK", {})
    /\ UNCHANGED <<topology, queue, dispatcher, snapshot, stream, call, seen,
                   injected>>

\* A graph that failed refuses the round behind an OK, as the session does from
\* then on.
EnqueueRefused ==
    /\ call = "idle" /\ ~Usable
    /\ session' = [session EXCEPT !.state = "failed"]
    /\ Reply("enqueue", "OK", {})
    /\ UNCHANGED <<topology, graph, queue, dispatcher, snapshot, stream, call,
                   history>>

\* The synchronous graph after an operation.
Ran(g, op) == IF op.fails THEN Compose(FailStreamingProgress(g))
              ELSE ProcessStreamingRecord(g, Pieces(op), op.final, op.flush)

\* An asynchronous graph queues the operation; FINAL waits for its result.
\* A synchronous one runs it, and the session looks at the result if a node
\* fired or the shot ended.
Accept(op) ==
    /\ twin' = Ran(twin, op)
    /\ injected' = (injected \/ op.fails)
    /\ IF topology.async
       THEN /\ queue' = Append(queue, op)
            /\ graph' = [graph EXCEPT !.shotOpen = TRUE]
            /\ call' = IF op.final THEN "final" ELSE "idle"
            /\ session' = Collecting
            /\ UNCHANGED seen
       ELSE /\ graph' = Ran(graph, op)
            /\ LET looks == op.final \/ (\E i \in DOMAIN op.body : op.body[i].fired)
                            \/ graph'.status = "failed"
               IN  /\ session' = IF looks THEN Capture(Collecting, Public(graph'))
                                 ELSE Collecting
                   /\ seen' = IF looks THEN twin'.completed ELSE seen
            /\ UNCHANGED <<queue, call>>

Enqueue(n, final, late, commits, fails) ==
    /\ call = "idle" /\ Usable /\ ~graph.finalized
    /\ Len(queue) < MaxQueued /\ ~stream.ended
    /\ stream.rounds + n <= topology.maxRounds - (IF final THEN 0 ELSE 1)
    /\ final => stream.rounds + n >= topology.minRounds
    /\ LET op == Operation(n, final, late, commits, fails)
       IN  Accept(op) /\ stream' = After(op, commits)
    /\ Reply("enqueue", "OK", {})
    /\ UNCHANGED <<topology, dispatcher, snapshot>>

\* FINAL's enqueue returns once its flush has retired, or rethrows.
FinalReturns ==
    /\ call = "final" /\ queue = <<>>
    /\ call' = "idle"
    /\ session' = Capture(session, Visible)
    /\ seen' = twin.completed
    /\ UNCHANGED <<topology, graph, queue, dispatcher, snapshot, stream, reply,
                   twin, injected>>

\* may_consume
MayConsume(result) == HasLogical => result.status = "complete"

\* The frozen aggregate, or the released logical measurements of `wanted'.
Answer(request, wanted, s, result) ==
    IF request = "get_corrections"
    THEN IF s.state = "result_ready" THEN {s.frozen.values} ELSE {}
    ELSE IF wanted \subseteq result.released
         THEN {[i \in wanted |-> result.values[Len(topology.outputs)]]} ELSE {}

\* clear_corrections before the OK, which refuses to consume half a logical
\* shot.
Consume(request, answer) ==
    IF HasLogical /\ graph.shotOpen /\ ~graph.finalized
    THEN /\ Reply(request, "INTERNAL_ERROR", {})
         /\ session' = [session EXCEPT !.state = "failed"]
         /\ UNCHANGED <<graph, twin, stream, snapshot>>
    ELSE /\ Reply(request, "OK", answer)
         /\ graph' = ConsumeStreamingResult(graph)
         /\ twin' = ConsumeStreamingResult(twin)
         /\ stream' = Cleared
         /\ snapshot' = Replaced(graph')
         /\ session' = [state |-> "collecting", frozen |-> Public(graph')]

\* A read waits for the operations accepted before it.
Read(request, wanted, reset) ==
    LET s == Capture(session, Visible)
        answer == Answer(request, wanted, s, Visible)
    IN  /\ call = "idle" /\ queue = <<>>
        /\ request = "get_logical_measurements" => HasLogical
        /\ seen' = twin.completed
        /\ IF s.state = "failed" THEN
                /\ Reply(request, "INTERNAL_ERROR", {})
                /\ session' = s
                /\ UNCHANGED <<graph, twin, stream, snapshot>>
           ELSE IF answer = {} \/ (reset /\ ~MayConsume(Visible)) THEN
                /\ Reply(request, "NOT_READY", {})
                /\ session' = s
                /\ UNCHANGED <<graph, twin, stream, snapshot>>
           ELSE IF reset THEN Consume(request, answer)
           ELSE /\ Reply(request, "OK", answer)
                /\ session' = s
                /\ UNCHANGED <<graph, twin, stream, snapshot>>
        /\ UNCHANGED <<topology, queue, dispatcher, call, injected>>

\* Mutant: the session keeps the aggregate it froze before the reset.
FrozenKept(g) == session.frozen

FrozenAfterReset(g) == Public(g)

\* reset_decoder cancels what is queued, hides the result, resets the nodes
\* and opens a clean epoch.
Reset ==
    /\ call = "idle" /\ graph.epoch < MaxResets
    /\ graph' = Clean(graph.epoch + 1) /\ twin' = Clean(twin.epoch + 1)
    /\ snapshot' = Replaced(graph')
    /\ queue' = <<>> /\ cut' = 0 /\ flushing' = FALSE
    /\ stream' = CleanStream(stream.shot + 1)
    /\ session' = [state |-> "collecting", frozen |-> FrozenAfterReset(graph')]
    /\ seen' = 0 /\ injected' = FALSE
    /\ Reply("reset", "OK", {})
    /\ UNCHANGED <<topology, retiring, call>>

\* A node's reset throws: the graph stays failed with nothing readable.
ResetFails ==
    /\ call = "idle" /\ graph.status # "failed"
    /\ graph' = FailStreamingProgress(HideStreamingResult(graph))
    /\ twin' = FailStreamingProgress(HideStreamingResult(twin))
    /\ snapshot' = Replaced(graph')
    /\ queue' = <<>> /\ cut' = 0 /\ flushing' = FALSE
    /\ session' = [session EXCEPT !.state = "failed"]
    /\ injected' = TRUE
    /\ Reply("reset", "INTERNAL_ERROR", {})
    /\ UNCHANGED <<topology, retiring, stream, call, seen>>

----------------------------------------------------------------------------
\* What the caller and the decoders may choose; topology.shots bounds the shots
\* consumed between resets.
Enqueues ==
    \E n \in topology.sizes, final, fails \in BOOLEAN :
        \E late \in IF final THEN SUBSET topology.nodes ELSE {{}} :
            \E commits \in [NodesOf("native") -> 0 .. stream.rounds + n] :
                /\ \A x \in DOMAIN commits : commits[x] >= stream.committed[x]
                /\ Enqueue(n, final, late, commits, fails)

Reads ==
    \E reset \in BOOLEAN :
        /\ reset /\ stream.ended => stream.shot < topology.shots + graph.epoch
        /\ \/ Read("get_corrections", {}, reset)
           \/ \E i \in Observables :
                Read("get_logical_measurements", {i}, reset)

Next ==
    \/ Enqueues \/ EnqueueRefused \/ FinalReturns \/ Reads
    \/ \E final \in BOOLEAN : EnqueueDropped(final)
    \/ RetireRecord \/ RetirePiece \/ RetireFlush \/ RecordFails
    \/ Reset \/ ResetFails

Spec == Init /\ [][Next]_vars

----------------------------------------------------------------------------
(* Properties.                                                             *)

Settled == queue = <<>> /\ call = "idle"

Statuses == {"pending", "available", "complete", "failed"}

\* Type correctness.
TypeOK ==
    /\ graph.status \in Statuses /\ twin.status \in Statuses
    /\ \A k \in Outputs : graph.out[k].status \in Statuses
    /\ graph.released \subseteq Observables
    /\ Len(queue) <= MaxQueued /\ cut \in Nat /\ flushing \in BOOLEAN
    /\ (cut > 0 \/ flushing) => queue # <<>>
    /\ call \in {"idle", "final"}
    /\ session.state \in {"collecting", "result_ready", "failed"}
    /\ seen \in Nat /\ injected \in BOOLEAN

\* "An asynchronous graph counts them as a synchronous one would"
\* (decoding_task_graph.h:309-310), and retiring a record publishes "the same
\* progress model the synchronous path produces": however the dispatcher
\* groups queued operations into records or cuts one into several, once all
\* have retired the generations, coverage, values, releases and completed
\* operations are those of the graph that ran them one at a time.
AsyncAsSync ==
    queue = <<>> /\ graph.status # "failed" /\ twin.status # "failed" =>
        [Public(graph) EXCEPT !.revision = 0] = [Public(twin) EXCEPT !.revision = 0]

\* Whether a flip or a reading can change observable i.
Concerns(x, i) ==
    IF x.node = "readout"
    THEN IF x.round \in topology.heads THEN i \in topology.reads[x.round]
                                       ELSE topology.completion[i] = Whole
    ELSE x.round <= topology.completion[i]

\* What a reader may rely on in a result: its progress, the frames of staged
\* outputs, and the released measurements.  An unreleased one, and an unstaged
\* value ahead of its coverage, may change without a new revision.
Stable(r) ==
    [r EXCEPT !.values = [k \in Outputs |->
        IF topology.outputs[k].staged /\ ~topology.outputs[k].logical THEN @[k]
        ELSE {x \in @[k] : \E i \in r.released : Concerns(x, i)}]]

\* The part of a result that says how far it is.
Progress(r) == <<r.epoch, r.revision, r.generation, r.status, r.out, r.released>>

\* What a reader gets between operations tells the graph's progress.
ProgressCurrent == cut = 0 /\ ~flushing => Progress(Visible) = Progress(graph)

\* Skipping the publication of an operation that changed nothing
\* (retire_record_context) hides nothing: between operations a reader sees the
\* graph's progress, and once the queue has drained, the graph's own result.
SnapshotCurrent ==
    ProgressCurrent /\ (queue = <<>> => Stable(Visible) = Stable(Public(graph)))

\* The flips contributors of output k commit in rounds [from, to).
Committed(k, from, to) ==
    {x \in UNION {Flips(n, from, to) : n \in topology.outputs[k].nodes} :
        topology.kind[x.node] = "window" =>
            \E i \in DOMAIN topology.windows :
                LET w == topology.windows[i]
                IN  w.node = x.node /\ w.begin <= x.round /\ x.round < w.end}

\* The results someone may be reading: the published one, and the one the
\* session froze.
Held == {Visible} \union
        (IF session.state = "result_ready" THEN {session.frozen} ELSE {})

\* The frame a staged output hands out holds exactly the flips of the rounds
\* its coverage names, although the intervals were committed in any order and
\* by several records: none is missing, folded twice, ahead of the frontier,
\* or left from a consumed value or an earlier shot; a complete one covers
\* its shot to the last round.
FrameExact ==
    \A r \in Held, k \in CorrectionOutputs :
        topology.outputs[k].staged /\ Readable(r.out[k].status) =>
            r.values[k] =
                IF topology.outputs[k].cancelled THEN {}
                ELSE Committed(k, r.out[k].begin,
                               IF r.out[k].status = "complete" THEN stream.rounds
                                                               ELSE r.out[k].end)

\* The round range an unstaged output reports follows its contributors, over
\* FINAL, consumption and the shots after it: on a schedule the rounds of the
\* last fire or of the tail after it, otherwise the rounds every contributor
\* has committed since the output was last consumed.
CoverageFollows ==
    \A k \in CorrectionOutputs :
        Settled /\ ~topology.outputs[k].staged /\ Readable(graph.out[k].status) =>
            <<graph.out[k].begin, graph.out[k].end>> =
                IF NodesOf("fixed") # {}
                THEN IF stream.tail
                     THEN <<TailBegin(stream.fires - 1), TailEnd(stream.fires - 1)>>
                     ELSE <<FireBegin(stream.fires - 1), FireEnd(stream.fires - 1)>>
                ELSE <<Min({stream.consumed[n] : n \in topology.outputs[k].nodes}),
                       IF stream.ended THEN stream.rounds
                       ELSE Min({stream.committed[n] :
                                   n \in topology.outputs[k].nodes})>>

\* A released logical measurement is final: its value holds every reading of
\* it and every correction of this shot that can still flip it, whatever the
\* frontier and the readout, which advance in different records, have done
\* since; a consumed, failed or reset shot releases none.
ReleasedIsWhole ==
    HasLogical =>
        LET k == Len(topology.outputs)
            all == Committed(k, 0, stream.rounds) \union
                   UNION {Flips("readout", r, r + 1) :
                            r \in topology.heads \union {stream.rounds - 1}}
        IN  topology.outputs[k].staged =>
              \A i \in Visible.released :
                {x \in Visible.values[k] : Concerns(x, i)}
                  = {x \in all : Concerns(x, i)}

\* The session never answers NOT_READY while the result is readable and an
\* aggregate has completed since it last looked: comparing
\* completed_operations with its frozen copy (decode_target.h:140) misses none
\* across FINAL, consumption and reset.  And the result of a closed shot, which
\* a client may read until it starts the next one, is withheld only from a
\* session that had that very result and was sent back to collecting by a
\* round dropped after FINAL (DecodingSession.cpp:260).
NoMissedResult ==
    [][reply'.request = "get_corrections" /\ reply'.status = "NOT_READY" =>
         /\ session'.state = "collecting" /\ Readable(twin.status)
              => twin.completed = seen
         /\ graph.finalized /\ Visible.status = "complete" =>
              /\ session.state = "collecting"
              /\ session.frozen.epoch = Visible.epoch
              /\ session.frozen.revision = Visible.revision]_vars

\* Without a failing decoder or a failing node reset nothing fails: no commit
\* interval is behind its frontier, the bounded stager never overflows, no
\* interval is left at FINAL, and no reset read is refused.
NoInternalFailure ==
    ~injected => graph.status # "failed" /\ session.state # "failed"
=============================================================================
