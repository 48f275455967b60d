-------------------------- MODULE RecordScheduler --------------------------
(***************************************************************************)
(* The event scheduler of a decoding task graph: record_scheduler in       *)
(* libs/qec/lib/decoding_task/decoding_task_graph_executor.cpp.            *)
(*                                                                         *)
(* A record enters a free context as one raw event per raw-fed node (or,   *)
(* at the end of a shot, as flush events; or, for a one-shot call, as one  *)
(* event per source node).  A node that fires publishes: each of its wires *)
(* gets an edge event, a child of the event that ran.  A slot stays until  *)
(* its causal subtree drains.  Workers select the first ready event of the *)
(* oldest record whose node is free and whose turn has come.  `sched' is   *)
(* what the runtime lock protects; every critical section is one step, and *)
(* a step between them is the node's own work on a node it holds.          *)
(*                                                                         *)
(* What a node computes is left open: a record-ordered node may or may not *)
(* fire on a delivery (G.fires); the ingest node publishes the windows of  *)
(* `ingest.layout' in index order, some per chunk and the rest at FINAL.   *)
(***************************************************************************)
EXTENDS TaskGraph, SequencesExt, FiniteSetsExt

CONSTANTS
    NumContexts,    \* record contexts
    Workers         \* the executing workers of the pool

ASSUME SchedulerAssumption ==
    NumContexts \in Nat \ {0} /\ IsFiniteSet(Workers) /\ Workers # {}

VARIABLES
    graph,   \* the graph in use, compiled
    sched,   \* the scheduler's state, under its lock
    worker,  \* by worker: where it is in execute_loop()
    coord,   \* the coordinator: dispatch_async_session(), or the sync caller
    ingest,  \* the windows of the shot and the next index to publish
    seen     \* history: what the nodes saw

vars == <<graph, sched, worker, coord, ingest, seen>>

G == graph.source
C == graph.topology
Nodes == DOMAIN G.kind
Contexts == 1..NumContexts
NoIndex == -1
Max2(a, b) == IF a > b THEN a ELSE b

Indexed(n) == G.kind[n] = "indexed"
Pooled(n)  == G.copies[n] > 1
Ordered(n) == ~Indexed(n) /\ ~Pooled(n)
Async == G.mode = "async"

-----------------------------------------------------------------------------
(* Events and contexts                                                      *)

\* A slot and the event in it.  `cont' is a raw event's next chunk and
\* operation; `val' numbers the value its wire carried when it was pushed.
Event(kind, node) ==
    [kind |-> kind, node |-> node, wire |-> 0, root |-> 0, idx |-> NoIndex,
     absent |-> FALSE, off |-> 0, op |-> 0, val |-> 0, path |-> <<>>,
     parent |-> 0, block |-> 0, wait |-> FALSE, kids |-> <<>>, st |-> "held",
     cont |-> <<>>, rep |-> 0, frees |-> FALSE]

NoEvents == [id \in {} |-> Event("raw", 1)]

\* reset(): a context between two records.
FreeContext ==
    [inUse |-> FALSE, complete |-> FALSE, gated |-> FALSE, seq |-> 0,
     phase |-> "idle", first |-> 0, last |-> 0, len |-> 0, final |-> FALSE,
     ev |-> NoEvents, ready |-> <<>>, rootDone |-> {}, released |-> {},
     lease |-> [n \in Nodes |-> 0], count |-> [n \in Nodes |-> 0],
     val |-> [w \in DOMAIN G.wires |-> 0], deps |-> [n \in Nodes |-> {}]]

\* A constructed scheduler, and one after discard_all().
FreshSched ==
    [ctx |-> [c \in Contexts |-> FreeContext], active |-> <<>>,
     turn |-> [n \in Nodes |-> 0], next |-> 0,
     joins |-> [n \in Nodes |-> <<>>], dropped |-> [n \in Nodes |-> {}],
     last |-> [w \in DOMAIN G.wires |-> NoIndex],
     count |-> [n \in Nodes |-> 0], stop |-> FALSE, error |-> "none"]

Error(s, what) == [s EXCEPT !.stop = TRUE,
                            !.error = IF @ = "none" THEN what ELSE @]

Ev(s, c, id) == s.ctx[c].ev[id]
Operations(x) == x.last - x.first + 1

\* An unfinished event counts as live for its node; a raw event with chunks
\* left stays so.
LiveIds(s, c, n) ==
    {id \in DOMAIN s.ctx[c].ev :
       LET e == Ev(s, c, id)
       IN  e.node = n /\ e.kind # "one" /\ (e.st # "done" \/ e.cont # <<>>)}
Live(s, c, n) == Cardinality(LiveIds(s, c, n))
FiresLive(s, c, n) ==
    Cardinality({id \in LiveIds(s, c, n) : Ev(s, c, id).kind = "fire"})

Running(s) ==
    UNION {{<<c, id>> : id \in {i \in DOMAIN s.ctx[c].ev :
                                  Ev(s, c, i).st = "running"}} : c \in Contexts}

\* The node an event may not share with another, 0 if none.
SerializedNode(e) ==
    IF e.kind \in {"release", "fire"} \/ (e.kind = "edge" /\ ~Ordered(e.node))
    THEN 0 ELSE e.node

NodeBusy(s, n) == \E r \in Running(s) : SerializedNode(Ev(s, r[1], r[2])) = n

\* Copies neither leased to a record nor held by a running fire.
FreeReplicas(s, n) ==
    (1..G.copies[n]) \ ({s.ctx[c].lease[n] : c \in Contexts} \union
                        {Ev(s, r[1], r[2]).rep :
                           r \in {q \in Running(s) :
                                    /\ Ev(s, q[1], q[2]).kind = "fire"
                                    /\ Ev(s, q[1], q[2]).node = n}})

IsPoolDelivery(e) == e.kind = "edge" /\ Pooled(e.node) /\ ~Indexed(e.node)

ReplicaBusy(s, c, n) ==
    \E r \in Running(s) : r[1] = c /\ IsPoolDelivery(Ev(s, c, r[2]))
                                   /\ Ev(s, c, r[2]).node = n

-----------------------------------------------------------------------------
(* push_locked() and the ready queue                                        *)

Queued(x, id) == [x EXCEPT !.ev[id].st = "queued", !.ready = Append(@, id)]
Enqueue(s, c, id) == IF Ev(s, c, id).st # "held" THEN s
                     ELSE [s EXCEPT !.ctx[c] = Queued(s.ctx[c], id)]

FreshSlot(x) == CHOOSE i \in 1..(Cardinality(DOMAIN x.ev) + 1) : i \notin DOMAIN x.ev
Pushed(x, e) ==
    LET id == FreshSlot(x)
        cause == IF e.parent = 0 THEN 0 ELSE x.ev[e.parent].op
        slot == [e EXCEPT !.op = Max2(Max2(e.op, x.first), cause)]
    IN  [x EXCEPT !.ev =
           [i \in DOMAIN x.ev \union {id} |->
              IF i = id THEN slot
              ELSE IF i # e.parent THEN x.ev[i]
              ELSE [x.ev[i] EXCEPT !.kids = Append(x.ev[i].kids, id)]]]
Push(s, c, e) ==
    LET x == s.ctx[c]
        pushed == [s EXCEPT !.ctx[c] = Pushed(x, e)]
    IN  IF s.stop THEN s
        ELSE IF Cardinality(DOMAIN x.ev) = G.slots
             THEN Error(s, "event store overflow")
        ELSE IF e.block = 0 /\ (~e.wait \/ e.parent = 0)
             THEN Enqueue(pushed, c, FreshSlot(x)) ELSE pushed

-----------------------------------------------------------------------------
(* Release of a node to the next record, and the end of an event            *)

ActiveSet(s) == {s.active[i] : i \in DOMAIN s.active}

\* A record hands a node on in its turn, once it has no event for the node and
\* is done with the node's producers.
Releasable(s, c, n) ==
    LET x == s.ctx[c]
    IN  /\ x.gated /\ n \notin x.released /\ Live(s, c, n) = 0
        /\ s.turn[n] = x.seq /\ C.producers[n] \subseteq x.released

\* Mutant: the next record, done with the node already, is not asked.
AsksItself(s, c, n) == {c} \X C.dependents[n]

\* Whom a handover of the node may free: the record's own handover of a
\* dependent, and the next record, which may be done with the node too.
Asks(s, c, n) ==
    ({c} \X C.dependents[n]) \union
    ({d \in ActiveSet(s) : s.ctx[d].gated /\ s.ctx[d].seq = s.ctx[c].seq + 1}
       \X {n})

\* Those asked who can hand their node on do, and ask in their turn.
HandOver(t) ==
    LET s == t.s
        free == {p \in t.ask : Releasable(s, p[1], p[2])}
        handing(c) == {n \in Nodes : <<c, n>> \in free}
        turn(n) == s.turn[n] + IF \E p \in free : p[2] = n THEN 1 ELSE 0
        handed == [s EXCEPT
                     !.ctx = [c \in Contexts |->
                                IF handing(c) = {} THEN s.ctx[c]
                                ELSE [s.ctx[c] EXCEPT !.released =
                                        s.ctx[c].released \union handing(c)]],
                     !.turn = [n \in Nodes |-> turn(n)]]
    IN  IF free = {} THEN [s |-> s, ask |-> {}]
        ELSE [s |-> handed, ask |-> UNION {Asks(s, p[1], p[2]) : p \in free}]

\* try_release_locked().  A chain of handovers goes on through later nodes and
\* later records, so it ends within this many.
TryRelease(s, c, n) ==
    FoldLeft(LAMBDA t, i : HandOver(t), [s |-> s, ask |-> {<<c, n>>}],
             [i \in 1..(Len(G.kind) + NumContexts) |-> i]).s

\* Leases a skipped producer left behind are handed back.
Completed(x) == [x EXCEPT !.lease = [n \in Nodes |-> 0], !.complete = TRUE]
MarkComplete(s, c) == [s EXCEPT !.ctx[c] = Completed(s.ctx[c])]

EnqueueWaiter(s, c, k) ==
    IF Ev(s, c, k).wait /\ Ev(s, c, k).block = 0 THEN Enqueue(s, c, k) ELSE s
EnqueueSiblingWaiter(s, c, parent) ==
    FoldLeft(LAMBDA t, k : EnqueueWaiter(t, c, k), s, Ev(s, c, parent).kids)

\* The siblings blocked behind an event become ready.
UnblockSibling(s, c, id, k) ==
    LET u == [s EXCEPT !.ctx[c].ev[k].block = 0]
    IN  IF Ev(s, c, k).block # id THEN s
        ELSE IF Ev(s, c, k).wait THEN u ELSE Enqueue(u, c, k)
Unblock(s, c, kids, id) ==
    FoldLeft(LAMBDA t, k : UnblockSibling(t, c, id, k), s, kids)

\* A slot is freed, and the parent loses a child.
FreeSlot(x, id) ==
    [x EXCEPT !.ev =
       [i \in DOMAIN x.ev \ {id} |->
          IF i # x.ev[id].parent THEN x.ev[i]
          ELSE [x.ev[i] EXCEPT !.kids = RemoveFirst(x.ev[i].kids, id)]]]

\* A drained event runs its next chunk, or retires: the siblings blocked
\* behind it become ready and its parent loses a child.  The result names the
\* parent if that has drained too, 0 if not.
Drain(s, c, id) ==
    LET e == Ev(s, c, id)
        p == e.parent
        continued == [s EXCEPT !.ctx[c].ev[id] =
                        [e EXCEPT !.off = e.cont[1], !.op = e.cont[2],
                                  !.cont = <<>>, !.st = "held"]]
        unblocked == IF p = 0 THEN s ELSE Unblock(s, c, Ev(s, c, p).kids, id)
        removed == [unblocked EXCEPT !.ctx[c] = FreeSlot(unblocked.ctx[c], id)]
        rooted == [removed EXCEPT !.ctx[c].rootDone =
                     IF e.root = 0 THEN @ ELSE @ \union {e.root}]
        left == Len(Ev(removed, c, p).kids)
    IN  IF e.cont # <<>> THEN [s |-> Enqueue(continued, c, id), id |-> 0]
        ELSE IF p = 0
        THEN [s |-> IF DOMAIN rooted.ctx[c].ev = {} THEN MarkComplete(rooted, c)
                    ELSE rooted, id |-> 0]
        ELSE IF Ev(s, c, p).st # "done" \/ left > 1
        THEN [s |-> removed, id |-> 0]
        ELSE IF left = 1
        THEN [s |-> EnqueueSiblingWaiter(removed, c, p), id |-> 0]
        ELSE [s |-> removed, id |-> p]

\* complete_or_continue_locked(), up the ancestors that drain.
Climb(t, c) == IF t.id = 0 THEN t ELSE Drain(t.s, c, t.id)
CompleteOrContinue(s, c, id) ==
    FoldLeft(LAMBDA t, i : Climb(t, c), [s |-> s, id |-> id],
             [i \in 1..Cardinality(DOMAIN s.ctx[c].ev) |-> i]).s

\* release_join_locked()
ReleaseJoin(s, n, k) ==
    [s EXCEPT !.joins[n] = [i \in DOMAIN @ \ {k} |-> @[i]]]

\* finish_locked(): a fire's join entry is freed and its copy handed back
\* whether or not the session is stopping.
Finish(s, c, id) ==
    LET e == Ev(s, c, id)
        freed == IF e.kind = "fire" THEN ReleaseJoin(s, e.node, e.idx) ELSE s
        x == s.ctx[c]
        done == [freed EXCEPT !.ctx[c] =
                   [x EXCEPT !.ev[id] = [e EXCEPT !.st = "done", !.rep = 0],
                             !.lease[e.node] = IF e.frees THEN 0 ELSE x.lease[e.node]]]
        released == IF e.cont = <<>> /\ e.kind # "one"
                    THEN TryRelease(done, c, e.node) ELSE done
    IN  IF s.stop THEN done
        ELSE CASE Len(e.kids) = 0 -> CompleteOrContinue(released, c, id)
               [] Len(e.kids) = 1 -> EnqueueSiblingWaiter(released, c, id)
               [] OTHER -> released

-----------------------------------------------------------------------------
(* Selection of the next event                                              *)

\* Fires that may run at once: one worker is left for other events.
FireCap == LET n == Cardinality(Workers) IN IF n > 1 THEN n - 1 ELSE 1

RunningFires(s) == Cardinality({r \in Running(s) : Ev(s, r[1], r[2]).kind = "fire"})

\* No event of any record targets the node, the asking flush aside.
Quiescent(s, c, n, asking) ==
    \A d \in ActiveSet(s) : Live(s, d, n) = IF asking /\ d = c THEN 1 ELSE 0

FlushReady(s, c, n) ==
    /\ Quiescent(s, c, n, TRUE)
    /\ \A p \in C.loopProducers[n] : Quiescent(s, c, p, FALSE)

\* Every delivery to an indexed node is filed; its own fires may still run
\* unless they feed it back or the shot's instances are already resolved.
FlushMayStart(s, c, e) ==
    IF ~Indexed(e.node) \/ e.node \in C.selfFed \/ e.off = 1
    THEN FlushReady(s, c, e.node)
    ELSE \A d \in ActiveSet(s) :
           Live(s, d, e.node) = FiresLive(s, d, e.node) +
                                (IF d = c THEN 1 ELSE 0)

OthersQuiet(s, c, n) == \A d \in ActiveSet(s) \ {c} : Live(s, d, n) = 0

\* The roots of a context's phase, in node order.
RootNodes(x) == IF x.phase = "flush" THEN {n \in Nodes : C.producers[n] = {}}
                ELSE G.raw

RootIsReady(x, e) ==
    e.root = 0 \/ e.parent = 0 \/
    \A r \in RootNodes(x) : r < e.root /\ r \notin x.rootDone =>
                              C.overlap[r, e.root] = "disjoint"

\* Mutant: records take a node in any order.
AnyTurn(s, c, e) == TRUE

\* A record-ordered node serves the records in sequence.
MyTurn(s, c, e) ==
    s.ctx[c].gated /\ Ordered(e.node) => s.turn[e.node] = s.ctx[c].seq

Runnable(s, c, id) ==
    LET e == Ev(s, c, id)
        x == s.ctx[c]
    IN  /\ ~NodeBusy(s, SerializedNode(e)) \/ SerializedNode(e) = 0
        /\ IsPoolDelivery(e) =>
             IF x.lease[e.node] = 0 THEN FreeReplicas(s, e.node) # {}
             ELSE ~ReplicaBusy(s, c, e.node)
        /\ e.kind = "fire" => /\ FreeReplicas(s, e.node) # {}
                              /\ RunningFires(s) < FireCap
        /\ e.kind = "flush" /\ ~Ordered(e.node) => FlushMayStart(s, c, e)
        /\ MyTurn(s, c, e)
        /\ RootIsReady(x, e)

\* The first runnable event of the oldest record that has one.
Picks(s, c) == {i \in DOMAIN s.ctx[c].ready : Runnable(s, c, s.ctx[c].ready[i])}
HasReady(s) == \E c \in ActiveSet(s) : Picks(s, c) # {}
Ready(s) ==
    LET able == {i \in DOMAIN s.active : Picks(s, s.active[i]) # {}}
        c == s.active[Min(able)]
    IN  IF able = {} THEN <<>> ELSE <<c, s.ctx[c].ready[Min(Picks(s, c))]>>

\* claim_locked(): a fire takes a copy for itself, a record's first delivery
\* to a pooled node one for the record.
Claim(s, c, id) ==
    LET e == Ev(s, c, id)
        x == s.ctx[c]
        free == FreeReplicas(s, e.node)
        copy == IF e.kind = "fire" THEN Min(free)
                ELSE IF ~IsPoolDelivery(e) THEN 0
                ELSE IF x.lease[e.node] = 0 THEN Min(free) ELSE x.lease[e.node]
    IN  [s EXCEPT !.ctx[c] =
           [x EXCEPT !.ev[id] = [e EXCEPT !.st = "running", !.rep = copy],
                     !.ready = RemoveFirst(x.ready, id),
                     !.lease[e.node] =
                        IF IsPoolDelivery(e) THEN copy ELSE x.lease[e.node]]]

-----------------------------------------------------------------------------
(* Publication                                                              *)

\* An edge event for the wire, a child of the event that published.  It
\* waits behind the latest earlier sibling whose branch meets its own at a
\* node that needs order; an indexed consumer never waits.
PushEdge(s, c, parent, w, idx, absent) ==
    LET consumer == G.wires[w].to
        p == Ev(s, c, parent)
        earlier == {i \in DOMAIN p.kids :
                      /\ Ev(s, c, p.kids[i]).kind = "edge" /\ ~Indexed(consumer)
                      /\ C.overlap[Ev(s, c, p.kids[i]).node, consumer] = "ordered"}
        from == IF p.kind = "raw" THEN <<p.root, p.off>> ELSE p.path
    IN  IF absent /\ ~Indexed(consumer) THEN s
        ELSE Push(s, c, [Event("edge", consumer) EXCEPT
                 !.wire = w, !.root = p.root, !.idx = idx, !.absent = absent,
                 !.val = s.ctx[c].val[w], !.path = Append(from, w),
                 !.parent = parent,
                 !.block = IF earlier = {} THEN 0 ELSE p.kids[Max(earlier)]])

\* One publication on wire w.  A record-ordered producer's indices never
\* decrease: the ones it skipped are announced as absent before the value.
Counted(w, idx) == /\ idx # NoIndex /\ ~G.wires[w].done
                   /\ Indexed(G.wires[w].to) /\ Ordered(G.wires[w].from)
Deliveries(s, w, idx) ==
    LET skipped == IF Counted(w, idx) THEN Max2(idx - s.last[w] - 1, 0) ELSE 0
    IN  [i \in 1..(skipped + 1) |->
           [absent |-> i <= skipped,
            idx |-> IF i <= skipped THEN s.last[w] + i ELSE idx]]
PublishWire(s, c, parent, w, deliveries) ==
    FoldLeft(LAMBDA t, m : PushEdge(t, c, parent, w, m.idx, m.absent),
             s, deliveries)

\* publish_wires(): wire after wire, in their compiled order.
PublishWires(s, c, parent, ws, idx) ==
    FoldLeft(LAMBDA t, w : PublishWire(t, c, parent, w, Deliveries(s, w, idx)),
             [s EXCEPT !.last = [w \in DOMAIN @ |->
                IF w \in ws /\ Counted(w, idx) THEN idx ELSE @[w]]],
             Ascending(ws))

\* Mutant: only the publishing record itself is looked at.
OwnOnly(s, c, op) == IF op <= s.ctx[c].last THEN c ELSE 0

\* holder_locked(): the record holding an operation, 0 if none is active.
Holder(s, c, op) ==
    LET later == SelectSeq(s.active, LAMBDA d : s.ctx[d].first <= op
                                                /\ op <= s.ctx[d].last)
    IN  IF op <= s.ctx[c].last THEN c ELSE IF later = <<>> THEN 0 ELSE later[1]

Ports(n) == {G.wires[w].port : w \in C.valuesFrom[n]}

\* publish_streaming(): one publication with values on `ports'; `idx' is the
\* index the ports carry, `fire' the one a fire names for all its wires.
Publish(s, c, id, n, ports, idx, fire) ==
    LET values == {w \in C.valuesFrom[n] :
                     ~Indexed(G.wires[w].to) \/ G.wires[w].port \in ports}
        copied == [s EXCEPT !.ctx[c].val =
                     [w \in DOMAIN @ |->
                        IF w \in values /\ G.wires[w].port \in ports
                        THEN @[w] + 1 ELSE @[w]]]
    IN  IF Holder(s, c, Ev(s, c, id).op) = 0
        THEN Error(s, "no active record holds the operation")
        ELSE PublishWires(PublishWires(copied, c, id, values,
                                       IF fire # NoIndex THEN fire ELSE idx),
                          c, id, C.donesFrom[n], fire)

\* publish_wires() of the completion wires alone.
PublishDone(s, c, id, n, fire) == PublishWires(s, c, id, C.donesFrom[n], fire)

-----------------------------------------------------------------------------
(* Joins of indexed nodes                                                   *)

WireInto(n, slot) == CHOOSE w \in Wires(G) : w.to = n /\ w.slot = slot
Slots(n) == 1..C.wiresTo[n]
Missing(entry) == {i \in DOMAIN entry.state : entry.state[i] = "missing"}

\* Instance k of node n never exists: its indexed consumers are told once.
DropInstance(s, c, parent, n, k) ==
    IF k \in s.dropped[n] THEN s
    ELSE FoldLeft(LAMBDA t, w : PushEdge(t, c, parent, w, k, TRUE),
                  [s EXCEPT !.dropped[n] = @ \union {k}],
                  Ascending(C.valuesFrom[n]))

QueueFire(s, c, parent, n, k) ==
    Push(s, c, [Event("fire", n) EXCEPT
                  !.root = Ev(s, c, parent).root, !.idx = k,
                  !.op = s.joins[n][k].op, !.parent = parent])

SetEntry(s, n, k, entry) ==
    [s EXCEPT !.joins[n] = [i \in DOMAIN @ \union {k} |->
                              IF i = k THEN entry ELSE @[i]]]

\* Mutant: an entry takes the operation of its last delivery.
LastOp(op, e) == e.op

\* The operation an instance is counted with, after one more delivery.
LaterOp(op, e) == Max2(op, e.op)

\* deliver_indexed(): file one delivery under the instance it addresses; the
\* instance fires in the record whose delivery completed it.
DeliverIndexed(s, c, id) ==
    LET e == Ev(s, c, id)
        n == e.node
        wire == G.wires[e.wire]
        k == e.idx - wire.off
        slot == wire.slot
        fresh == k \notin DOMAIN s.joins[n]
        entry == IF ~fresh THEN s.joins[n][k]
                 ELSE [op |-> 0,
                       state |-> [i \in Slots(n) |->
                          IF k + WireInto(n, i).off < 0 THEN "absent"
                          ELSE "missing"]]
        told == [entry EXCEPT !.op = LaterOp(@, e)]
        filed == [told EXCEPT !.state[slot] =
                    IF e.absent THEN "absent" ELSE "present"]
        kept == SetEntry(s, n, k, filed)
        lost == fresh /\ \E i \in G.required[n] : entry.state[i] = "absent"
    IN  IF e.idx = NoIndex THEN Error(s, "unindexed value")
        ELSE IF k < 0 \/ k \in s.dropped[n] THEN s
        ELSE IF lost THEN DropInstance(s, c, id, n, k)
        ELSE IF entry.state[slot] = "present" THEN Error(s, "delivered twice")
        ELSE IF entry.state[slot] = "absent" /\ ~e.absent
             THEN Error(s, "delivered after it was known absent")
        ELSE IF /\ entry.state[slot] = "absent"
                /\ ~fresh \/ Missing(entry) # {}
             THEN SetEntry(s, n, k, told)
        ELSE IF e.absent /\ slot \in G.required[n]
             THEN DropInstance(ReleaseJoin(s, n, k), c, id, n, k)
        ELSE IF Missing(filed) # {} THEN kept
        ELSE QueueFire(kept, c, id, n, k)

\* History: the instances node n has fired.
Instances(n) == {f.k : f \in seen.fired[n]}

\* The windows published so far on a port; those of an indexed node, which it
\* gets on its first input; whether instance k of a wire's producer exists.
Published(port) == ingest.layout[port] \intersect 0..(ingest.next - 1)
Windows(n) == Published(WireInto(n, 1).port)
Exists(wire, k) == k \in IF Indexed(wire.from) THEN Windows(wire.from)
                         ELSE Published(wire.port)

\* Whether input i of instance k was promised a producer instance.
Guaranteed(n, i, k) ==
    <<n, i>> \in G.guaranteed /\ Exists(WireInto(n, i), k + WireInto(n, i).off)

\* Mutant: an instance still pending at the end of the shot never existed.
ResolveAsAbsent(s, c, id, n) ==
    [s |-> [s EXCEPT !.joins[n] = [k \in {j \in DOMAIN @ : Missing(@[j]) = {}} |-> @[k]]],
     more |-> FALSE]

\* resolve_joins_locked(): at the end of the shot a pending instance with its
\* required inputs fires with the rest absent, and another never existed.
\* Stops, and says so, once half of the event store is in use.
ResolveJoin(t, c, id, n, k) ==
    LET entry == t.s.joins[n][k]
        whole == [entry EXCEPT !.state = [i \in DOMAIN @ |->
                    IF @[i] = "missing" THEN "absent" ELSE @[i]]]
    IN  IF t.more \/ 2 * Cardinality(DOMAIN t.s.ctx[c].ev) >= G.slots
        THEN [t EXCEPT !.more = TRUE]
        ELSE IF Missing(entry) \intersect G.required[n] # {}
        THEN [t EXCEPT !.s = ReleaseJoin(@, n, k)]
        ELSE IF \E i \in Missing(entry) : Guaranteed(n, i, k)
        THEN [t EXCEPT !.s = Error(@, "a guaranteed input never arrived")]
        ELSE [t EXCEPT !.s = QueueFire(SetEntry(@, n, k, whole), c, id, n, k)]
ResolveJoins(s, c, id, n) ==
    FoldLeft(LAMBDA t, k : ResolveJoin(t, c, id, n, k), [s |-> s, more |-> FALSE],
             Ascending({k \in DOMAIN s.joins[n] : Missing(s.joins[n][k]) # {}}))

-----------------------------------------------------------------------------
(* Workers: execute_loop()                                                  *)

Idle == [pc |-> "look", c |-> 0, id |-> 0, pubs |-> <<>>]
At(w, pc) == worker[w].pc = pc
EvOf(w) == Ev(sched, worker[w].c, worker[w].id)
\* Workers whose event still counts as running.
Busy(ws) == {w \in Workers : ws[w].pc \in {"run", "pub", "settle", "ran"}}
Until(s) == IF Async THEN coord.pc = "ended"
            ELSE \A c \in Contexts : s.ctx[c].ev = NoEvents

\* notify_workers(): every parked worker looks again.  One that would find
\* nothing parks at once, and is left parked here.
Woken(ws) == [w \in Workers |-> IF ws[w].pc = "wait" THEN Idle ELSE ws[w]]
Notified(ws, s) ==
    IF /\ \E w \in Workers : ws[w].pc = "wait"
       /\ IF s.stop THEN Busy(ws) = {} ELSE Until(s) \/ HasReady(s)
    THEN Woken(ws) ELSE ws

\* What worker w does in state s with the ready event r: leave, park or run.
Take(w, s, r) ==
    LET free == [worker EXCEPT ![w] = Idle]
        ws == [worker EXCEPT ![w] =
                 IF s.stop
                 THEN [Idle EXCEPT !.pc = IF Busy(free) = {} THEN "exit" ELSE "wait"]
                 ELSE IF Until(s) THEN [Idle EXCEPT !.pc = "exit"]
                 ELSE IF r = <<>> THEN [Idle EXCEPT !.pc = "wait"]
                 ELSE [Idle EXCEPT !.pc = "run", !.c = r[1], !.id = r[2]]]
    IN  /\ sched' = IF s.stop \/ Until(s) \/ r = <<>> THEN s
                    ELSE Claim(s, r[1], r[2])
        /\ worker' = IF At(w, "ran") THEN Notified(ws, sched') ELSE ws

Select(w, s) == Take(w, s, Ready(s))

\* Finish the event just run and select the next, under one lock.
Look(w) ==
    /\ worker[w].pc \in {"look", "ran"}
    /\ Select(w, IF At(w, "ran") THEN Finish(sched, worker[w].c, worker[w].id)
                 ELSE sched)
    /\ UNCHANGED <<graph, coord, ingest, seen>>

\* A critical section of the event worker w runs: the new scheduler state,
\* where w goes, and every parked worker woken.
Step(w, s, pc, pubs) ==
    /\ sched' = s
    /\ worker' = Notified([worker EXCEPT ![w].pc = pc, ![w].pubs = pubs], s)
    /\ UNCHANGED <<graph, coord>>

\* History: the record and branch a record-ordered node sees a value from.
KeyOf(w) ==
    LET e == EvOf(w)
        record == IF Async THEN sched.ctx[worker[w].c].seq ELSE G.records - coord.left
    IN  <<record>> \o (IF e.kind = "raw" THEN <<e.root, e.off>> ELSE e.path)

Saw(w) ==
    IF Ordered(EvOf(w).node) /\ sched.ctx[worker[w].c].phase = "enqueue"
       /\ (EvOf(w).wire # 0 => ~G.wires[EvOf(w).wire].done)
    THEN [seen EXCEPT !.key[EvOf(w).node] = KeyOf(w)]
    ELSE seen

ChunkOf(w) == IF sched.ctx[worker[w].c].phase = "flush" THEN <<KeyOf(w)[1]>>
              ELSE SubSeq(KeyOf(w), 1, 3)

\* History: the chunks the deliveries of a counting node's window stem from.
Window(w) ==
    LET n == EvOf(w).node
    IN  IF G.fires[n] # "last" THEN seen.window
        ELSE [seen.window EXCEPT ![n] = (IF sched.count[n] = 0 THEN {} ELSE @)
                                        \union {ChunkOf(w)}]

\* The publications a raw chunk readies: one or none; the ingest node's next
\* windows, at most G.burst of them, with FINAL as many as are left.
LastIndex == Max((UNION {ingest.layout[p] : p \in DOMAIN ingest.layout}) \union {-1})
IsIngest(n) == \E w \in C.valuesFrom[n] : Indexed(G.wires[w].to)
IngestPorts(j) == {p \in DOMAIN ingest.layout : j \in ingest.layout[p]}
RawPublications(n, final) ==
    LET one == <<[ports |-> Ports(n), idx |-> NoIndex]>>
        most == IF LastIndex < ingest.next + G.burst - 1 THEN LastIndex
                ELSE ingest.next + G.burst - 1
        upto(m) == [i \in 1..(m - ingest.next + 1) |->
                      [ports |-> IngestPorts(ingest.next + i - 1),
                       idx |-> ingest.next + i - 1]]
    IN  IF ~IsIngest(n) THEN {<<>>, one}
        ELSE IF final THEN {upto(most)}
        ELSE {upto(m) : m \in (ingest.next - 1)..most}

\* Mutant: every chunk of a record of several operations runs in place.
InPlace(s, c, id, fired) ==
    LET e == Ev(s, c, id)
    IN  IF e.off + 1 = s.ctx[c].len \/ s.stop THEN [s |-> s, pc |-> "ran"]
        ELSE [s |-> [s EXCEPT !.ctx[c].ev[id].off = @ + 1,
                              !.ctx[c].ev[id].op = @ + 1], pc |-> "run"]

\* After the chunk: the next one runs in place when nothing was delivered
\* from a record of several operations, else once the subtree has drained.
AfterChunk(s, c, id, fired) ==
    LET e == Ev(s, c, id)
        x == s.ctx[c]
        op == IF Operations(x) > 1 THEN e.op + 1 ELSE e.op
        quiet == C.valuesFrom[e.node] = {} /\ C.donesFrom[e.node] = {}
    IN  IF e.off + 1 = x.len \/ s.stop THEN [s |-> s, pc |-> "ran"]
        ELSE IF Operations(x) > 1 /\ (~fired \/ quiet)
        THEN [s |-> [s EXCEPT !.ctx[c].ev[id] = [e EXCEPT !.off = e.off + 1, !.op = op]],
              pc |-> "run"]
        ELSE [s |-> [s EXCEPT !.ctx[c].ev[id].cont = <<e.off + 1, op>>],
              pc |-> "ran"]

ChunkDone(w, after, pubs) == Step(w, after.s, after.pc, pubs)

\* Publish the first of `pubs'; publish_next() hands over the others.
PublishFirst(w, pubs) ==
    LET c == worker[w].c
        id == worker[w].id
        n == EvOf(w).node
        next(s) == IF Len(pubs) = 1 THEN AfterChunk(s, c, id, TRUE)
                   ELSE [s |-> s, pc |-> "pub"]
    IN  /\ ChunkDone(w, next(Publish(sched, c, id, n, pubs[1].ports,
                                      pubs[1].idx, NoIndex)), Tail(pubs))
        /\ ingest' = IF IsIngest(n) THEN [ingest EXCEPT !.next = pubs[1].idx + 1]
                     ELSE ingest

\* History: when a port's window, or its absence, became known.
Known(w, pub) ==
    IF ~IsIngest(EvOf(w).node) THEN seen.known
    ELSE [p \in DOMAIN seen.known |->
            IF p \notin pub.ports THEN seen.known[p]
            ELSE [j \in 0..pub.idx |-> IF j \in DOMAIN seen.known[p]
                                       THEN seen.known[p][j]
                                       ELSE EvOf(w).op]]

ExecuteRaw(w) ==
    /\ At(w, "run") /\ EvOf(w).kind = "raw"
    /\ LET x == sched.ctx[worker[w].c]
       IN  \E pubs \in RawPublications(EvOf(w).node,
                                       x.final /\ EvOf(w).off + 1 = x.len) :
             IF pubs = <<>>
             THEN /\ ChunkDone(w, AfterChunk(sched, worker[w].c, worker[w].id,
                                             FALSE), <<>>)
                  /\ seen' = Saw(w)
                  /\ UNCHANGED ingest
             ELSE /\ PublishFirst(w, pubs)
                  /\ seen' = [Saw(w) EXCEPT !.known = Known(w, pubs[1])]

PublishNext(w) ==
    /\ At(w, "pub")
    /\ PublishFirst(w, worker[w].pubs)
    /\ seen' = [seen EXCEPT !.known = Known(w, worker[w].pubs[1])]

\* Whether a delivery makes the node fire: as it likes, always, never, or
\* with its last input.
FireChoices(n, count) ==
    CASE G.fires[n] = "may" -> BOOLEAN
      [] G.fires[n] = "always" -> {TRUE}
      [] G.fires[n] = "never" -> {FALSE}
      [] G.fires[n] = "last" -> {count = C.wiresTo[n]}

\* Mutant: the window closes one delivery early.
FullEarly(n, count) == count + 1 = C.wiresTo[n]

\* A node's window closes with its last delivery.
WindowFull(n, count) == count = C.wiresTo[n]

\* deliver_streaming_edge(): a pooled node counts its deliveries per record,
\* a record-ordered one across records.
ExecuteEdge(w) ==
    /\ At(w, "run") /\ EvOf(w).kind = "edge"
    /\ LET c == worker[w].c
           id == worker[w].id
           n == EvOf(w).node
           count == (IF Pooled(n) THEN sched.ctx[c].count[n] ELSE sched.count[n]) + 1
           full == WindowFull(n, count)
           counted(s) ==
               IF Pooled(n)
               THEN [s EXCEPT !.ctx[c] =
                       [s.ctx[c] EXCEPT !.count[n] = IF full THEN 0 ELSE count,
                                        !.ev[id].frees = full]]
               ELSE [s EXCEPT !.count[n] = IF full THEN 0 ELSE count]
       IN  IF Indexed(n)
           THEN Step(w, DeliverIndexed(sched, c, id), "ran", <<>>)
           ELSE \E fired \in FireChoices(n, count) :
                  Step(w, counted(IF fired
                                  THEN Publish(sched, c, id, n, Ports(n),
                                               NoIndex, NoIndex)
                                  ELSE IF full
                                  THEN PublishDone(sched, c, id, n, NoIndex)
                                  ELSE sched), "ran", <<>>)
    /\ seen' = [Saw(w) EXCEPT !.window = Window(w)]
    /\ UNCHANGED ingest

\* execute_indexed_fire(): fire() returns FALSE only with a failure, which
\* Throw covers.
ExecuteFire(w) ==
    /\ At(w, "run") /\ EvOf(w).kind = "fire"
    /\ LET c == worker[w].c
           e == EvOf(w)
           entry == sched.joins[e.node][e.idx]
           got == {i \in Slots(e.node) : entry.state[i] = "present"}
       IN  /\ Step(w, Publish(sched, c, worker[w].id, e.node, Ports(e.node),
                              NoIndex, e.idx), "ran", <<>>)
           /\ seen' = [seen EXCEPT !.fired[e.node] =
                         @ \union {[k |-> e.idx, op |-> e.op, got |-> got]},
                       !.twice = @ \/ e.idx \in Instances(e.node)]
    /\ UNCHANGED ingest

\* Mutant: the node's numbering runs on into the next shot.
FlushKeepsNumbering(s, c, id, fired) ==
    LET n == Ev(s, c, id).node
        t == IF fired THEN Publish(s, c, id, n, Ports(n), NoIndex, NoIndex) ELSE s
    IN  Push(t, c, [Event("release", n) EXCEPT !.parent = id, !.wait = TRUE])

\* The end of a node's flush: what it withheld is published, its wires'
\* numbering starts over, and its dependents follow once all that is done.
FlushNode(s, c, id, fired) ==
    LET n == Ev(s, c, id).node
        renumbered(t) ==
            [t EXCEPT !.dropped[n] = {},
                      !.last = [w \in DOMAIN @ |->
                         IF w \in C.valuesFrom[n] THEN NoIndex ELSE @[w]]]
    IN  Push(renumbered(IF fired
                        THEN Publish(s, c, id, n, Ports(n), NoIndex, NoIndex)
                        ELSE s),
             c, [Event("release", n) EXCEPT !.parent = id, !.wait = TRUE])

\* execute_flush(): an indexed node first resolves its pending instances.
ExecuteFlush(w) ==
    /\ At(w, "run") /\ EvOf(w).kind = "flush"
    /\ LET c == worker[w].c
           id == worker[w].id
           e == EvOf(w)
           again == [Event("flush", e.node) EXCEPT
                       !.root = e.root, !.off = e.off, !.parent = id, !.wait = TRUE]
           r == ResolveJoins(sched, c, id, e.node)
       IN  IF Indexed(e.node)
           THEN IF r.more THEN Step(w, Push(r.s, c, again), "ran", <<>>)
                ELSE Step(w, r.s, "settle", <<>>)
           ELSE \E fired \in (IF G.fires[e.node] = "may" /\ ~IsIngest(e.node)
                              THEN BOOLEAN ELSE {FALSE}) :
                  Step(w, FlushNode(sched, c, id, fired), "ran", <<>>)
    /\ UNCHANGED <<ingest, seen>>

\* Earlier records' fires may still run: a second pass ends the node's shot
\* once they have finished.
SettleFlush(w) ==
    /\ At(w, "settle")
    /\ LET c == worker[w].c
           id == worker[w].id
           e == EvOf(w)
           resolved == [Event("flush", e.node) EXCEPT
                          !.root = e.root, !.off = 1, !.parent = id, !.wait = TRUE]
       IN  IF e.off # 1 /\ ~OthersQuiet(sched, c, e.node)
           THEN Step(w, Push(sched, c, resolved), "ran", <<>>)
           ELSE Step(w, FlushNode(sched, c, id, FALSE), "ran", <<>>)
    /\ UNCHANGED <<ingest, seen>>

\* release_dependencies(): a dependent whose last producer this was follows.
ReleaseDependency(s, c, n, kind, d) ==
    LET u == [s EXCEPT !.ctx[c].deps[d] = @ \ {n}]
    IN  IF u.ctx[c].deps[d] = {} THEN Push(u, c, Event(kind, d)) ELSE u
ReleaseDependencies(s, c, n, kind) ==
    FoldLeft(LAMBDA t, d : ReleaseDependency(t, c, n, kind, d), s,
             Ascending(C.dependents[n]))

ExecuteRelease(w) ==
    /\ At(w, "run") /\ EvOf(w).kind = "release"
    /\ Step(w, ReleaseDependencies(sched, worker[w].c, EvOf(w).node, "flush"),
            "ran", <<>>)
    /\ UNCHANGED <<ingest, seen>>

ExecuteOneShot(w) ==
    /\ At(w, "run") /\ EvOf(w).kind = "one"
    /\ Step(w, ReleaseDependencies(sched, worker[w].c, EvOf(w).node, "one"),
            "ran", <<>>)
    /\ seen' = [seen EXCEPT !.ran = @ \union {EvOf(w).node}]
    /\ UNCHANGED ingest

\* fail(): the worker leaves, the others drain.
Throw(w) ==
    /\ G.faults /\ worker[w].pc \in {"run", "pub", "settle"}
    /\ LET e == EvOf(w)
           s == IF e.kind = "fire" THEN ReleaseJoin(sched, e.node, e.idx) ELSE sched
       IN  sched' = [Error(s, "node") EXCEPT !.ctx[worker[w].c].ev[worker[w].id].st = "done"]
    /\ worker' = Woken([worker EXCEPT ![w] = [Idle EXCEPT !.pc = "exit"]])
    /\ UNCHANGED <<graph, coord, ingest, seen>>

-----------------------------------------------------------------------------
(* The coordinator: dispatch_async_session(), or the synchronous caller of  *)
(* enqueue_sweep(), flush_sweep() and run_dag_parallel().                   *)

\* activate_locked(): nodes the record never touches are handed on at once.
Activate(s, c) ==
    LET t == [s EXCEPT !.ctx[c] = [s.ctx[c] EXCEPT
                                            !.gated = Async,
                                            !.seq = IF Async THEN s.next ELSE 0],
                       !.next = IF Async THEN @ + 1 ELSE @]
        passed == IF Async
                  THEN FoldLeft(LAMBDA v, n : TryRelease(v, c, n), t,
                                [n \in 1..Len(G.kind) |-> n])
                  ELSE t
        activated(v) == IF v.ctx[c].ev = NoEvents THEN MarkComplete(v, c) ELSE v
    IN  activated([passed EXCEPT !.active = Append(@, c)])

\* Fill a free context, push its first events and activate it.
Open(c, x, firsts) ==
    LET s == [sched EXCEPT !.ctx[c] = x]
        t == FoldLeft(LAMBDA u, e : Push(u, c, e), s, firsts)
    IN  /\ sched' = Activate(t, c)
        /\ worker' = IF Async THEN Notified(worker, sched')
                     ELSE [w \in Workers |-> Idle]

Roots(kind, nodes) ==
    LET order == Ascending(nodes)
    IN  [i \in DOMAIN order |-> [Event(kind, order[i]) EXCEPT
                                   !.root = IF kind = "one" THEN 0 ELSE order[i]]]

MayOpen == /\ coord.pc = "run" /\ ~sched.stop
           /\ ~Async => sched.active = <<>> /\ \A w \in Workers : At(w, "exit")

FreeContexts == {c \in Contexts : ~sched.ctx[c].inUse}

\* A record: one operation of one chunk, a piece of one ("cut"), one of two
\* chunks ("long"), or two operations admitted together ("two").  FINAL is a
\* record of its own.
Shapes == LET whole == G.shapes \ {"cut", "two"}
          IN  IF ~coord.cut /\ (coord.left > 1 \/ ~G.final) THEN G.shapes
              ELSE IF coord.cut \/ whole = {} THEN {"one"} ELSE whole

Admit ==
    /\ MayOpen /\ coord.left > 0 /\ FreeContexts # {} /\ G.mode # "one_shot"
    /\ \E shape \in Shapes :
         LET final == G.final /\ coord.left = 1
             take == IF shape = "two" THEN 2 ELSE 1
             x == [FreeContext EXCEPT
                     !.inUse = TRUE, !.phase = "enqueue", !.final = final,
                     !.first = coord.op, !.last = coord.op + take - 1,
                     !.len = IF shape \in {"two", "long"} THEN 2 ELSE 1]
         IN  /\ Open(Min(FreeContexts), x, Roots("raw", G.raw))
             /\ coord' = [coord EXCEPT
                            !.left = @ - 1, !.cut = (shape = "cut"),
                            !.op = IF shape = "cut" THEN @ ELSE @ + take]
    /\ UNCHANGED <<graph, ingest, seen>>

\* FINAL's flush follows it as a gated context of its own; a finish without
\* FINAL flushes once every record has retired.
AdmitFlush ==
    /\ MayOpen /\ coord.left = 0 /\ ~coord.flushed /\ FreeContexts # {}
    /\ G.final \/ sched.active = <<>>
    /\ LET sources == {n \in Nodes : C.producers[n] = {}}
           x == [FreeContext EXCEPT
                   !.inUse = TRUE, !.phase = "flush", !.first = coord.op - 1,
                   !.last = coord.op - 1, !.deps = C.producers]
       IN  Open(Min(FreeContexts), x, Roots("flush", sources))
    /\ coord' = [coord EXCEPT !.flushed = TRUE]
    /\ UNCHANGED <<graph, ingest, seen>>

\* run_dag_parallel(): one event per node, in dependency order.
AdmitOneShot ==
    /\ MayOpen /\ coord.left > 0 /\ FreeContexts # {} /\ G.mode = "one_shot"
    /\ LET sources == {n \in Nodes : C.producers[n] = {}}
           x == [FreeContext EXCEPT !.inUse = TRUE, !.phase = "one_shot",
                                    !.deps = C.producers]
       IN  Open(Min(FreeContexts), x, Roots("one", sources))
    /\ coord' = [coord EXCEPT !.left = @ - 1, !.flushed = TRUE]
    /\ UNCHANGED <<graph, ingest, seen>>

CompletePrefix ==
    LET n == CHOOSE m \in 0..Len(sched.active) :
               /\ \A i \in 1..m : sched.ctx[sched.active[i]].complete
               /\ m < Len(sched.active) => ~sched.ctx[sched.active[m + 1]].complete
    IN  SubSeq(sched.active, 1, n)

\* Fold the finished records, oldest first, and free their contexts.
Retire ==
    /\ coord.pc = "run" /\ ~sched.stop /\ CompletePrefix # <<>>
    /\ ~Async => \A w \in Workers : At(w, "exit")
    /\ sched' = [sched EXCEPT
                   !.ctx = [c \in Contexts |-> IF c \in ToSet(CompletePrefix)
                                              THEN FreeContext ELSE @[c]],
                   !.active = SubSeq(@, Len(CompletePrefix) + 1, Len(@))]
    /\ coord' = [coord EXCEPT !.finalized = @ \/ \E c \in ToSet(CompletePrefix) :
                                 sched.ctx[c].phase = "flush"]
    /\ UNCHANGED <<graph, worker, ingest, seen>>

Cancel ==
    /\ G.faults /\ Async /\ coord.pc = "run" /\ ~sched.stop
    /\ sched' = [sched EXCEPT !.stop = TRUE]
    /\ worker' = Woken(worker)
    /\ UNCHANGED <<graph, coord, ingest, seen>>

\* No worker holds an event.
WorkersQuiet == IF Async THEN Busy(worker) = {} ELSE \A w \in Workers : At(w, "exit")

\* A stopped session ends once no event runs; its records are discarded.
EndStopped ==
    /\ coord.pc = "run" /\ sched.stop
    /\ WorkersQuiet
    /\ sched' = [FreshSched EXCEPT !.turn = sched.turn, !.next = sched.next]
    /\ coord' = [coord EXCEPT !.pc = "ended", !.failed = TRUE]
    /\ worker' = Woken(worker)
    /\ UNCHANGED <<graph, ingest, seen>>

EndSession ==
    /\ coord.pc = "run" /\ ~sched.stop /\ coord.left = 0
    /\ sched.active = <<>> /\ coord.flushed
    /\ coord' = [coord EXCEPT !.pc = "ended"]
    /\ worker' = Woken(worker)
    /\ UNCHANGED <<graph, sched, ingest, seen>>

FreshCoord(shots) ==
    [pc |-> "run", op |-> 0, left |-> G.records, cut |-> FALSE, flushed |-> FALSE,
     finalized |-> FALSE, failed |-> FALSE, shots |-> shots]

NothingSeen ==
    [key |-> [n \in Nodes |-> <<>>], ran |-> {}, twice |-> FALSE,
     window |-> [n \in Nodes |-> {}],
     fired |-> [n \in Nodes |-> {}],
     known |-> [p \in DOMAIN ingest.layout |-> <<>>]]

WorkersAtStart == [w \in Workers |-> IF Async THEN Idle ELSE [Idle EXCEPT !.pc = "exit"]]

\* The next shot: begin_session() numbers records from zero and leaves the
\* rest of the scheduler as the last shot left it.
NextShot ==
    /\ coord.pc = "ended" /\ coord.shots > 1
    /\ \A w \in Workers : At(w, "exit")
    /\ sched' = [sched EXCEPT !.turn = [n \in Nodes |-> 0], !.next = 0]
    /\ coord' = FreshCoord(coord.shots - 1)
    /\ worker' = WorkersAtStart
    /\ ingest' = [ingest EXCEPT !.next = 0]
    /\ seen' = NothingSeen
    /\ UNCHANGED graph

Finished == /\ coord.pc = "ended" /\ coord.shots = 1
            /\ \A w \in Workers : At(w, "exit")

-----------------------------------------------------------------------------
Init ==
    /\ graph \in {Compiled(Graphs[x]) : x \in DOMAIN Graphs}
    /\ \E layout \in G.layouts : ingest = [layout |-> layout, next |-> 0]
    /\ sched = FreshSched
    /\ coord = FreshCoord(G.shots)
    /\ worker = WorkersAtStart
    /\ seen = NothingSeen

WorkerStep(w) ==
    \/ Look(w) \/ ExecuteRaw(w) \/ PublishNext(w) \/ ExecuteEdge(w)
    \/ ExecuteFire(w) \/ ExecuteFlush(w) \/ SettleFlush(w)
    \/ ExecuteRelease(w) \/ ExecuteOneShot(w)

Dispatch == \/ Admit \/ AdmitFlush \/ AdmitOneShot \/ Retire
            \/ EndStopped \/ EndSession \/ NextShot

Next == \/ \E w \in Workers : WorkerStep(w) \/ Throw(w)
        \/ Dispatch \/ Cancel
        \/ Finished /\ UNCHANGED vars

Spec == Init /\ [][Next]_vars

-----------------------------------------------------------------------------
(* Properties                                                               *)

TypeOK ==
    /\ WellFormed(G)
    /\ \A c \in Contexts :
         /\ ToSet(sched.ctx[c].ready) \subseteq DOMAIN sched.ctx[c].ev
         /\ sched.ctx[c].released \subseteq Nodes
    /\ sched.turn \in [Nodes -> Nat]
    /\ \A w \in Workers :
         /\ worker[w].pc \in {"look", "wait", "run", "pub", "settle", "ran", "exit"}
         /\ worker[w].pc \in {"run", "pub", "settle", "ran"} =>
              worker[w].id \in DOMAIN sched.ctx[worker[w].c].ev

LexLess(a, b) ==
    \E i \in DOMAIN b :
      /\ \A j \in 1..(i - 1) : j \in DOMAIN a /\ a[j] = b[j]
      /\ i \in DOMAIN a => a[i] < b[i]

\* A record-ordered node is given its values in the order a single worker
\* running the records one by one, branch after branch in declared order,
\* would give them, however the workers interleave.
SequentialOrder ==
    [][\A n \in Nodes :
         LET a == seen.key[n]
             b == seen.key[n]'
         IN  a # <<>> /\ b # <<>> /\ a # b =>
               IF n \in G.rendezvous THEN a[1] <= b[1] ELSE LexLess(a, b)]_vars

\* An undelivered value still lies in its record's buffer of the wire: no
\* later publication of the record replaced it before its consumer ran.
ValuesIntact ==
    \A c \in Contexts : \A id \in DOMAIN sched.ctx[c].ev :
      LET e == Ev(sched, c, id)
      IN  /\ e.kind = "edge" /\ e.st # "done"
          /\ ~G.wires[e.wire].done /\ ~Indexed(e.node)
          => e.val = sched.ctx[c].val[e.wire]

\* An indexed node fires an instance at most once; when the shot's flush has
\* run, it has fired exactly the instances whose window was published, each
\* with exactly the inputs whose producer instance existed.
JoinsExact ==
    ~coord.failed /\ ~sched.stop =>
    /\ ~seen.twice
    /\ coord.finalized =>
         \A n \in {m \in Nodes : Indexed(m)} :
           /\ Instances(n) = Windows(n)
           /\ \A f \in seen.fired[n] :
                f.got = {1} \union {j \in Slots(n) \ {1} :
                                     Exists(WireInto(n, j),
                                            f.k + WireInto(n, j).off)}

\* The join of an ensemble decides once per chunk, on that chunk's selection
\* and the completion of every member's work on it: deliveries are counted
\* across records and never mix two chunks.
WindowsWhole == \A n \in Nodes : Cardinality(seen.window[n]) <= 1

\* The operation from which the outcome of instance k of node n follows: the
\* latest that brought its window or settled an input of it.
Cause(flushOp) ==
    LET last == Max({ingest.next - 1, 0})
        known(port, k) == IF k \in DOMAIN seen.known[port]
                          THEN seen.known[port][k] ELSE flushOp
        cause[k \in 0..last, n \in Nodes] ==
            LET of(w) == IF Indexed(w.from) THEN cause[k + w.off, w.from]
                         ELSE known(w.port, k + w.off)
            IN  IF ~Indexed(n) THEN 0
                ELSE IF k \notin Windows(n) THEN known(WireInto(n, 1).port, k)
                ELSE Max({of(w) : w \in {v \in Wires(G) :
                                           v.to = n /\ k + v.off >= 0}})
    IN  cause

\* A result is counted with the operation a synchronous graph would count it
\* with: the latest one its inputs follow from.
OperationAttribution ==
    coord.finalized /\ ~coord.failed =>
    \A n \in {m \in Nodes : Indexed(m)} : \A f \in seen.fired[n] :
      f.op = Cause(coord.op - 1)[f.k, n]

\* No internal error the scheduler throws on is reachable: not an overflow of
\* the event store, an input delivered twice or after it was announced
\* absent, a lost input, or a result no active record holds the operation of.
NoInternalError == sched.error \in {"none", "node"}

\* A shot that ends normally leaves nothing behind for the next one.
CleanShot ==
    coord.pc = "ended" /\ ~coord.failed =>
      /\ \A c \in Contexts : sched.ctx[c] = FreeContext
      /\ \A n \in Nodes : /\ DOMAIN sched.joins[n] = {} /\ sched.dropped[n] = {}
                          /\ C.donesFrom[n] # {} => sched.count[n] = 0
      /\ \A w \in DOMAIN sched.last : sched.last[w] = NoIndex

\* Mutant: the table holds the running fires alone.
CapacityOfCopies(n) == G.copies[n]

\* The entries a join table is built with: what the records in flight publish
\* to it, how far it runs ahead of them, and a running fire per copy.
JoinCapacity(n) == NumContexts * C.inflow[n] + C.lead[n] + G.copies[n]

\* Whether instance k of node n waits for a window past the last its port has:
\* only the flush settles it.
WaitsForFlush(n, k) ==
    \E i \in Missing(sched.joins[n][k]) :
      LET w == WireInto(n, i)
      IN  IsIngest(w.from) /\ \A j \in ingest.layout[w.port] : j < k + w.off

\* Live instances lie closer together than the table is long, so each has its
\* home entry to itself and the table never grows.  Instances only the flush
\* can settle are the exception: the table grows with them.
JoinTableFits ==
    \A n \in Nodes :
      LET live == {k \in DOMAIN sched.joins[n] : ~WaitsForFlush(n, k)}
      IN  \A i, j \in live : i - j < JoinCapacity(n)

\* While a record is unfinished, some event is running or can be taken: the
\* scheduler's own "event queue stalled" is unreachable.
SomethingToDo ==
    /\ ~sched.stop /\ Running(sched) = {}
    /\ \E c \in ActiveSet(sched) : ~sched.ctx[c].complete
    => Ready(sched) # <<>>

\* The workers are not all parked beside an event one of them could take.
NoLostWakeup ==
    Async /\ (\A w \in Workers : At(w, "wait")) /\ ~sched.stop
    => Ready(sched) = <<>>

\* No record waits for ever: there is something to do, and a worker to do it.
NoStall == SomethingToDo /\ NoLostWakeup
============================================================================
