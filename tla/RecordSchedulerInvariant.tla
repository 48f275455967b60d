---------------------- MODULE RecordSchedulerInvariant ----------------------
(***************************************************************************)
(* The inductive invariant of RecordScheduler: the causal tree and the     *)
(* ready queue of a context, who uses a node or a copy of one, whose turn  *)
(* a node serves, and which event each worker runs.  The parts are stated  *)
(* of any scheduler state `s', since a critical section goes through       *)
(* several before it unlocks.                                              *)
(***************************************************************************)
EXTENDS RecordScheduler

-----------------------------------------------------------------------------
(* A context                                                                *)

EventFields == {"kind", "node", "wire", "root", "idx", "absent", "off", "op",
                "val", "path", "parent", "block", "wait", "kids", "st", "cont",
                "rep", "frees"}

IsEvent(e) ==
    /\ DOMAIN e = EventFields
    /\ e.node \in Nodes /\ (e.kind = "one" => ~Async)
    /\ e.kind = "edge" => e.wire \in DOMAIN G.wires
    /\ e.idx \in Int /\ e.root \in Int /\ e.off \in Int /\ e.path \in Seq(Int)
    /\ e.cont # <<>> => e.cont[1] \in Int
    /\ e.frees => IsPoolDelivery(e)
    /\ e.kids \in Seq(Nat)

\* The children of an event are those that name it as their parent, each once.
Tree(ev) ==
    \A id \in DOMAIN ev :
      /\ ev[id].parent # 0 =>
           /\ ev[id].parent \in DOMAIN ev
           /\ \E i \in DOMAIN ev[ev[id].parent].kids :
                ev[ev[id].parent].kids[i] = id
      /\ \A i \in DOMAIN ev[id].kids :
           ev[id].kids[i] \in DOMAIN ev /\ ev[ev[id].kids[i]].parent = id
      /\ IsInjective(ev[id].kids)

\* The ready queue holds queued events of the context, each once.
ReadyQueue(x) ==
    /\ x.ready \in Seq(Nat) /\ IsInjective(x.ready)
    /\ \A i \in DOMAIN x.ready : /\ x.ready[i] \in DOMAIN x.ev
                                 /\ x.ev[x.ready[i]].st = "queued"

ContextFields == {"inUse", "complete", "gated", "seq", "phase", "first", "last",
                  "len", "final", "ev", "ready", "rootDone", "released", "lease",
                  "count", "val", "deps"}

Context(x) ==
    /\ DOMAIN x = ContextFields
    /\ IsFiniteSet(DOMAIN x.ev) /\ DOMAIN x.ev \subseteq Nat \ {0}
    /\ \A id \in DOMAIN x.ev : IsEvent(x.ev[id])
    /\ Tree(x.ev) /\ ReadyQueue(x)
    /\ x.lease \in [Nodes -> Nat] /\ x.released \subseteq Nodes
    /\ x.complete => DOMAIN x.ev = {} /\ \A n \in Nodes : x.lease[n] = 0

Runs(x, id) == id \in DOMAIN x.ev /\ x.ev[id].st = "running"

-----------------------------------------------------------------------------
(* The scheduler                                                            *)

SchedFields == {"ctx", "active", "turn", "next", "joins", "dropped", "last",
                "count", "stop", "error"}

\* Records in the gate have numbers of their own, all handed out.
Numbered(s) ==
    /\ s.next \in Nat
    /\ \A c \in Contexts : s.ctx[c].gated => /\ Async /\ s.ctx[c].inUse
                                              /\ s.ctx[c].seq \in 0..(s.next - 1)
    /\ \A c, d \in Contexts : s.ctx[c].gated /\ s.ctx[d].gated
                              /\ s.ctx[c].seq = s.ctx[d].seq => c = d

JoinsOK(s) ==
    /\ s.last \in [DOMAIN G.wires -> Int]
    /\ DOMAIN s.joins = Nodes
    /\ \A n \in Nodes : /\ IsFiniteSet(DOMAIN s.joins[n])
                        /\ DOMAIN s.joins[n] \subseteq Nat

Core(s) ==
    /\ DOMAIN s = SchedFields /\ DOMAIN s.ctx = Contexts
    /\ \A c \in Contexts : Context(s.ctx[c])
    /\ s.active \in Seq(Contexts)
    /\ s.turn \in [Nodes -> Nat]
    /\ JoinsOK(s) /\ Numbered(s)

\* At most one running event uses what a node may not share.
NodeExclusive(s) ==
    \A c, d \in Contexts : \A i \in DOMAIN s.ctx[c].ev, j \in DOMAIN s.ctx[d].ev :
      /\ Runs(s.ctx[c], i) /\ Runs(s.ctx[d], j)
      /\ SerializedNode(Ev(s, c, i)) # 0
      /\ SerializedNode(Ev(s, c, i)) = SerializedNode(Ev(s, d, j))
      => c = d /\ i = j

\* A copy of a node is leased to one record or held by one running fire; a
\* running delivery to a pooled node uses its record's lease, alone.
LeasesDistinct(s) ==
    \A c, d \in Contexts : \A n \in Nodes :
      c # d /\ s.ctx[c].lease[n] # 0 => s.ctx[c].lease[n] # s.ctx[d].lease[n]

FiresApart(s) ==
    \A c \in Contexts : \A i \in DOMAIN s.ctx[c].ev :
      Runs(s.ctx[c], i) /\ Ev(s, c, i).kind = "fire" =>
        /\ Ev(s, c, i).rep \in 1..G.copies[Ev(s, c, i).node]
        /\ \A d \in Contexts :
             /\ s.ctx[d].lease[Ev(s, c, i).node] # Ev(s, c, i).rep
             /\ \A j \in DOMAIN s.ctx[d].ev :
                  /\ Runs(s.ctx[d], j) /\ Ev(s, d, j).kind = "fire"
                  /\ Ev(s, d, j).node = Ev(s, c, i).node
                  /\ Ev(s, d, j).rep = Ev(s, c, i).rep
                  => c = d /\ i = j

DeliveriesLeased(s) ==
    \A c \in Contexts : \A i \in DOMAIN s.ctx[c].ev :
      Runs(s.ctx[c], i) /\ IsPoolDelivery(Ev(s, c, i)) =>
        /\ Ev(s, c, i).rep = s.ctx[c].lease[Ev(s, c, i).node]
        /\ Ev(s, c, i).rep # 0
        /\ \A j \in DOMAIN s.ctx[c].ev :
             /\ Runs(s.ctx[c], j) /\ IsPoolDelivery(Ev(s, c, j))
             /\ Ev(s, c, j).node = Ev(s, c, i).node
             => i = j

\* A record-ordered node runs only for the record whose turn it is.
TurnHeld(s) ==
    \A c \in Contexts : \A i \in DOMAIN s.ctx[c].ev :
      /\ Runs(s.ctx[c], i) /\ s.ctx[c].gated /\ Ordered(Ev(s, c, i).node)
      => s.turn[Ev(s, c, i).node] = s.ctx[c].seq

Exclusive(s) ==
    /\ NodeExclusive(s) /\ LeasesDistinct(s) /\ FiresApart(s)
    /\ DeliveriesLeased(s) /\ TurnHeld(s)

\* The active records are the contexts in use, each once; the others are as
\* reset() leaves them.
ActiveOK(s) ==
    /\ IsInjective(s.active)
    /\ \A c \in Contexts :
         /\ s.ctx[c].inUse <=> c \in ActiveSet(s)
         /\ s.ctx[c].inUse => (s.ctx[c].gated <=> Async)
         /\ ~s.ctx[c].inUse => s.ctx[c] = FreeContext

SchedOK(s) == Core(s) /\ Exclusive(s) /\ ActiveOK(s)

-----------------------------------------------------------------------------
(* Workers, coordinator and history                                         *)

BusyAt == {"run", "pub", "settle", "ran"}
Publication == [ports : SUBSET Nat, idx : Int]

\* A busy worker's event exists and is running, and is no other worker's.
WorkersOK(ws, s) ==
    /\ DOMAIN ws = Workers
    /\ \A w \in Workers :
         /\ DOMAIN ws[w] = {"pc", "c", "id", "pubs"}
         /\ ws[w].pc \in {"look", "wait", "exit"} \union BusyAt
         /\ ws[w].pc \in BusyAt => ws[w].c \in Contexts
                                   /\ Runs(s.ctx[ws[w].c], ws[w].id)
         /\ ws[w].pubs \in Seq(Publication)
         /\ ws[w].pc = "pub" => ws[w].pubs # <<>>
    /\ \A w, v \in Workers :
         /\ ws[w].pc \in BusyAt /\ ws[v].pc \in BusyAt
         /\ ws[w].c = ws[v].c /\ ws[w].id = ws[v].id
         => w = v

Topology == WellFormed(G) /\ C = Compile(G)

IngestOK == /\ DOMAIN ingest = {"layout", "next"} /\ ingest.layout \in G.layouts
            /\ ingest.next \in Int

\* The last record a node saw: its turn is not before it.
LastSeen(n) == IF Async THEN sched.turn[n] ELSE G.records - coord.left

SeenOK ==
    /\ DOMAIN coord = {"pc", "op", "left", "cut", "flushed", "finalized",
                       "failed", "shots"}
    /\ coord.left \in Int
    /\ "key" \in DOMAIN seen /\ DOMAIN seen.key = Nodes
    /\ \A n \in Nodes : seen.key[n] # <<>> =>
         seen.key[n][1] \in Int /\ seen.key[n][1] <= LastSeen(n)

\* A session that ended normally has no record left.
EndedClean ==
    coord.pc = "ended" => ~sched.stop /\ sched.active = <<>>

IInv == /\ Topology /\ IngestOK /\ SchedOK(sched) /\ WorkersOK(worker, sched)
        /\ SeenOK /\ EndedClean

-----------------------------------------------------------------------------
(* What the invariant is for                                                *)

UsesCopy(e) == e.kind = "fire" \/ IsPoolDelivery(e)

\* No two workers are in the same record-ordered node, or in the same copy of
\* a pooled or indexed one.
NodesExclusive ==
    \A w, v \in Busy(worker) : w # v =>
      /\ SerializedNode(EvOf(w)) # 0 => SerializedNode(EvOf(w)) # SerializedNode(EvOf(v))
      /\ UsesCopy(EvOf(w)) /\ UsesCopy(EvOf(v)) /\ EvOf(w).node = EvOf(v).node =>
           EvOf(w).rep # EvOf(v).rep

\* A worker is in a record-ordered node only while it is its record's turn.
WorkersInTurn ==
    \A w \in Busy(worker) :
      sched.ctx[worker[w].c].gated /\ Ordered(EvOf(w).node) =>
        sched.turn[EvOf(w).node] = sched.ctx[worker[w].c].seq

\* A record-ordered node sees the records of a shot in their order.
RecordOrder ==
    [][\A n \in Nodes : seen.key[n] # <<>> /\ seen.key[n]' # <<>> =>
                          seen.key[n][1] <= seen.key[n]'[1]]_vars

\* When a session has ended, every context is free again and no worker holds
\* an event, whether or not it failed.
EndedIsIdle ==
    coord.pc = "ended" => /\ \A c \in Contexts : sched.ctx[c] = FreeContext
                          /\ sched.active = <<>> /\ Busy(worker) = {}
=============================================================================
