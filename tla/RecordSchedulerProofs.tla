----------------------- MODULE RecordSchedulerProofs -----------------------
(***************************************************************************)
(* The inductive invariant of RecordScheduler holds: a node or a copy of   *)
(* one is never used by two events at once, a record-ordered node serves   *)
(* the records in sequence, and no ready event is left to parked workers.  *)
(***************************************************************************)
EXTENDS RecordSchedulerSteps

-----------------------------------------------------------------------------
(* Who uses what                                                            *)

\* The running events of t run in s, and leases are kept or given up.
EasesContext(x, y) ==
    /\ \A id : Runs(y, id) => /\ Runs(x, id) /\ y.gated = x.gated /\ y.seq = x.seq
                              /\ y.ev[id].kind = x.ev[id].kind
                              /\ y.ev[id].node = x.ev[id].node
                              /\ y.ev[id].rep = x.ev[id].rep
    /\ \A n \in Nodes :
         \/ y.lease[n] = x.lease[n]
         \/ /\ y.lease[n] = 0
            /\ \A id : Runs(y, id) /\ y.ev[id].node = n => ~IsPoolDelivery(y.ev[id])

Eases(s, t) ==
    /\ \A c \in Contexts : EasesContext(s.ctx[c], t.ctx[c])
    /\ \A c \in Contexts : \A id :
         Runs(t.ctx[c], id) /\ t.ctx[c].gated /\ s.turn[Ev(t, c, id).node] = t.ctx[c].seq
         => t.turn[Ev(t, c, id).node] = t.ctx[c].seq

\* A step that starts no event keeps every event's exclusive use of what it has.
LEMMA EasesExclusive ==
    ASSUME NEW s, NEW t, Core(s), Core(t), Exclusive(s), Eases(s, t)
    PROVE  Exclusive(t)
<1>1. \A c \in Contexts : \A i \in DOMAIN t.ctx[c].ev : Runs(t.ctx[c], i) =>
        /\ Runs(s.ctx[c], i) /\ i \in DOMAIN s.ctx[c].ev
        /\ t.ctx[c].gated = s.ctx[c].gated /\ t.ctx[c].seq = s.ctx[c].seq
        /\ Ev(t, c, i).kind = Ev(s, c, i).kind /\ Ev(t, c, i).node = Ev(s, c, i).node
        /\ Ev(t, c, i).rep = Ev(s, c, i).rep /\ Ev(t, c, i).node \in Nodes
  BY ZenonT(60) DEF Eases, EasesContext, Runs, Ev, Core, Context, IsEvent
<1>2. \A c \in Contexts : \A n \in Nodes :
        t.ctx[c].lease[n] = s.ctx[c].lease[n] \/ t.ctx[c].lease[n] = 0
  BY DEF Eases, EasesContext
<1>3. NodeExclusive(t)
  <2>1. \A c \in Contexts : \A i \in DOMAIN t.ctx[c].ev : Runs(t.ctx[c], i) =>
          SerializedNode(Ev(t, c, i)) = SerializedNode(Ev(s, c, i))
    BY <1>1 DEF SerializedNode
  <2>2. NodeExclusive(s)
    BY DEF Exclusive
  <2> QED
    BY <1>1, <2>1, <2>2 DEF NodeExclusive
<1>4. LeasesDistinct(t)
  BY <1>2 DEF Exclusive, LeasesDistinct
<1>5. FiresApart(t)
  <2> SUFFICES ASSUME NEW c \in Contexts, NEW i \in DOMAIN t.ctx[c].ev,
                      Runs(t.ctx[c], i), Ev(t, c, i).kind = "fire"
      PROVE  /\ Ev(t, c, i).rep \in 1..G.copies[Ev(t, c, i).node]
             /\ \A d \in Contexts :
                  /\ t.ctx[d].lease[Ev(t, c, i).node] # Ev(t, c, i).rep
                  /\ \A j \in DOMAIN t.ctx[d].ev :
                       /\ Runs(t.ctx[d], j) /\ Ev(t, d, j).kind = "fire"
                       /\ Ev(t, d, j).node = Ev(t, c, i).node
                       /\ Ev(t, d, j).rep = Ev(t, c, i).rep
                       => c = d /\ i = j
    BY DEF FiresApart
  <2> DEFINE e == Ev(s, c, i)
  <2>1. /\ Runs(s.ctx[c], i) /\ i \in DOMAIN s.ctx[c].ev /\ e.kind = "fire"
        /\ Ev(t, c, i).node = e.node /\ Ev(t, c, i).rep = e.rep /\ e.node \in Nodes
    BY <1>1
  <2>2. /\ e.rep \in 1..G.copies[e.node]
        /\ \A d \in Contexts :
             /\ s.ctx[d].lease[e.node] # e.rep
             /\ \A j \in DOMAIN s.ctx[d].ev :
                  /\ Runs(s.ctx[d], j) /\ Ev(s, d, j).kind = "fire"
                  /\ Ev(s, d, j).node = e.node /\ Ev(s, d, j).rep = e.rep
                  => c = d /\ i = j
    BY <2>1 DEF Exclusive, FiresApart
  <2>3. e.rep # 0
    BY <2>2
  <2> HIDE DEF e
  <2> QED
    BY <1>1, <1>2, <2>1, <2>2, <2>3
<1>6. DeliveriesLeased(t)
  <2> SUFFICES ASSUME NEW c \in Contexts, NEW i \in DOMAIN t.ctx[c].ev,
                      Runs(t.ctx[c], i), IsPoolDelivery(Ev(t, c, i))
      PROVE  /\ Ev(t, c, i).rep = t.ctx[c].lease[Ev(t, c, i).node]
             /\ Ev(t, c, i).rep # 0
             /\ \A j \in DOMAIN t.ctx[c].ev :
                  /\ Runs(t.ctx[c], j) /\ IsPoolDelivery(Ev(t, c, j))
                  /\ Ev(t, c, j).node = Ev(t, c, i).node
                  => i = j
    BY DEF DeliveriesLeased
  <2>1. \A j \in DOMAIN t.ctx[c].ev : Runs(t.ctx[c], j) /\ IsPoolDelivery(Ev(t, c, j)) =>
          IsPoolDelivery(Ev(s, c, j))
    BY <1>1 DEF IsPoolDelivery
  <2>2. t.ctx[c].lease[Ev(t, c, i).node] = s.ctx[c].lease[Ev(t, c, i).node]
    BY <1>1 DEF Eases, EasesContext, Ev
  <2> QED
    BY <1>1, <2>1, <2>2 DEF Exclusive, DeliveriesLeased
<1>7. TurnHeld(t)
  <2>1. TurnHeld(s)
    BY DEF Exclusive
  <2> QED
    BY <1>1, <2>1 DEF TurnHeld, Eases
<1> QED
  BY <1>3, <1>4, <1>5, <1>6, <1>7 DEF Exclusive

\* A step that starts and ends no event eases.
LEMMA FollowsEases ==
    ASSUME NEW s, NEW t, Follows(s, t)
    PROVE  Eases(s, t)
  BY DEF Follows, Calm, CalmContext, CalmTurns, Eases, EasesContext

\* So the whole of the scheduler's part is kept.
LEMMA FollowsSchedOK ==
    ASSUME NEW s, NEW t, SchedOK(s), Follows(s, t)
    PROVE  SchedOK(t)
<1>1. Core(s) /\ Core(t) /\ Exclusive(s)
  BY DEF SchedOK, Follows
<1>2. Exclusive(t)
  BY <1>1, FollowsEases, EasesExclusive
<1>3. ActiveOK(t)
  <2>1. t.active = s.active /\ \A c \in Contexts : CalmContext(s.ctx[c], t.ctx[c])
    BY DEF Follows, Calm
  <2>2. \A c \in Contexts : /\ t.ctx[c].inUse = s.ctx[c].inUse
                            /\ t.ctx[c].gated = s.ctx[c].gated
                            /\ ~s.ctx[c].inUse => t.ctx[c] = s.ctx[c]
    BY <2>1 DEF CalmContext
  <2> QED
    BY <2>1, <2>2 DEF SchedOK, ActiveOK, ActiveSet
<1> QED
  BY <1>1, <1>2, <1>3 DEF SchedOK

\* An event that runs belongs to a context in use.
LEMMA RunsActs ==
    ASSUME NEW s, NEW c \in Contexts, NEW id, SchedOK(s), Runs(s.ctx[c], id)
    PROVE  Acts(s, c, id)
<1>1. s.ctx[c].inUse
  <2> SUFFICES ASSUME ~s.ctx[c].inUse PROVE FALSE
    <3>1. CASE s.ctx[c].inUse = TRUE
      BY <3>1
    <3> QED
      OBVIOUS
  <2>1. s.ctx[c] = FreeContext
    BY DEF SchedOK, ActiveOK
  <2>2. DOMAIN FreeContext.ev = {}
    BY DEF FreeContext, NoEvents
  <2> QED
    BY <2>1, <2>2 DEF Runs
<1> QED
  BY <1>1 DEF Acts, SchedOK

-----------------------------------------------------------------------------
(* The end of an event                                                      *)

\* Every event but one goes on running.
EndsOnly(s, t, c, id) ==
    /\ \A d \in Contexts : \A i : Runs(s.ctx[d], i) /\ ~(d = c /\ i = id) =>
                                    Runs(t.ctx[d], i)
    /\ \A n \in Nodes : s.turn[n] <= t.turn[n]
    /\ t.active = s.active

\* What later steps keep.
LEMMA EndsOnlyFollows ==
    ASSUME NEW s, NEW t, NEW u, NEW c, NEW id, Core(s), Core(t), EndsOnly(s, t, c, id),
           Follows(t, u)
    PROVE  EndsOnly(s, u, c, id)
<1>1. \A d \in Contexts : \A i : Runs(s.ctx[d], i) /\ ~(d = c /\ i = id) =>
                                   Runs(u.ctx[d], i)
  BY DEF EndsOnly, Follows, Calm, CalmContext
<1>2. \A n \in Nodes : s.turn[n] <= u.turn[n]
  <2>1. \A n \in Nodes : s.turn[n] \in Nat /\ t.turn[n] \in Nat /\ u.turn[n] \in Nat
    BY DEF Follows, Core
  <2>2. \A n \in Nodes : s.turn[n] <= t.turn[n] /\ t.turn[n] <= u.turn[n]
    BY DEF EndsOnly, Follows, Calm, CalmTurns
  <2> QED
    BY <2>1, <2>2
<1>3. u.active = s.active
  BY DEF EndsOnly, Follows, Calm
<1> QED
  BY <1>1, <1>2, <1>3 DEF EndsOnly

\* The context of an event that is done; y is x but for that event and leases.
DoneIn(x, y, id) ==
    /\ DOMAIN y = ContextFields /\ y.inUse = x.inUse /\ y.gated = x.gated
    /\ y.seq = x.seq /\ y.phase = x.phase /\ y.ready = x.ready
    /\ y.released = x.released /\ y.complete = x.complete
    /\ DOMAIN y.ev = DOMAIN x.ev /\ \A i \in DOMAIN x.ev : i # id => y.ev[i] = x.ev[i]
    /\ IsEvent(y.ev[id]) /\ y.ev[id].st = "done" /\ y.ev[id].parent = x.ev[id].parent
    /\ y.ev[id].kids = x.ev[id].kids
    /\ y.lease \in [Nodes -> Nat]

\* The causal tree is told by the parents and the children.
LEMMA TreeKept ==
    ASSUME NEW f, NEW g, Tree(f), DOMAIN g = DOMAIN f,
           \A i \in DOMAIN f : g[i].parent = f[i].parent /\ g[i].kids = f[i].kids
    PROVE  Tree(g)
  BY DEF Tree

\* The event is done, the others of the context go on.
LEMMA DoneContext ==
    ASSUME NEW x, NEW y, NEW id, Context(x), ~x.complete, Runs(x, id), DoneIn(x, y, id)
    PROVE  Context(y) /\ \A i : Runs(y, i) <=> Runs(x, i) /\ i # id
<1>1. id \in DOMAIN x.ev /\ x.ev[id].st = "running"
  BY DEF Runs
<1>2. Tree(y.ev)
  <2>1. \A i \in DOMAIN x.ev : y.ev[i].parent = x.ev[i].parent /\ y.ev[i].kids = x.ev[i].kids
    BY DEF DoneIn
  <2>2. Tree(x.ev) /\ DOMAIN y.ev = DOMAIN x.ev
    BY DEF Context, DoneIn
  <2> QED
    BY <2>1, <2>2, TreeKept
<1>3. ReadyQueue(y)
  <2>1. ReadyQueue(x)
    BY DEF Context
  <2>2. \A i \in DOMAIN x.ready : x.ready[i] # id
    BY <1>1, <2>1 DEF ReadyQueue
  <2> QED
    BY <2>1, <2>2 DEF DoneIn, ReadyQueue
<1>4. \A i \in DOMAIN y.ev : IsEvent(y.ev[i])
  BY DEF Context, DoneIn
<1>5. Context(y)
  BY <1>2, <1>3, <1>4 DEF Context, DoneIn
<1>6. \A i : Runs(y, i) <=> Runs(x, i) /\ i # id
  BY <1>1 DEF Runs, DoneIn
<1> QED
  BY <1>5, <1>6

\* An event ends; a lease it frees is used by no other.
LEMMA EndEvent ==
    ASSUME NEW s, NEW t, NEW c, NEW id, SchedOK(s), Acts(s, c, id), SameElse(s, t, c),
           JoinsOK(t), DoneIn(s.ctx[c], t.ctx[c], id),
           \A n \in Nodes : \/ t.ctx[c].lease[n] = s.ctx[c].lease[n]
                            \/ /\ t.ctx[c].lease[n] = 0 /\ n = Ev(s, c, id).node
                               /\ IsPoolDelivery(Ev(s, c, id))
    PROVE  SchedOK(t) /\ EndsOnly(s, t, c, id)
<1> DEFINE x == s.ctx[c]
           y == t.ctx[c]
<1>1. /\ Core(s) /\ c \in Contexts /\ Context(x) /\ x.inUse /\ ~x.complete /\ Runs(x, id)
  BY ActsEvent DEF Acts
<1>2. Context(y) /\ \A i : Runs(y, i) <=> Runs(x, i) /\ i # id
  <2>1. DoneIn(x, y, id)
    OBVIOUS
  <2> HIDE DEF x, y
  <2> QED
    BY <1>1, <2>1, DoneContext
<1>3. \A d \in Contexts : d # c => t.ctx[d] = s.ctx[d]
  BY DEF SameElse
<1>4. Core(t)
  <2>1. \A d \in Contexts : Context(t.ctx[d])
    BY <1>1, <1>2, <1>3 DEF Core
  <2>2. Numbered(t)
    <3>1. \A d \in Contexts : /\ t.ctx[d].gated = s.ctx[d].gated
                              /\ t.ctx[d].inUse = s.ctx[d].inUse
                              /\ t.ctx[d].seq = s.ctx[d].seq
      BY <1>3 DEF DoneIn
    <3> QED
      BY <1>1, <3>1 DEF Core, Numbered, SameElse
  <2> QED
    BY <1>1, <2>1, <2>2 DEF Core, SameElse
<1>5. Eases(s, t)
  <2>1. ASSUME NEW i, Runs(y, i)
        PROVE  Runs(x, i) /\ y.ev[i] = x.ev[i]
    BY <1>2, <2>1 DEF DoneIn, Runs
  <2>2. ASSUME NEW n \in Nodes, y.lease[n] # x.lease[n], NEW i, Runs(y, i), y.ev[i].node = n
        PROVE  y.lease[n] = 0 /\ ~IsPoolDelivery(y.ev[i])
    <3>1. y.lease[n] = 0 /\ n = Ev(s, c, id).node /\ IsPoolDelivery(Ev(s, c, id))
      BY <2>2
    <3>2. SUFFICES ASSUME IsPoolDelivery(y.ev[i]) PROVE FALSE
      BY <3>1
    <3>3. i # id /\ Runs(x, i) /\ IsPoolDelivery(Ev(s, c, i)) /\ Ev(s, c, i).node = n
      BY <1>2, <2>1, <2>2, <3>2 DEF Ev
    <3>4. i \in DOMAIN s.ctx[c].ev /\ id \in DOMAIN s.ctx[c].ev
      BY <1>1, <3>3 DEF Runs
    <3> QED
      BY <1>1, <3>1, <3>3, <3>4 DEF SchedOK, Exclusive, DeliveriesLeased
  <2>3. EasesContext(x, y)
    <3>1. y.gated = x.gated /\ y.seq = x.seq
      BY DEF DoneIn
    <3>2. \A n \in Nodes : y.lease[n] = x.lease[n] \/ y.lease[n] = 0
      OBVIOUS
    <3> HIDE DEF x, y
    <3> QED
      BY <2>1, <2>2, <3>1, <3>2 DEF EasesContext
  <2>4. \A d \in Contexts : EasesContext(s.ctx[d], t.ctx[d])
    BY <1>3, <2>3 DEF EasesContext
  <2> QED
    BY <2>4 DEF Eases, SameElse
<1>6. Exclusive(t)
  BY <1>1, <1>4, <1>5, EasesExclusive DEF SchedOK
<1>7. ActiveOK(t)
  <2>1. \A d \in Contexts : /\ t.ctx[d].gated = s.ctx[d].gated
                            /\ t.ctx[d].inUse = s.ctx[d].inUse
                            /\ ~t.ctx[d].inUse => t.ctx[d] = s.ctx[d]
    BY <1>1, <1>3 DEF DoneIn
  <2>2. t.active = s.active
    BY DEF SameElse
  <2> QED
    BY <2>1, <2>2 DEF SchedOK, ActiveOK, ActiveSet
<1>8. EndsOnly(s, t, c, id)
  <2>1. \A n \in Nodes : s.turn[n] <= t.turn[n]
    BY <1>1 DEF Core, SameElse
  <2> QED
    BY <1>2, <1>3, <2>1 DEF EndsOnly, SameElse
<1> QED
  BY <1>4, <1>6, <1>7, <1>8 DEF SchedOK

\* finish_locked()
LEMMA FinishOK ==
    ASSUME NEW s, NEW c, NEW id, Topology, SchedOK(s), Acts(s, c, id)
    PROVE  /\ SchedOK(Finish(s, c, id)) /\ EndsOnly(s, Finish(s, c, id), c, id)
<1> DEFINE e == Ev(s, c, id)
           freed == IF e.kind = "fire" THEN ReleaseJoin(s, e.node, e.idx) ELSE s
           x == s.ctx[c]
           over == [e EXCEPT !.st = "done", !.rep = 0]
           y == [x EXCEPT !.ev[id] = over,
                          !.lease[e.node] = IF e.frees THEN 0 ELSE x.lease[e.node]]
           done == [freed EXCEPT !.ctx[c] = y]
           released == IF e.cont = <<>> /\ e.kind # "one"
                       THEN TryRelease(done, c, e.node) ELSE done
<1>1. /\ Core(s) /\ c \in Contexts /\ Context(x) /\ x.inUse /\ ~x.complete /\ Runs(x, id)
      /\ id \in DOMAIN x.ev /\ IsEvent(e) /\ e.st = "running" /\ e = x.ev[id]
      /\ e.node \in Nodes /\ DOMAIN e = EventFields /\ DOMAIN x = ContextFields
      /\ e.kids \in Seq(Nat) /\ x.lease \in [Nodes -> Nat]
  <2>1. Core(s) /\ c \in Contexts /\ x.inUse /\ Runs(x, id)
    BY DEF Acts
  <2>2. /\ Context(x) /\ ~x.complete /\ id \in DOMAIN x.ev /\ IsEvent(e)
        /\ e.st = "running" /\ e = x.ev[id]
    BY ActsEvent DEF Ev
  <2>3. e.node \in Nodes /\ DOMAIN e = EventFields /\ e.kids \in Seq(Nat)
    BY <2>2 DEF IsEvent
  <2>4. DOMAIN x = ContextFields /\ x.lease \in [Nodes -> Nat]
    BY <2>2 DEF Context
  <2> HIDE DEF x, e
  <2> QED
    BY <2>1, <2>2, <2>3, <2>4
<1>2. Follows(s, freed) /\ freed.ctx = s.ctx
  BY <1>1, ReleaseJoinFollows, FollowsRefl
<1>3. Finish(s, c, id) =
        IF s.stop THEN done
        ELSE CASE Len(e.kids) = 0 -> CompleteOrContinue(released, c, id)
               [] Len(e.kids) = 1 -> EnqueueSiblingWaiter(released, c, id)
               [] OTHER -> released
  BY DEF Finish
<1> HIDE DEF freed
<1>4. SameElse(s, done, c) /\ done.ctx[c] = y /\ JoinsOK(done)
  <2> HIDE DEF y
  <2>1. DOMAIN freed = SchedFields /\ DOMAIN freed.ctx = Contexts /\ JoinsOK(freed)
        /\ freed.active = s.active /\ freed.next = s.next
    BY <1>2 DEF Follows, Calm, Core
  <2>2. freed.turn = s.turn
    <3>1. s.turn = ReleaseJoin(s, e.node, e.idx).turn
      BY <1>1 DEF ReleaseJoin, Core, SchedFields
    <3> QED
      BY <3>1 DEF freed
  <2>3. /\ DOMAIN done = SchedFields /\ DOMAIN done.ctx = Contexts
        /\ \A d \in Contexts : d # c => done.ctx[d] = freed.ctx[d]
        /\ done.ctx[c] = y
        /\ done.active = freed.active /\ done.next = freed.next /\ done.turn = freed.turn
        /\ done.joins = freed.joins /\ done.last = freed.last
    BY <1>1, <2>1 DEF SchedFields
  <2> HIDE DEF done
  <2> QED
    BY <1>2, <2>1, <2>2, <2>3 DEF SameElse, JoinsOK
<1>5. /\ DOMAIN over = EventFields /\ over.st = "done" /\ over.parent = e.parent
      /\ over.kids = e.kids /\ over.cont = e.cont /\ IsEvent(over)
  <2> HIDE DEF e
  <2>1. /\ DOMAIN over = EventFields /\ over.st = "done" /\ over.parent = e.parent
        /\ over.kids = e.kids /\ over.cont = e.cont /\ over.node = e.node
        /\ over.kind = e.kind /\ over.wire = e.wire /\ over.idx = e.idx
        /\ over.root = e.root /\ over.off = e.off /\ over.path = e.path
        /\ over.frees = e.frees
    BY <1>1 DEF EventFields
  <2> HIDE DEF over
  <2> QED
    BY <1>1, <2>1 DEF IsEvent, IsPoolDelivery
<1>6. /\ DoneIn(x, y, id) /\ y.ev[id] = over
      /\ \A n \in Nodes : y.lease[n] = x.lease[n] \/ (y.lease[n] = 0 /\ n = e.node /\ e.frees)
  <2> DEFINE v == IF e.frees THEN 0 ELSE x.lease[e.node]
  <2>1. v \in Nat
    BY <1>1
  <2>2. /\ DOMAIN y = ContextFields /\ y.inUse = x.inUse /\ y.gated = x.gated
        /\ y.seq = x.seq /\ y.phase = x.phase /\ y.ready = x.ready
        /\ y.released = x.released /\ y.complete = x.complete
        /\ y.ev = [x.ev EXCEPT ![id] = over] /\ y.lease = [x.lease EXCEPT ![e.node] = v]
    <3> HIDE DEF x, over, e, v
    <3> QED
      BY <1>1 DEF ContextFields, v
  <2>3. /\ y.lease \in [Nodes -> Nat]
        /\ \A n \in Nodes : y.lease[n] = IF n = e.node THEN v ELSE x.lease[n]
    <3> HIDE DEF y, v, x, e
    <3> QED
      BY <1>1, <2>1, <2>2
  <2>4. /\ DOMAIN y.ev = DOMAIN x.ev /\ y.ev[id] = over
        /\ \A i \in DOMAIN x.ev : i # id => y.ev[i] = x.ev[i]
    <3> HIDE DEF y, over, x, e
    <3> QED
      BY <1>1, <2>2
  <2>5. \A n \in Nodes : y.lease[n] = x.lease[n] \/ (y.lease[n] = 0 /\ n = e.node /\ e.frees)
    BY <2>3
  <2> HIDE DEF y, over, x, e
  <2> QED
    BY <1>1, <1>5, <2>2, <2>3, <2>4, <2>5 DEF DoneIn
<1> HIDE DEF done, y, over
<1>7. SchedOK(done) /\ EndsOnly(s, done, c, id)
  <2>1. \A n \in Nodes : \/ done.ctx[c].lease[n] = s.ctx[c].lease[n]
                         \/ /\ done.ctx[c].lease[n] = 0 /\ n = Ev(s, c, id).node
                            /\ IsPoolDelivery(Ev(s, c, id))
    BY <1>1, <1>4, <1>6 DEF IsEvent
  <2> QED
    BY <1>4, <1>6, <2>1, EndEvent
<1>8. Core(done) /\ done.ctx[c].inUse /\ id \in DOMAIN done.ctx[c].ev
      /\ Ev(done, c, id) = over
  BY <1>1, <1>4, <1>6, <1>7 DEF SchedOK, DoneIn, Ev
<1>9. Follows(done, released) /\ released.ctx[c].ev = done.ctx[c].ev
  BY <1>1, <1>8, TryReleaseFollows, FollowsRefl
<1> HIDE DEF released, e
<1>10. Core(released) /\ released.ctx[c].inUse /\ Ev(released, c, id) = over
       /\ id \in DOMAIN released.ctx[c].ev
  BY <1>1, <1>8, <1>9 DEF Follows, Calm, CalmContext, Ev
<1>11. Len(e.kids) = 0 => Follows(released, CompleteOrContinue(released, c, id))
  <2> HAVE Len(e.kids) = 0
  <2>1. e.kids = <<>>
    BY <1>1
  <2>2. Drained(released, c, id)
    BY <1>5, <1>10, <2>1 DEF Drained
  <2> QED
    BY <1>1, <1>10, <2>2, CompleteOrContinueFollows
<1>12. Follows(released, EnqueueSiblingWaiter(released, c, id))
  BY <1>1, <1>10, EnqueueSiblingWaiterWakes DEF Wakes
<1>13. Follows(released, released)
  BY <1>10, FollowsRefl
<1>14. Follows(done, Finish(s, c, id))
  BY <1>3, <1>8, <1>9, <1>11, <1>12, <1>13, FollowsTrans, FollowsRefl
<1>15. Core(s) /\ Core(done)
  BY <1>1, <1>8
<1> QED
  BY <1>7, <1>14, <1>15, FollowsSchedOK, EndsOnlyFollows

-----------------------------------------------------------------------------
(* The start of an event                                                    *)

\* The events the scheduler counts as running.
LEMMA RunningIs ==
    ASSUME NEW s, NEW d \in Contexts, NEW j, Runs(s.ctx[d], j)
    PROVE  <<d, j>> \in Running(s)
  BY DEF Running, Runs, Ev

\* One more event runs.
StartsOnly(s, t, c, id) ==
    /\ c \in Contexts /\ ~Runs(s.ctx[c], id)
    /\ \A d \in Contexts : \A i : Runs(t.ctx[d], i) <=>
                                    Runs(s.ctx[d], i) \/ (d = c /\ i = id)
    /\ t.turn = s.turn /\ t.active = s.active

\* The copy claim_locked() takes for a fire, or for a record's first delivery
\* to a pooled node, is in no one's use.
LEMMA FreeCopy ==
    ASSUME NEW s, NEW n \in Nodes, Topology, FreeReplicas(s, n) # {}
    PROVE  LET m == Min(FreeReplicas(s, n))
           IN  /\ m \in 1..G.copies[n] /\ m \in Nat /\ m # 0
               /\ \A d \in Contexts : s.ctx[d].lease[n] # m
               /\ \A d \in Contexts : \A j :
                    Runs(s.ctx[d], j) /\ Ev(s, d, j).kind = "fire"
                    /\ Ev(s, d, j).node = n => Ev(s, d, j).rep # m
<1> DEFINE free == FreeReplicas(s, n)
           m == Min(free)
<1>1. G.copies[n] \in Nat
  BY Tables DEF GraphTables
<1>2. free \subseteq 1..G.copies[n] /\ 1..G.copies[n] \subseteq Nat \ {0}
  BY <1>1 DEF FreeReplicas
<1>3. m \in free
  <2>1. free \subseteq Nat /\ free # {}
    BY <1>2
  <2> HIDE DEF free
  <2> QED
    BY <2>1, MinIs
<1> HIDE DEF m
<1>4. \A d \in Contexts : s.ctx[d].lease[n] # m
  BY <1>3 DEF FreeReplicas
<1>5. ASSUME NEW d \in Contexts, NEW j, Runs(s.ctx[d], j), Ev(s, d, j).kind = "fire",
             Ev(s, d, j).node = n
      PROVE  Ev(s, d, j).rep # m
  <2> DEFINE q == <<d, j>>
             fires == {r \in Running(s) : Ev(s, r[1], r[2]).kind = "fire"
                                           /\ Ev(s, r[1], r[2]).node = n}
  <2>1. q \in fires
    <3>1. q \in Running(s)
      BY <1>5, RunningIs
    <3> QED
      BY <1>5, <3>1
  <2>2. Ev(s, q[1], q[2]).rep \in {Ev(s, r[1], r[2]).rep : r \in fires}
    <3> HIDE DEF fires, q
    <3> QED
      BY <2>1
  <2>3. m \notin {Ev(s, r[1], r[2]).rep : r \in fires}
    BY <1>3 DEF FreeReplicas
  <2> HIDE DEF fires
  <2> QED
    BY <2>2, <2>3
<1> QED
  BY <1>2, <1>3, <1>4, <1>5 DEF m

\* A runnable event's node is free.
LEMMA NodeFree ==
    ASSUME NEW s, NEW c, NEW id, Runnable(s, c, id), NEW d \in Contexts, NEW j,
           Runs(s.ctx[d], j), SerializedNode(Ev(s, c, id)) # 0
    PROVE  SerializedNode(Ev(s, d, j)) # SerializedNode(Ev(s, c, id))
<1> DEFINE q == <<d, j>>
<1>1. q \in Running(s)
  BY RunningIs
<1>2. ~NodeBusy(s, SerializedNode(Ev(s, c, id)))
  BY DEF Runnable
<1>3. SerializedNode(Ev(s, q[1], q[2])) # SerializedNode(Ev(s, c, id))
  <2> HIDE DEF q
  <2> QED
    BY <1>1, <1>2 DEF NodeBusy
<1> QED
  BY <1>3

\* The copy a runnable event gets.
Copy(s, c, id) ==
    LET e == Ev(s, c, id)
    IN  IF e.kind = "fire" THEN Min(FreeReplicas(s, e.node))
        ELSE IF ~IsPoolDelivery(e) THEN 0
        ELSE IF s.ctx[c].lease[e.node] = 0 THEN Min(FreeReplicas(s, e.node))
        ELSE s.ctx[c].lease[e.node]

\* The context of an event that starts with a copy, 0 for none.
Started(x, id, copy) ==
    [x EXCEPT !.ev[id] = [x.ev[id] EXCEPT !.st = "running", !.rep = copy],
              !.ready = RemoveFirst(x.ready, id),
              !.lease[x.ev[id].node] = IF IsPoolDelivery(x.ev[id]) THEN copy
                                       ELSE x.lease[x.ev[id].node]]

StartsIn(x, y, id, copy) ==
    /\ Context(y) /\ ~Runs(x, id) /\ id \in DOMAIN x.ev /\ IsEvent(x.ev[id])
    /\ \A i : Runs(y, i) <=> Runs(x, i) \/ i = id
    /\ \A i \in DOMAIN x.ev : i # id => y.ev[i] = x.ev[i]
    /\ y.ev[id].node = x.ev[id].node /\ y.ev[id].kind = x.ev[id].kind
    /\ y.ev[id].rep = copy /\ DOMAIN y.ev = DOMAIN x.ev
    /\ y.inUse = x.inUse /\ y.gated = x.gated /\ y.seq = x.seq
    /\ \A n \in Nodes : y.lease[n] =
         IF n = x.ev[id].node /\ IsPoolDelivery(x.ev[id]) THEN copy ELSE x.lease[n]

\* claim_locked(): the event leaves the ready queue and runs.
LEMMA ClaimContext ==
    ASSUME NEW x, NEW id, NEW copy \in Nat, Context(x), x.inUse,
           \E i \in DOMAIN x.ready : x.ready[i] = id
    PROVE  StartsIn(x, Started(x, id, copy), id, copy)
<1> DEFINE e == x.ev[id]
           y == Started(x, id, copy)
           on == [e EXCEPT !.st = "running", !.rep = copy]
           ready == RemoveFirst(x.ready, id)
           v == IF IsPoolDelivery(e) THEN copy ELSE x.lease[e.node]
<1>1. /\ id \in DOMAIN x.ev /\ IsEvent(e) /\ e.st = "queued" /\ DOMAIN e = EventFields
      /\ e.node \in Nodes /\ DOMAIN x = ContextFields /\ x.lease \in [Nodes -> Nat]
      /\ ReadyQueue(x) /\ Tree(x.ev)
  BY DEF Context, ReadyQueue, IsEvent
<1>2. /\ DOMAIN y = ContextFields /\ y.inUse = x.inUse /\ y.gated = x.gated
      /\ y.seq = x.seq /\ y.complete = x.complete /\ y.released = x.released
      /\ y.ready = ready /\ y.ev = [x.ev EXCEPT ![id] = on]
      /\ y.lease = [x.lease EXCEPT ![e.node] = v]
  <2>1. y = [x EXCEPT !.ev[id] = on, !.ready = ready, !.lease[e.node] = v]
    BY DEF Started
  <2> HIDE DEF on, ready, v, e, y
  <2> QED
    BY <1>1, <2>1 DEF ContextFields
<1> HIDE DEF y
<1>3. /\ on.st = "running" /\ on.rep = copy /\ on.node = e.node /\ on.kind = e.kind
      /\ on.parent = e.parent /\ on.kids = e.kids /\ IsEvent(on)
  <2> HIDE DEF e
  <2>1. /\ DOMAIN on = EventFields /\ on.st = "running" /\ on.parent = e.parent
        /\ on.kids = e.kids /\ on.cont = e.cont /\ on.node = e.node /\ on.rep = copy
        /\ on.kind = e.kind /\ on.wire = e.wire /\ on.idx = e.idx
        /\ on.root = e.root /\ on.off = e.off /\ on.path = e.path
        /\ on.frees = e.frees
    BY <1>1 DEF EventFields
  <2> HIDE DEF on
  <2> QED
    BY <1>1, <2>1 DEF IsEvent, IsPoolDelivery
<1>4. /\ DOMAIN y.ev = DOMAIN x.ev /\ y.ev[id] = on
      /\ \A i \in DOMAIN x.ev : i # id => y.ev[i] = x.ev[i]
  <2> HIDE DEF on
  <2> QED
    BY <1>1, <1>2
<1>5. v \in Nat
  BY <1>1
<1>6. /\ y.lease \in [Nodes -> Nat]
      /\ \A n \in Nodes : y.lease[n] =
           IF n = e.node /\ IsPoolDelivery(e) THEN copy ELSE x.lease[n]
  <2>1. /\ y.lease \in [Nodes -> Nat]
        /\ \A n \in Nodes : y.lease[n] = IF n = e.node THEN v ELSE x.lease[n]
    <3> HIDE DEF v
    <3> QED
      BY <1>1, <1>2, <1>5
  <2> QED
    BY <2>1
<1> HIDE DEF on, v
<1>7. Tree(y.ev)
  <2>1. \A i \in DOMAIN x.ev : y.ev[i].parent = x.ev[i].parent /\ y.ev[i].kids = x.ev[i].kids
    BY <1>3, <1>4
  <2>2. Tree(x.ev) /\ DOMAIN y.ev = DOMAIN x.ev
    BY <1>1, <1>4
  <2> QED
    BY <2>1, <2>2, TreeKept
<1>8. ReadyQueue(y)
  <2>1. x.ready \in Seq(Nat) /\ IsInjective(x.ready)
    BY <1>1 DEF ReadyQueue
  <2>2. /\ ready \in Seq(Nat) /\ IsInjective(ready)
        /\ \A i \in DOMAIN ready : /\ ready[i] # id
                                   /\ \E j \in DOMAIN x.ready : x.ready[j] = ready[i]
    BY <2>1, RemoveFirstIs
  <2> HIDE DEF ready
  <2>3. \A i \in DOMAIN ready : ready[i] \in DOMAIN x.ev /\ x.ev[ready[i]].st = "queued"
    BY <1>1, <2>2 DEF ReadyQueue
  <2> QED
    BY <1>2, <1>4, <2>2, <2>3 DEF ReadyQueue
<1>9. \A i \in DOMAIN y.ev : IsEvent(y.ev[i])
  BY <1>3, <1>4 DEF Context
<1>10. ~x.complete
  BY <1>1 DEF Context
<1>11. Context(y)
  BY <1>2, <1>4, <1>6, <1>7, <1>8, <1>9, <1>10 DEF Context
<1>12. ~Runs(x, id) /\ \A i : Runs(y, i) <=> Runs(x, i) \/ i = id
  BY <1>1, <1>3, <1>4 DEF Runs
<1> QED
  BY <1>1, <1>2, <1>3, <1>4, <1>6, <1>11, <1>12 DEF y, StartsIn

\* claim_locked() of a ready and runnable event.
LEMMA ClaimOK ==
    ASSUME NEW s, NEW c \in Contexts, NEW id, Topology, SchedOK(s), s.ctx[c].inUse,
           \E i \in DOMAIN s.ctx[c].ready : s.ctx[c].ready[i] = id, Runnable(s, c, id)
    PROVE  SchedOK(Claim(s, c, id)) /\ StartsOnly(s, Claim(s, c, id), c, id)
<1> DEFINE e == Ev(s, c, id)
           x == s.ctx[c]
           n == e.node
           copy == Copy(s, c, id)
           y == Started(x, id, copy)
           t == [s EXCEPT !.ctx[c] = y]
<1>1. /\ Core(s) /\ Exclusive(s) /\ ActiveOK(s) /\ Context(x) /\ id \in DOMAIN x.ev
      /\ n \in Nodes /\ x.lease \in [Nodes -> Nat] /\ e = x.ev[id]
  <2>1. Core(s) /\ Exclusive(s) /\ ActiveOK(s) /\ Context(x)
    BY DEF SchedOK, Core
  <2>2. id \in DOMAIN x.ev
    BY <2>1 DEF Context, ReadyQueue
  <2>3. n \in Nodes /\ x.lease \in [Nodes -> Nat] /\ e = x.ev[id]
    BY <2>1, <2>2 DEF Context, IsEvent, Ev
  <2> QED
    BY <2>1, <2>2, <2>3
<1>2. Claim(s, c, id) = t
  BY DEF Claim, Copy, Ev, Started
<1>3. e.kind = "fire" =>
        /\ ~IsPoolDelivery(e) /\ copy = Min(FreeReplicas(s, n)) /\ FreeReplicas(s, n) # {}
  BY DEF Copy, Runnable, IsPoolDelivery
<1>4. IsPoolDelivery(e) /\ x.lease[n] = 0 =>
        /\ e.kind # "fire" /\ copy = Min(FreeReplicas(s, n)) /\ FreeReplicas(s, n) # {}
  BY DEF Copy, Runnable, IsPoolDelivery
<1>5. IsPoolDelivery(e) /\ x.lease[n] # 0 => copy = x.lease[n] /\ ~ReplicaBusy(s, c, n)
  BY DEF Copy, Runnable, IsPoolDelivery
<1>6. copy \in Nat /\ (IsPoolDelivery(e) => copy # 0)
  <2>1. copy = 0 \/ copy = x.lease[n] \/ copy = Min(FreeReplicas(s, n))
    BY DEF Copy
  <2>2. e.kind # "fire" /\ ~IsPoolDelivery(e) => copy = 0
    BY DEF Copy
  <2> HIDE DEF copy, e, x, n
  <2>3. FreeReplicas(s, n) # {} => Min(FreeReplicas(s, n)) \in Nat \ {0}
    BY <1>1, FreeCopy
  <2> QED
    BY <1>1, <1>3, <1>4, <1>5, <2>2, <2>3
<1>7. /\ Context(y) /\ ~Runs(x, id) /\ IsEvent(x.ev[id])
      /\ \A i : Runs(y, i) <=> Runs(x, i) \/ i = id
      /\ \A i \in DOMAIN x.ev : i # id => y.ev[i] = x.ev[i]
      /\ y.ev[id].node = x.ev[id].node /\ y.ev[id].kind = x.ev[id].kind
      /\ y.ev[id].rep = copy /\ DOMAIN y.ev = DOMAIN x.ev
      /\ y.inUse = x.inUse /\ y.gated = x.gated /\ y.seq = x.seq
      /\ \A m \in Nodes : y.lease[m] =
           IF m = x.ev[id].node /\ IsPoolDelivery(x.ev[id]) THEN copy ELSE x.lease[m]
  <2>1. x.inUse /\ \E i \in DOMAIN x.ready : x.ready[i] = id
    OBVIOUS
  <2>2. StartsIn(x, y, id, copy)
    <3> HIDE DEF x, copy
    <3> QED
      BY <1>1, <1>6, <2>1, ClaimContext
  <2> HIDE DEF x, copy, y
  <2> QED
    BY <2>2 DEF StartsIn
<1> HIDE DEF y
<1>8. SameElse(s, t, c) /\ t.ctx[c] = y /\ t.last = s.last /\ t.joins = s.joins
  BY <1>1 DEF SameElse, SchedFields, Core
<1> HIDE DEF t
<1>9. \A d \in Contexts : d # c => t.ctx[d] = s.ctx[d]
  BY <1>8 DEF SameElse
<1> HIDE DEF copy, n, e, x
<1>10. Core(t)
  <2>1. \A d \in Contexts : Context(t.ctx[d])
    BY <1>1, <1>7, <1>8, <1>9 DEF Core
  <2>2. Numbered(t)
    <3>1. \A d \in Contexts : /\ t.ctx[d].gated = s.ctx[d].gated
                              /\ t.ctx[d].inUse = s.ctx[d].inUse
                              /\ t.ctx[d].seq = s.ctx[d].seq
      BY <1>7, <1>8, <1>9 DEF x
    <3> QED
      BY ZenonT(60), <1>1, <1>8, <3>1 DEF Core, Numbered, SameElse
  <2> QED
    BY <1>1, <1>8, <2>1, <2>2 DEF Core, SameElse, JoinsOK
<1>11. StartsOnly(s, t, c, id)
  <2>1. \A d \in Contexts : \A i : Runs(t.ctx[d], i) <=>
                                     Runs(s.ctx[d], i) \/ (d = c /\ i = id)
    BY <1>7, <1>8, <1>9 DEF x
  <2> QED
    BY <1>7, <1>8, <2>1 DEF StartsOnly, SameElse, x
<1>12. /\ Ev(t, c, id).node = n /\ Ev(t, c, id).kind = e.kind /\ Ev(t, c, id).rep = copy
       /\ \A d \in Contexts : \A i \in DOMAIN s.ctx[d].ev :
            ~(d = c /\ i = id) => Ev(t, d, i) = Ev(s, d, i)
       /\ \A d \in Contexts : DOMAIN t.ctx[d].ev = DOMAIN s.ctx[d].ev
  BY <1>1, <1>7, <1>8, <1>9 DEF Ev, x, n, e
<1>13. \A d \in Contexts : \A m \in Nodes : t.ctx[d].lease[m] =
         IF d = c /\ m = n /\ IsPoolDelivery(e) THEN copy ELSE s.ctx[d].lease[m]
  BY <1>1, <1>7, <1>8, <1>9 DEF x, n
<1>14. NodeExclusive(t)
  <2>1. SerializedNode(Ev(t, c, id)) = SerializedNode(e)
    BY <1>12 DEF SerializedNode, n
  <2>2. ASSUME NEW d \in Contexts, NEW i \in DOMAIN t.ctx[d].ev, Runs(t.ctx[d], i),
               ~(d = c /\ i = id)
        PROVE  /\ Runs(s.ctx[d], i) /\ i \in DOMAIN s.ctx[d].ev /\ Ev(t, d, i) = Ev(s, d, i)
               /\ SerializedNode(e) # 0 => SerializedNode(Ev(t, d, i)) # SerializedNode(e)
    <3>1. Runs(s.ctx[d], i) /\ i \in DOMAIN s.ctx[d].ev /\ Ev(t, d, i) = Ev(s, d, i)
      BY <1>11, <1>12, <2>2 DEF StartsOnly
    <3>2. SerializedNode(e) # 0 => SerializedNode(Ev(s, d, i)) # SerializedNode(e)
      BY <3>1, NodeFree DEF e
    <3> QED
      BY <3>1, <3>2
  <2>3. NodeExclusive(s)
    BY <1>1 DEF Exclusive
  <2> SUFFICES ASSUME NEW a \in Contexts, NEW b \in Contexts,
                      NEW i \in DOMAIN t.ctx[a].ev, NEW j \in DOMAIN t.ctx[b].ev,
                      Runs(t.ctx[a], i), Runs(t.ctx[b], j),
                      SerializedNode(Ev(t, a, i)) # 0,
                      SerializedNode(Ev(t, a, i)) = SerializedNode(Ev(t, b, j))
               PROVE  a = b /\ i = j
    BY DEF NodeExclusive
  <2>4. CASE a = c /\ i = id
    BY <2>1, <2>2, <2>4
  <2>5. CASE b = c /\ j = id
    BY <2>1, <2>2, <2>5
  <2>6. CASE ~(a = c /\ i = id) /\ ~(b = c /\ j = id)
    BY <2>2, <2>3, <2>6 DEF NodeExclusive
  <2> QED
    BY <2>4, <2>5, <2>6
<1>15. IsPoolDelivery(e) => \/ copy = s.ctx[c].lease[n] /\ s.ctx[c].lease[n] # 0
                            \/ \A d \in Contexts : s.ctx[d].lease[n] # copy
  <2>1. IsPoolDelivery(e) /\ x.lease[n] = 0 => \A d \in Contexts : s.ctx[d].lease[n] # copy
    BY <1>1, <1>4, FreeCopy
  <2> QED
    BY <1>5, <2>1 DEF x
<1>16. LeasesDistinct(t)
  <2>1. LeasesDistinct(s)
    BY <1>1 DEF Exclusive
  <2> SUFFICES ASSUME NEW a \in Contexts, NEW b \in Contexts, NEW m \in Nodes, a # b,
                      t.ctx[a].lease[m] # 0
               PROVE  t.ctx[a].lease[m] # t.ctx[b].lease[m]
    BY DEF LeasesDistinct
  <2>2. s.ctx[a].lease[m] # 0 => s.ctx[a].lease[m] # s.ctx[b].lease[m]
    BY <2>1 DEF LeasesDistinct
  <2>3. s.ctx[b].lease[m] # 0 => s.ctx[a].lease[m] # s.ctx[b].lease[m]
    BY <2>1 DEF LeasesDistinct
  <2> QED
    BY <1>13, <1>15, <2>2, <2>3
<1>17. FiresApart(t)
  <2>1. FiresApart(s)
    BY <1>1 DEF Exclusive
  <2>2. ASSUME NEW d \in Contexts, NEW i \in DOMAIN t.ctx[d].ev, Runs(t.ctx[d], i),
               Ev(t, d, i).kind = "fire", ~(d = c /\ i = id)
        PROVE  /\ Runs(s.ctx[d], i) /\ i \in DOMAIN s.ctx[d].ev /\ Ev(t, d, i) = Ev(s, d, i)
               /\ Ev(t, d, i).node = n /\ (e.kind = "fire" \/ IsPoolDelivery(e)) =>
                     Ev(t, d, i).rep # copy
    <3>1. Runs(s.ctx[d], i) /\ i \in DOMAIN s.ctx[d].ev /\ Ev(t, d, i) = Ev(s, d, i)
      BY <1>11, <1>12, <2>2 DEF StartsOnly
    <3>2. ASSUME Ev(s, d, i).node = n, e.kind = "fire" \/ IsPoolDelivery(e)
          PROVE  Ev(s, d, i).rep # copy
      <4>1. CASE copy = Min(FreeReplicas(s, n)) /\ FreeReplicas(s, n) # {}
        BY <1>1, <2>2, <3>1, <3>2, <4>1, FreeCopy
      <4>2. CASE IsPoolDelivery(e) /\ x.lease[n] # 0
        <5>1. copy = s.ctx[c].lease[n]
          BY <1>5, <4>2 DEF x
        <5> QED
          BY <2>1, <2>2, <3>1, <3>2, <5>1 DEF FiresApart
      <4> QED
        BY <1>3, <1>4, <3>2, <4>1, <4>2
    <3> QED
      BY <3>1, <3>2
  <2> SUFFICES ASSUME NEW a \in Contexts, NEW i \in DOMAIN t.ctx[a].ev,
                      Runs(t.ctx[a], i), Ev(t, a, i).kind = "fire"
      PROVE  /\ Ev(t, a, i).rep \in 1..G.copies[Ev(t, a, i).node]
             /\ \A d \in Contexts :
                  /\ t.ctx[d].lease[Ev(t, a, i).node] # Ev(t, a, i).rep
                  /\ \A j \in DOMAIN t.ctx[d].ev :
                       /\ Runs(t.ctx[d], j) /\ Ev(t, d, j).kind = "fire"
                       /\ Ev(t, d, j).node = Ev(t, a, i).node
                       /\ Ev(t, d, j).rep = Ev(t, a, i).rep
                       => a = d /\ i = j
    BY DEF FiresApart
  <2>3. CASE a = c /\ i = id
    <3>1. /\ e.kind = "fire" /\ Ev(t, a, i).node = n /\ Ev(t, a, i).rep = copy
      BY <1>12, <2>3
    <3>2. copy \in 1..G.copies[n] /\ \A d \in Contexts : s.ctx[d].lease[n] # copy
      BY <1>1, <1>3, <3>1, FreeCopy
    <3>3. \A d \in Contexts : t.ctx[d].lease[n] # copy
      BY <1>1, <1>3, <1>13, <3>1, <3>2
    <3> QED
      BY <2>2, <2>3, <3>1, <3>2, <3>3
  <2>4. CASE ~(a = c /\ i = id)
    <3> DEFINE m == Ev(s, a, i).node
    <3>1. /\ Runs(s.ctx[a], i) /\ i \in DOMAIN s.ctx[a].ev /\ Ev(t, a, i) = Ev(s, a, i)
          /\ m \in Nodes
      BY <1>1, <2>2, <2>4 DEF Core, Context, IsEvent, Ev
    <3>2. /\ Ev(s, a, i).rep \in 1..G.copies[m]
          /\ \A d \in Contexts :
               /\ s.ctx[d].lease[m] # Ev(s, a, i).rep
               /\ \A j \in DOMAIN s.ctx[d].ev :
                    /\ Runs(s.ctx[d], j) /\ Ev(s, d, j).kind = "fire"
                    /\ Ev(s, d, j).node = m /\ Ev(s, d, j).rep = Ev(s, a, i).rep
                    => a = d /\ i = j
      BY <2>1, <3>1 DEF FiresApart
    <3>3. m = n /\ IsPoolDelivery(e) => Ev(s, a, i).rep # copy
      BY <2>2, <2>4, <3>1
    <3>4. \A d \in Contexts : t.ctx[d].lease[m] # Ev(s, a, i).rep
      BY <1>13, <3>1, <3>2, <3>3
    <3>5. ASSUME NEW d \in Contexts, NEW j \in DOMAIN t.ctx[d].ev, Runs(t.ctx[d], j),
                 Ev(t, d, j).kind = "fire", Ev(t, d, j).node = m,
                 Ev(t, d, j).rep = Ev(s, a, i).rep
          PROVE  a = d /\ i = j
      <4>1. CASE d = c /\ j = id
        BY <1>12, <2>2, <2>4, <3>1, <3>5, <4>1
      <4>2. CASE ~(d = c /\ j = id)
        BY <2>2, <3>2, <3>5, <4>2
      <4> QED
        BY <4>1, <4>2
    <3> HIDE DEF m
    <3> QED
      BY <3>1, <3>2, <3>4, <3>5 DEF m
  <2> QED
    BY <2>3, <2>4
<1>18. DeliveriesLeased(t)
  <2>1. DeliveriesLeased(s)
    BY <1>1 DEF Exclusive
  <2>2. IsPoolDelivery(Ev(t, c, id)) <=> IsPoolDelivery(e)
    BY <1>12 DEF IsPoolDelivery, n
  <2>3. ASSUME NEW j \in DOMAIN s.ctx[c].ev, Runs(s.ctx[c], j), IsPoolDelivery(Ev(s, c, j)),
               Ev(s, c, j).node = n, IsPoolDelivery(e)
        PROVE  FALSE
    <3>1. s.ctx[c].lease[n] # 0
      BY <2>1, <2>3 DEF DeliveriesLeased
    <3>2. ~ReplicaBusy(s, c, n)
      BY <1>5, <2>3, <3>1 DEF x
    <3> DEFINE q == <<c, j>>
    <3>3. q \in Running(s) /\ q[1] = c /\ q[2] = j
      BY <2>3, RunningIs
    <3> HIDE DEF q
    <3> QED
      BY <2>3, <3>2, <3>3 DEF ReplicaBusy
  <2>4. ASSUME NEW d \in Contexts, NEW j \in DOMAIN t.ctx[d].ev, Runs(t.ctx[d], j),
               IsPoolDelivery(Ev(t, d, j)), ~(d = c /\ j = id)
        PROVE  /\ Runs(s.ctx[d], j) /\ j \in DOMAIN s.ctx[d].ev /\ Ev(t, d, j) = Ev(s, d, j)
               /\ Ev(s, d, j).node \in Nodes
               /\ d = c /\ Ev(s, d, j).node = n => ~IsPoolDelivery(e)
    <3>1. Runs(s.ctx[d], j) /\ j \in DOMAIN s.ctx[d].ev /\ Ev(t, d, j) = Ev(s, d, j)
      BY <1>11, <1>12, <2>4 DEF StartsOnly
    <3>2. Ev(s, d, j).node \in Nodes
      BY <1>1, <3>1 DEF Core, Context, IsEvent, Ev
    <3> QED
      BY <2>3, <2>4, <3>1, <3>2
  <2> SUFFICES ASSUME NEW a \in Contexts, NEW i \in DOMAIN t.ctx[a].ev,
                      Runs(t.ctx[a], i), IsPoolDelivery(Ev(t, a, i))
      PROVE  /\ Ev(t, a, i).rep = t.ctx[a].lease[Ev(t, a, i).node]
             /\ Ev(t, a, i).rep # 0
             /\ \A j \in DOMAIN t.ctx[a].ev :
                  /\ Runs(t.ctx[a], j) /\ IsPoolDelivery(Ev(t, a, j))
                  /\ Ev(t, a, j).node = Ev(t, a, i).node
                  => i = j
    BY DEF DeliveriesLeased
  <2>5. CASE a = c /\ i = id
    <3>1. IsPoolDelivery(e) /\ Ev(t, a, i).node = n /\ Ev(t, a, i).rep = copy
      BY <1>12, <2>2, <2>5
    <3>2. copy = t.ctx[c].lease[n] /\ copy # 0
      BY <1>1, <1>6, <1>13, <3>1
    <3> QED
      BY <2>4, <2>5, <3>1, <3>2
  <2>6. CASE ~(a = c /\ i = id)
    <3>1. /\ Runs(s.ctx[a], i) /\ i \in DOMAIN s.ctx[a].ev /\ Ev(t, a, i) = Ev(s, a, i)
          /\ Ev(s, a, i).node \in Nodes
          /\ a = c /\ Ev(s, a, i).node = n => ~IsPoolDelivery(e)
      BY <2>4, <2>6
    <3>2. t.ctx[a].lease[Ev(s, a, i).node] = s.ctx[a].lease[Ev(s, a, i).node]
      BY <1>13, <3>1
    <3>3. /\ Ev(s, a, i).rep = s.ctx[a].lease[Ev(s, a, i).node]
          /\ Ev(s, a, i).rep # 0
          /\ \A j \in DOMAIN s.ctx[a].ev :
               /\ Runs(s.ctx[a], j) /\ IsPoolDelivery(Ev(s, a, j))
               /\ Ev(s, a, j).node = Ev(s, a, i).node
               => i = j
      BY <2>1, <3>1 DEF DeliveriesLeased
    <3>4. ASSUME NEW j \in DOMAIN t.ctx[a].ev, Runs(t.ctx[a], j),
                 IsPoolDelivery(Ev(t, a, j)), Ev(t, a, j).node = Ev(s, a, i).node
          PROVE  i = j
      <4>1. CASE a = c /\ j = id
        BY <1>12, <2>2, <3>1, <3>4, <4>1
      <4>2. CASE ~(a = c /\ j = id)
        BY <2>4, <3>3, <3>4, <4>2
      <4> QED
        BY <4>1, <4>2
    <3> QED
      BY <3>1, <3>2, <3>3, <3>4
  <2> QED
    BY <2>5, <2>6
<1>19. TurnHeld(t)
  <2>1. TurnHeld(s)
    BY <1>1 DEF Exclusive
  <2>2. t.turn = s.turn /\ \A d \in Contexts : /\ t.ctx[d].gated = s.ctx[d].gated
                                               /\ t.ctx[d].seq = s.ctx[d].seq
    BY <1>7, <1>8, <1>9 DEF x, SameElse
  <2>3. s.ctx[c].gated /\ Ordered(n) => s.turn[n] = s.ctx[c].seq
    BY DEF Runnable, MyTurn, n, e
  <2> SUFFICES ASSUME NEW a \in Contexts, NEW i \in DOMAIN t.ctx[a].ev,
                      Runs(t.ctx[a], i), t.ctx[a].gated, Ordered(Ev(t, a, i).node)
               PROVE  t.turn[Ev(t, a, i).node] = t.ctx[a].seq
    BY DEF TurnHeld
  <2>4. CASE a = c /\ i = id
    BY <1>12, <2>2, <2>3, <2>4
  <2>5. CASE ~(a = c /\ i = id)
    <3>1. Runs(s.ctx[a], i) /\ i \in DOMAIN s.ctx[a].ev /\ Ev(t, a, i) = Ev(s, a, i)
      BY <1>11, <1>12, <2>5 DEF StartsOnly
    <3> QED
      BY <2>1, <2>2, <3>1 DEF TurnHeld
  <2> QED
    BY <2>4, <2>5
<1>20. ActiveOK(t)
  <2>1. \A d \in Contexts : /\ t.ctx[d].gated = s.ctx[d].gated
                            /\ t.ctx[d].inUse = s.ctx[d].inUse
                            /\ ~t.ctx[d].inUse => t.ctx[d] = s.ctx[d]
    BY <1>7, <1>8, <1>9 DEF x
  <2>2. t.active = s.active
    BY <1>8 DEF SameElse
  <2> QED
    BY <1>1, <2>1, <2>2 DEF ActiveOK, ActiveSet
<1> QED
  BY <1>2, <1>10, <1>11, <1>14, <1>16, <1>17, <1>18, <1>19, <1>20 DEF SchedOK, Exclusive

-----------------------------------------------------------------------------
(* The next state                                                           *)

\* The graph never changes, so the tables mean the same in the next state.
LEMMA GraphStays ==
    ASSUME graph' = graph
    PROVE  /\ G' = G /\ C' = C /\ Nodes' = Nodes /\ Async' = Async
           /\ Topology => Topology'
  BY DEF G, C, Nodes, Async, Topology

\* What holds of the scheduler's new state holds in the next state.
LEMMA SchedStays ==
    ASSUME NEW t, graph' = graph, sched' = t, SchedOK(t)
    PROVE  SchedOK(sched)'
<1>1. /\ G' = G /\ C' = C /\ Nodes' = Nodes /\ Async' = Async
      /\ \A n : Pooled(n)' = Pooled(n) /\ Indexed(n)' = Indexed(n)
                /\ Ordered(n)' = Ordered(n)
  BY DEF G, C, Nodes, Async, Pooled, Indexed, Ordered
<1>2. \A e : (IsPoolDelivery(e)' <=> IsPoolDelivery(e))
  BY <1>1 DEF IsPoolDelivery
<1>3. \A e : IsEvent(e) => IsEvent(e)'
  BY <1>1, <1>2 DEF IsEvent
<1>4. \A x : Context(x) => Context(x)'
  BY <1>1, <1>3 DEF Context
<1>5. FreeContext' = FreeContext
  BY <1>1 DEF FreeContext
<1>6. \A e : SerializedNode(e)' = SerializedNode(e)
  BY <1>1 DEF SerializedNode
<1>7. Core(sched)'
  <2>1. JoinsOK(sched)' /\ Numbered(sched)'
    BY <1>1 DEF SchedOK, Core, JoinsOK, Numbered
  <2> QED
    BY <1>1, <1>4, <2>1 DEF SchedOK, Core
<1>8. NodeExclusive(sched)'
  BY <1>6 DEF SchedOK, Exclusive, NodeExclusive, Ev
<1>9. LeasesDistinct(sched)'
  BY <1>1 DEF SchedOK, Exclusive, LeasesDistinct
<1>10. FiresApart(sched)'
  <2>1. FiresApart(t)
    BY DEF SchedOK, Exclusive
  <2>2. G' = G
    BY <1>1
  <2> QED
    BY <2>1, <2>2 DEF FiresApart
<1>11. DeliveriesLeased(sched)'
  BY <1>2 DEF SchedOK, Exclusive, DeliveriesLeased, Ev
<1>12. TurnHeld(sched)'
  BY <1>1 DEF SchedOK, Exclusive, TurnHeld, Ev
<1>13. ActiveOK(sched)'
  BY <1>1, <1>5 DEF SchedOK, ActiveOK
<1> QED
  BY <1>7, <1>8, <1>9, <1>10, <1>11, <1>12, <1>13 DEF SchedOK, Exclusive

\* What holds of the workers' new state holds in the next state.
LEMMA WorkersStay ==
    ASSUME NEW ws, NEW t, sched' = t, worker' = ws, WorkersOK(ws, t)
    PROVE  WorkersOK(worker, sched)'
  BY DEF WorkersOK

-----------------------------------------------------------------------------
(* Workers                                                                  *)

\* The event Ready() names is in a ready queue and may run; it names none only
\* if there is none.
LEMMA ReadyIs ==
    ASSUME NEW s, SchedOK(s)
    PROVE  /\ Ready(s) # <<>> =>
                LET c == Ready(s)[1]
                    id == Ready(s)[2]
                IN  /\ c \in Contexts /\ s.ctx[c].inUse /\ Runnable(s, c, id)
                    /\ \E i \in DOMAIN s.ctx[c].ready : s.ctx[c].ready[i] = id
           /\ Ready(s) # <<>> <=> HasReady(s)
<1> DEFINE able == {i \in DOMAIN s.active : Picks(s, s.active[i]) # {}}
           c == s.active[Min(able)]
           pick == Min(Picks(s, c))
<1>1. s.active \in Seq(Contexts) /\ able \subseteq Nat
  BY DEF SchedOK, Core
<1>2. able # {} <=> HasReady(s)
  BY DEF HasReady, ActiveSet
<1>3. Ready(s) = IF able = {} THEN <<>> ELSE <<c, s.ctx[c].ready[pick]>>
  BY DEF Ready
<1>4. CASE able = {}
  BY <1>2, <1>3, <1>4
<1>5. CASE able # {}
  <2>1. Min(able) \in able
    <3> HIDE DEF able
    <3> QED
      BY <1>1, <1>5, MinIs
  <2>2. c \in ActiveSet(s) /\ c \in Contexts /\ Picks(s, c) # {}
    <3> DEFINE k == Min(able)
    <3>1. k \in DOMAIN s.active /\ Picks(s, s.active[k]) # {}
      <4> HIDE DEF k
      <4>1. k \in able
        BY <2>1 DEF k
      <4> QED
        BY <4>1
    <3> HIDE DEF k, able
    <3>2. s.active[k] \in ActiveSet(s) /\ s.active[k] \in Contexts
      BY <1>1, <3>1 DEF ActiveSet
    <3>3. c = s.active[k]
      BY DEF k
    <3> QED
      BY <3>1, <3>2, <3>3
  <2>3. s.ctx[c].inUse
    BY <2>2 DEF SchedOK, ActiveOK
  <2> HIDE DEF c, able
  <2>4. pick \in Picks(s, c)
    <3>1. Picks(s, c) \subseteq Nat
      BY <2>2 DEF Picks, SchedOK, Core, Context, ReadyQueue
    <3> QED
      BY <2>2, <3>1, MinIs
  <2> HIDE DEF pick
  <2>5. pick \in DOMAIN s.ctx[c].ready /\ Runnable(s, c, s.ctx[c].ready[pick])
    BY <2>4 DEF Picks
  <2>6. Ready(s) = <<c, s.ctx[c].ready[pick]>>
    BY <1>3, <1>5
  <2> DEFINE id == s.ctx[c].ready[pick]
  <2>7. Ready(s)[1] = c /\ Ready(s)[2] = id /\ Ready(s) # <<>>
    BY <2>6
  <2> HIDE DEF id
  <2>8. Runnable(s, c, id) /\ \E i \in DOMAIN s.ctx[c].ready : s.ctx[c].ready[i] = id
    BY <2>5 DEF id
  <2> QED
    BY <1>2, <1>5, <2>2, <2>3, <2>7, <2>8
<1> QED
  BY <1>4, <1>5

\* Waking parked workers disturbs no busy one.
LEMMA WokenOK ==
    ASSUME NEW ws, NEW s, WorkersOK(ws, s)
    PROVE  WorkersOK(Woken(ws), s)
<1> DEFINE vs == Woken(ws)
<1>1. DOMAIN vs = Workers /\ \A w \in Workers : vs[w] = IF ws[w].pc = "wait" THEN Idle ELSE ws[w]
  BY DEF Woken
<1>2. /\ DOMAIN Idle = {"pc", "c", "id", "pubs"} /\ Idle.pc = "look"
      /\ Idle.pubs = <<>> /\ Idle.pubs \in Seq(Publication)
  BY DEF Idle
<1>3. \A w \in Workers : vs[w].pc \in BusyAt => vs[w] = ws[w]
  BY <1>1, <1>2 DEF BusyAt
<1> HIDE DEF vs
<1>4. ASSUME NEW w \in Workers
      PROVE  /\ DOMAIN vs[w] = {"pc", "c", "id", "pubs"}
             /\ vs[w].pc \in {"look", "wait", "exit"} \union BusyAt
             /\ vs[w].pc \in BusyAt => vs[w].c \in Contexts
                                       /\ Runs(s.ctx[vs[w].c], vs[w].id)
             /\ vs[w].pubs \in Seq(Publication)
             /\ vs[w].pc = "pub" => vs[w].pubs # <<>>
  <2>1. CASE vs[w] = ws[w]
    BY <2>1 DEF WorkersOK
  <2>2. CASE vs[w] = Idle
    BY <1>2, <2>2 DEF BusyAt
  <2> QED
    BY <1>1, <2>1, <2>2
<1>5. \A w, v \in Workers :
        /\ vs[w].pc \in BusyAt /\ vs[v].pc \in BusyAt
        /\ vs[w].c = vs[v].c /\ vs[w].id = vs[v].id
        => w = v
  BY <1>3 DEF WorkersOK
<1>6. WorkersOK(vs, s)
  BY <1>1, <1>4, <1>5 DEF WorkersOK
<1> QED
  BY <1>6 DEF vs

\* Announcing ready events disturbs no worker that is busy.
LEMMA NotifiedOK ==
    ASSUME NEW ws, NEW s, NEW t, WorkersOK(ws, s)
    PROVE  WorkersOK(Notified(ws, t), s)
<1>1. Notified(ws, t) \in {ws, Woken(ws)}
  BY DEF Notified
<1> QED
  BY <1>1, WokenOK

\* A worker may take any place that holds no event.
LEMMA WorkerFreed ==
    ASSUME NEW ws, NEW s, NEW t, NEW w \in Workers, NEW pc \in {"look", "wait", "exit"},
           WorkersOK(ws, s),
           \A v \in Workers : v # w /\ ws[v].pc \in BusyAt => Runs(t.ctx[ws[v].c], ws[v].id)
    PROVE  WorkersOK([ws EXCEPT ![w] = [Idle EXCEPT !.pc = pc]], t)
<1> DEFINE vs == [ws EXCEPT ![w] = [Idle EXCEPT !.pc = pc]]
<1>1. /\ DOMAIN vs = Workers /\ vs[w] = [Idle EXCEPT !.pc = pc]
      /\ \A v \in Workers : v # w => vs[v] = ws[v]
  BY DEF WorkersOK
<1>2. /\ DOMAIN vs[w] = {"pc", "c", "id", "pubs"} /\ vs[w].pc = pc
      /\ vs[w].pubs = <<>> /\ vs[w].pubs \in Seq(Publication)
  BY <1>1 DEF Idle
<1> HIDE DEF vs
<1>3. ASSUME NEW v \in Workers
      PROVE  /\ DOMAIN vs[v] = {"pc", "c", "id", "pubs"}
             /\ vs[v].pc \in {"look", "wait", "exit"} \union BusyAt
             /\ vs[v].pc \in BusyAt => vs[v].c \in Contexts
                                       /\ Runs(t.ctx[vs[v].c], vs[v].id)
             /\ vs[v].pubs \in Seq(Publication)
             /\ vs[v].pc = "pub" => vs[v].pubs # <<>>
  <2>1. CASE v = w
    BY <1>2, <2>1 DEF BusyAt
  <2>2. CASE v # w
    BY <1>1, <2>2 DEF WorkersOK
  <2> QED
    BY <2>1, <2>2
<1>4. \A u, v \in Workers :
        /\ vs[u].pc \in BusyAt /\ vs[v].pc \in BusyAt
        /\ vs[u].c = vs[v].c /\ vs[u].id = vs[v].id
        => u = v
  BY <1>1, <1>2 DEF WorkersOK, BusyAt
<1>5. WorkersOK(vs, t)
  BY <1>1, <1>3, <1>4 DEF WorkersOK
<1> QED
  BY <1>5 DEF vs

\* A worker without an event takes one that starts.
LEMMA WorkerStarts ==
    ASSUME NEW ws, NEW s, NEW t, NEW w \in Workers, NEW c, NEW id, NEW other,
           WorkersOK([ws EXCEPT ![w] = other], s), other.pc \notin BusyAt,
           DOMAIN ws = Workers, StartsOnly(s, t, c, id)
    PROVE  WorkersOK([ws EXCEPT ![w] = [Idle EXCEPT !.pc = "run", !.c = c, !.id = id]], t)
<1> DEFINE us == [ws EXCEPT ![w] = other]
           vs == [ws EXCEPT ![w] = [Idle EXCEPT !.pc = "run", !.c = c, !.id = id]]
<1>1. /\ DOMAIN vs = Workers /\ vs[w] = [Idle EXCEPT !.pc = "run", !.c = c, !.id = id]
      /\ \A v \in Workers : v # w => vs[v] = us[v]
  OBVIOUS
<1>2. /\ DOMAIN vs[w] = {"pc", "c", "id", "pubs"} /\ vs[w].pc = "run" /\ vs[w].c = c
      /\ vs[w].id = id /\ vs[w].pubs = <<>> /\ vs[w].pubs \in Seq(Publication)
  BY <1>1 DEF Idle
<1> HIDE DEF vs, us
<1>3. WorkersOK(us, s)
  BY DEF us
<1>4. /\ c \in Contexts /\ Runs(t.ctx[c], id) /\ ~Runs(s.ctx[c], id)
      /\ \A d \in Contexts : \A i : Runs(s.ctx[d], i) => Runs(t.ctx[d], i)
  BY DEF StartsOnly
<1>5. ASSUME NEW v \in Workers
      PROVE  /\ DOMAIN vs[v] = {"pc", "c", "id", "pubs"}
             /\ vs[v].pc \in {"look", "wait", "exit"} \union BusyAt
             /\ vs[v].pc \in BusyAt => vs[v].c \in Contexts
                                       /\ Runs(t.ctx[vs[v].c], vs[v].id)
             /\ vs[v].pubs \in Seq(Publication)
             /\ vs[v].pc = "pub" => vs[v].pubs # <<>>
  <2>1. CASE v = w
    BY <1>2, <1>4, <2>1 DEF BusyAt
  <2>2. CASE v # w
    BY <1>1, <1>3, <1>4, <2>2 DEF WorkersOK
  <2> QED
    BY <2>1, <2>2
<1>6. \A v \in Workers : v # w /\ vs[v].pc \in BusyAt => ~(vs[v].c = c /\ vs[v].id = id)
  BY <1>1, <1>3, <1>4 DEF WorkersOK
<1>7. \A u, v \in Workers :
        /\ vs[u].pc \in BusyAt /\ vs[v].pc \in BusyAt
        /\ vs[u].c = vs[v].c /\ vs[u].id = vs[v].id
        => u = v
  <2>1. \A u, v \in Workers : u # w /\ v # w =>
          (/\ vs[u].pc \in BusyAt /\ vs[v].pc \in BusyAt
           /\ vs[u].c = vs[v].c /\ vs[u].id = vs[v].id
           => u = v)
    BY <1>1, <1>3 DEF WorkersOK
  <2> QED
    BY <1>2, <1>6, <2>1
<1>8. WorkersOK(vs, t)
  BY <1>1, <1>5, <1>7 DEF WorkersOK
<1> QED
  BY <1>8 DEF vs

-----------------------------------------------------------------------------
(* What the nodes saw                                                       *)

\* The history after a step: a node's last key is as it was, or of the record
\* whose turn it is.
KeysFrom(v) ==
    /\ "key" \in DOMAIN v /\ DOMAIN v.key = Nodes
    /\ \A n \in Nodes : \/ v.key[n] = seen.key[n]
                        \/ v.key[n] # <<>> /\ v.key[n][1] = LastSeen(n)

\* The bound on a node's keys, in numbers.
LEMMA LastSeenIs ==
    ASSUME IInv, NEW n \in Nodes
    PROVE  LastSeen(n) \in Int
<1>1. sched.turn[n] \in Nat
  BY DEF IInv, SchedOK, Core
<1>2. G.records \in Int /\ coord.left \in Int
  BY DEF IInv, Topology, WellFormed, SeenOK
<1>3. G.records - coord.left \in Int
  BY <1>2
<1> QED
  BY <1>1, <1>3 DEF LastSeen

\* Nodes' turns and the records left move one way, so the bound on the keys
\* stands.
LEMMA SeenStays ==
    ASSUME IInv, NEW t, NEW v, graph' = graph, sched' = t, seen' = v, KeysFrom(v), Core(t),
           \A n \in Nodes : sched.turn[n] <= t.turn[n],
           DOMAIN coord' = DOMAIN coord, coord'.left \in Int, coord'.left <= coord.left
    PROVE  SeenOK'
<1> DEFINE left == coord'.left
<1>1. G' = G /\ Nodes' = Nodes /\ Async' = Async
  BY GraphStays
<1>2. /\ \A n \in Nodes : sched.turn[n] \in Nat /\ t.turn[n] \in Nat
      /\ G.records \in Int /\ coord.left \in Int /\ left \in Int /\ left <= coord.left
  BY DEF IInv, SchedOK, Core, Topology, WellFormed, SeenOK
<1>3. \A n \in Nodes : LastSeen(n)' = IF Async THEN t.turn[n] ELSE G.records - left
  BY <1>1 DEF LastSeen
<1> HIDE DEF left
<1>4. \A n \in Nodes : LastSeen(n) <= IF Async THEN t.turn[n] ELSE G.records - left
  BY <1>2 DEF LastSeen
<1>5. \A n \in Nodes : (IF Async THEN t.turn[n] ELSE G.records - left) \in Int
  BY <1>2
<1>6. ASSUME NEW n \in Nodes, v.key[n] # <<>>
      PROVE  v.key[n][1] \in Int /\ v.key[n][1] <= LastSeen(n)
  <2>1. LastSeen(n) \in Int
    BY LastSeenIs
  <2>2. CASE v.key[n] = seen.key[n]
    BY <1>6, <2>2 DEF IInv, SeenOK
  <2>3. CASE v.key[n][1] = LastSeen(n)
    BY <2>1, <2>3
  <2> QED
    BY <2>2, <2>3 DEF KeysFrom
<1>7. ASSUME NEW n \in Nodes, v.key[n] # <<>>
      PROVE  v.key[n][1] \in Int /\ v.key[n][1] <= LastSeen(n)'
  <2> DEFINE bound == IF Async THEN t.turn[n] ELSE G.records - left
  <2>1. /\ v.key[n][1] \in Int /\ v.key[n][1] <= LastSeen(n) /\ LastSeen(n) \in Int
        /\ LastSeen(n) <= bound /\ bound \in Int
    BY <1>4, <1>5, <1>6, <1>7, LastSeenIs
  <2>2. LastSeen(n)' = bound
    BY <1>3
  <2> HIDE DEF bound
  <2>3. v.key[n][1] <= bound
    BY <2>1
  <2> QED
    BY <2>1, <2>2, <2>3
<1>8. DOMAIN coord = {"pc", "op", "left", "cut", "flushed", "finalized", "failed", "shots"}
  BY DEF IInv, SeenOK
<1> QED
  BY <1>1, <1>7, <1>8 DEF SeenOK, KeysFrom

\* A record-ordered node sees the record whose turn it is.
LEMMA SawKeys ==
    ASSUME IInv, NEW w \in Workers, worker[w].pc \in BusyAt
    PROVE  KeysFrom(Saw(w))
<1> DEFINE c == worker[w].c
           id == worker[w].id
           e == EvOf(w)
           record == IF Async THEN sched.ctx[c].seq ELSE G.records - coord.left
           rest == IF e.kind = "raw" THEN <<e.root, e.off>> ELSE e.path
<1>1. "key" \in DOMAIN seen /\ DOMAIN seen.key = Nodes
  BY DEF IInv, SeenOK
<1>2. CASE Saw(w) = seen
  BY <1>1, <1>2 DEF KeysFrom
<1>3. CASE Ordered(e.node) /\ Saw(w) = [seen EXCEPT !.key[e.node] = KeyOf(w)]
  <2>1. c \in Contexts /\ Runs(sched.ctx[c], id) /\ SchedOK(sched)
    BY DEF IInv, WorkersOK
  <2>2. Acts(sched, c, id)
    BY <2>1, RunsActs
  <2>3. IsEvent(e) /\ id \in DOMAIN sched.ctx[c].ev /\ sched.ctx[c].inUse
    BY <2>2, ActsEvent DEF EvOf
  <2>4. record = LastSeen(e.node)
    <3>1. CASE Async
      <4>1. sched.ctx[c].gated
        BY <2>1, <2>3, <3>1 DEF SchedOK, ActiveOK
      <4>2. sched.turn[e.node] = sched.ctx[c].seq
        BY <1>3, <2>1, <2>3, <4>1 DEF SchedOK, Exclusive, TurnHeld, EvOf
      <4> QED
        BY <3>1, <4>2 DEF LastSeen
    <3>2. CASE ~Async
      BY <3>2 DEF LastSeen
    <3> QED
      BY <3>1, <3>2
  <2>5. rest \in Seq(Int)
    BY <2>3 DEF IsEvent
  <2>6. KeyOf(w) = <<record>> \o rest
    BY DEF KeyOf
  <2> HIDE DEF rest, record, e
  <2>7. record \in Int
    BY <2>3, <2>4, LastSeenIs DEF IsEvent
  <2>8. KeyOf(w) # <<>> /\ KeyOf(w)[1] = record
    <3>1. <<record>> \in Seq(Int) /\ Len(<<record>>) = 1 /\ <<record>>[1] = record
      BY <2>7
    <3>2. Len(rest) \in Nat
      BY <2>5
    <3>3. /\ Len(<<record>> \o rest) = Len(<<record>>) + Len(rest)
          /\ \A i \in 1..Len(<<record>>) + Len(rest) : (<<record>> \o rest)[i] =
               IF i <= Len(<<record>>) THEN <<record>>[i] ELSE rest[i - Len(<<record>>)]
      BY <2>5, <3>1, ConcatProperties
    <3>4. 1 \in 1..1 + Len(rest) /\ 1 <= 1 /\ 1 + Len(rest) # 0
      BY <3>2
    <3>5. Len(KeyOf(w)) # 0 /\ KeyOf(w)[1] = record
      BY <2>6, <3>1, <3>3, <3>4
    <3> QED
      BY <3>5
  <2>9. e.node \in Nodes
    BY <2>3 DEF IsEvent
  <2> DEFINE v == [seen EXCEPT !.key[e.node] = KeyOf(w)]
  <2>10. /\ DOMAIN v = DOMAIN seen /\ DOMAIN v.key = DOMAIN seen.key
         /\ v.key[e.node] = KeyOf(w)
         /\ \A n \in Nodes : n # e.node => v.key[n] = seen.key[n]
    BY <1>1, <2>9
  <2> HIDE DEF v
  <2>11. KeysFrom(v)
    BY <1>1, <2>4, <2>8, <2>9, <2>10 DEF KeysFrom
  <2> QED
    BY <1>3, <2>11 DEF v
<1> QED
  BY <1>2, <1>3 DEF Saw

\* The rest of the history does not matter to the keys.
LEMMA KeysKept ==
    ASSUME NEW v, NEW u, KeysFrom(v), "key" \in DOMAIN u, u.key = v.key
    PROVE  KeysFrom(u)
  BY DEF KeysFrom

-----------------------------------------------------------------------------
(* The invariant, step by step                                              *)

\* The next state satisfies the invariant if its parts do.
LEMMA Closing ==
    ASSUME IInv, NEW t, NEW ws, graph' = graph, sched' = t, worker' = ws,
           SchedOK(t), WorkersOK(ws, t), IngestOK', SeenOK', EndedClean'
    PROVE  IInv'
<1>1. Topology'
  BY GraphStays DEF IInv
<1>2. SchedOK(sched)'
  BY SchedStays
<1>3. WorkersOK(worker, sched)'
  BY WorkersStay
<1> QED
  BY <1>1, <1>2, <1>3 DEF IInv

\* After the end of a session nothing runs.
LEMMA EndedIdle ==
    ASSUME IInv, coord.pc = "ended", NEW c \in Contexts
    PROVE  sched.ctx[c] = FreeContext /\ \A id : ~Runs(sched.ctx[c], id)
<1>1. sched.active = <<>> /\ ActiveOK(sched)
  BY DEF IInv, EndedClean, SchedOK
<1>2. c \notin ActiveSet(sched)
  BY <1>1 DEF ActiveSet
<1>3. sched.ctx[c] = FreeContext
  BY <1>1, <1>2 DEF ActiveOK
<1>4. DOMAIN FreeContext.ev = {}
  BY DEF FreeContext, NoEvents
<1> QED
  BY <1>3, <1>4 DEF Runs

\* A busy worker's event runs, in a session that has not ended.
LEMMA BusyActs ==
    ASSUME IInv, NEW w \in Workers, worker[w].pc \in BusyAt
    PROVE  /\ Acts(sched, worker[w].c, worker[w].id) /\ coord.pc # "ended"
           /\ IsEvent(EvOf(w)) /\ EvOf(w) = Ev(sched, worker[w].c, worker[w].id)
           /\ EvOf(w).node \in Nodes
<1>1. worker[w].c \in Contexts /\ Runs(sched.ctx[worker[w].c], worker[w].id)
      /\ SchedOK(sched)
  BY DEF IInv, WorkersOK
<1>2. Acts(sched, worker[w].c, worker[w].id)
  BY <1>1, RunsActs
<1>3. coord.pc # "ended"
  BY <1>1, EndedIdle
<1>4. IsEvent(EvOf(w)) /\ EvOf(w) = Ev(sched, worker[w].c, worker[w].id)
  BY <1>2, ActsEvent DEF EvOf
<1> QED
  BY <1>2, <1>3, <1>4 DEF IsEvent

\* A critical section that starts no event.
LEMMA StepOK ==
    ASSUME IInv, NEW w \in Workers, worker[w].pc \in BusyAt, NEW t, NEW pc \in BusyAt,
           NEW pubs \in Seq(Publication), pc = "pub" => pubs # <<>>, Follows(sched, t),
           Step(w, t, pc, pubs), NEW v, seen' = v, KeysFrom(v), IngestOK'
    PROVE  IInv'
<1> DEFINE vs == [worker EXCEPT ![w].pc = pc, ![w].pubs = pubs]
           ws == Notified(vs, t)
<1>1. /\ graph' = graph /\ coord' = coord /\ sched' = t /\ worker' = ws
      /\ SchedOK(sched) /\ WorkersOK(worker, sched)
  BY DEF Step, IInv
<1>2. SchedOK(t)
  BY <1>1, FollowsSchedOK
<1>3. /\ DOMAIN vs = Workers /\ DOMAIN vs[w] = {"pc", "c", "id", "pubs"}
      /\ vs[w].pc = pc /\ vs[w].pubs = pubs /\ vs[w].c = worker[w].c
      /\ vs[w].id = worker[w].id
      /\ \A u \in Workers : u # w => vs[u] = worker[u]
  BY <1>1 DEF WorkersOK
<1> HIDE DEF vs
<1>4. \A d \in Contexts : \A i : Runs(sched.ctx[d], i) => Runs(t.ctx[d], i)
  BY DEF Follows, Calm, CalmContext
<1>5. \A u \in Workers : /\ vs[u].pc \in BusyAt <=> worker[u].pc \in BusyAt
                         /\ vs[u].c = worker[u].c /\ vs[u].id = worker[u].id
  BY <1>3
<1>6. ASSUME NEW u \in Workers
      PROVE  /\ DOMAIN vs[u] = {"pc", "c", "id", "pubs"}
             /\ vs[u].pc \in {"look", "wait", "exit"} \union BusyAt
             /\ vs[u].pc \in BusyAt => vs[u].c \in Contexts
                                       /\ Runs(t.ctx[vs[u].c], vs[u].id)
             /\ vs[u].pubs \in Seq(Publication)
             /\ vs[u].pc = "pub" => vs[u].pubs # <<>>
  <2>1. vs[u].pc \in BusyAt => vs[u].c \in Contexts /\ Runs(t.ctx[vs[u].c], vs[u].id)
    BY <1>1, <1>4, <1>5 DEF WorkersOK
  <2>2. CASE u = w
    BY <1>3, <2>1, <2>2
  <2>3. CASE u # w
    BY <1>1, <1>3, <2>1, <2>3 DEF WorkersOK
  <2> QED
    BY <2>2, <2>3
<1>7. WorkersOK(vs, t)
  BY <1>1, <1>3, <1>5, <1>6 DEF WorkersOK
<1>8. WorkersOK(ws, t)
  BY <1>7, NotifiedOK
<1>9. SeenOK'
  <2>1. Core(t) /\ \A n \in Nodes : sched.turn[n] <= t.turn[n]
    BY DEF Follows, Calm, CalmTurns
  <2>2. coord.left \in Int
    BY DEF IInv, SeenOK
  <2>3. DOMAIN coord' = DOMAIN coord /\ coord'.left = coord.left
    BY <1>1
  <2>4. coord'.left \in Int /\ coord'.left <= coord.left
    <3> DEFINE left == coord'.left
    <3>1. left = coord.left
      BY <2>3
    <3> HIDE DEF left
    <3>2. left \in Int /\ left <= coord.left
      BY <2>2, <3>1
    <3> QED
      BY <3>2 DEF left
  <2> QED
    BY <1>1, <2>1, <2>3, <2>4, SeenStays
<1>10. EndedClean'
  BY <1>1, BusyActs DEF EndedClean
<1> HIDE DEF ws
<1> QED
  BY <1>1, <1>2, <1>8, <1>9, <1>10, Closing

-----------------------------------------------------------------------------
(* A worker runs its event                                                  *)

\* A step that leaves the nodes' history alone.
LEMMA KeysSame ==
    ASSUME IInv, NEW v, "key" \in DOMAIN v, v.key = seen.key
    PROVE  KeysFrom(v)
  BY DEF IInv, SeenOK, KeysFrom

\* The ingest node is where it was.
LEMMA IngestStays ==
    ASSUME IInv, graph' = graph, ingest' = ingest
    PROVE  IngestOK'
  BY GraphStays DEF IInv, IngestOK

\* The step of an event that is not raw: the worker goes to "ran" or "settle".
LEMMA PlainStep ==
    ASSUME IInv, NEW w \in Workers, worker[w].pc \in BusyAt, NEW t,
           NEW pc \in {"ran", "settle"}, Follows(sched, t), Step(w, t, pc, <<>>),
           NEW v, seen' = v, KeysFrom(v), ingest' = ingest
    PROVE  IInv'
<1>1. graph' = graph
  BY DEF Step
<1>2. IngestOK'
  BY <1>1, IngestStays
<1>3. pc \in BusyAt /\ pc # "pub" /\ <<>> \in Seq(Publication)
  BY DEF BusyAt
<1> QED
  BY <1>2, <1>3, StepOK

\* A release event keeps the invariant.
LEMMA ExecuteReleaseOK ==
    ASSUME IInv, NEW w \in Workers, ExecuteRelease(w)
    PROVE  IInv'
<1> DEFINE t == ReleaseDependencies(sched, worker[w].c, EvOf(w).node, "flush")
<1>1. Step(w, t, "ran", <<>>) /\ seen' = seen /\ ingest' = ingest
  BY DEF ExecuteRelease
<1>2. worker[w].pc \in BusyAt
  BY DEF ExecuteRelease, At, BusyAt
<1>3. Acts(sched, worker[w].c, worker[w].id) /\ EvOf(w).node \in Nodes
  BY <1>2, BusyActs
<1>4. Follows(sched, t)
  BY <1>3, ReleaseDependenciesFollows DEF IInv
<1>5. KeysFrom(seen)
  BY KeysSame DEF IInv, SeenOK
<1> HIDE DEF t
<1> QED
  BY <1>1, <1>2, <1>4, <1>5, PlainStep

\* A one-shot event keeps the invariant.
LEMMA ExecuteOneShotOK ==
    ASSUME IInv, NEW w \in Workers, ExecuteOneShot(w)
    PROVE  IInv'
<1> DEFINE t == ReleaseDependencies(sched, worker[w].c, EvOf(w).node, "one")
           v == [seen EXCEPT !.ran = @ \union {EvOf(w).node}]
<1>1. Step(w, t, "ran", <<>>) /\ seen' = v /\ ingest' = ingest
  BY DEF ExecuteOneShot
<1>2. worker[w].pc \in BusyAt
  BY DEF ExecuteOneShot, At, BusyAt
<1>3. /\ Acts(sched, worker[w].c, worker[w].id) /\ EvOf(w).node \in Nodes
      /\ IsEvent(EvOf(w)) /\ EvOf(w).kind = "one"
  BY <1>2, BusyActs DEF ExecuteOneShot
<1>4. ~Async
  BY <1>3 DEF IsEvent
<1>5. Follows(sched, t)
  BY <1>3, <1>4, ReleaseDependenciesFollows DEF IInv
<1>6. "key" \in DOMAIN v /\ v.key = seen.key
  BY DEF IInv, SeenOK
<1> HIDE DEF t, v
<1>7. KeysFrom(v)
  BY <1>6, KeysSame
<1> QED
  BY <1>1, <1>2, <1>5, <1>7, PlainStep

\* The fire of a joined instance keeps the invariant.
LEMMA ExecuteFireOK ==
    ASSUME IInv, NEW w \in Workers, ExecuteFire(w)
    PROVE  IInv'
<1> DEFINE t == Publish(sched, worker[w].c, worker[w].id, EvOf(w).node,
                        Ports(EvOf(w).node), NoIndex, EvOf(w).idx)
<1>1. /\ Step(w, t, "ran", <<>>) /\ ingest' = ingest
      /\ seen' = [seen EXCEPT !.fired[EvOf(w).node] =
                    @ \union {[k |-> EvOf(w).idx, op |-> EvOf(w).op,
                               got |-> {i \in Slots(EvOf(w).node) :
                                  sched.joins[EvOf(w).node][EvOf(w).idx].state[i] = "present"}]},
                       !.twice = @ \/ EvOf(w).idx \in Instances(EvOf(w).node)]
  BY DEF ExecuteFire
<1>2. worker[w].pc \in BusyAt
  BY DEF ExecuteFire, At, BusyAt
<1>3. /\ Acts(sched, worker[w].c, worker[w].id) /\ EvOf(w).node \in Nodes
      /\ IsEvent(EvOf(w))
  BY <1>2, BusyActs
<1>4. EvOf(w).idx \in Int /\ NoIndex \in Int
  BY <1>3 DEF IsEvent, NoIndex
<1>5. Follows(sched, t)
  BY <1>3, <1>4, PublishFollows DEF IInv
<1> HIDE DEF t
<1> DEFINE v == [seen EXCEPT !.fired[EvOf(w).node] =
                    @ \union {[k |-> EvOf(w).idx, op |-> EvOf(w).op,
                               got |-> {i \in Slots(EvOf(w).node) :
                                  sched.joins[EvOf(w).node][EvOf(w).idx].state[i] = "present"}]},
                       !.twice = @ \/ EvOf(w).idx \in Instances(EvOf(w).node)]
<1>6. "key" \in DOMAIN v /\ v.key = seen.key /\ seen' = v
  BY <1>1 DEF IInv, SeenOK
<1> HIDE DEF v
<1>7. KeysFrom(v)
  BY <1>6, KeysSame
<1> QED
  BY <1>1, <1>2, <1>5, <1>6, <1>7, PlainStep

\* The second half of a flush keeps the invariant.
LEMMA SettleFlushOK ==
    ASSUME IInv, NEW w \in Workers, SettleFlush(w)
    PROVE  IInv'
<1> DEFINE c == worker[w].c
           id == worker[w].id
           e == EvOf(w)
           t == Push(sched, c, [Event("flush", e.node) EXCEPT
                          !.root = e.root, !.off = 1, !.parent = id, !.wait = TRUE])
           u == FlushNode(sched, c, id, FALSE)
<1>1. /\ Step(w, t, "ran", <<>>) \/ Step(w, u, "ran", <<>>)
      /\ ingest' = ingest /\ seen' = seen
  BY DEF SettleFlush
<1>2. worker[w].pc \in BusyAt
  BY DEF SettleFlush, At, BusyAt
<1>3. /\ Acts(sched, worker[w].c, worker[w].id) /\ EvOf(w).node \in Nodes
      /\ IsEvent(EvOf(w))
  BY <1>2, BusyActs
<1>4. Follows(sched, t)
  <2>1. EvOf(w).root \in Int /\ 1 \in Int
    BY <1>3 DEF IsEvent
  <2> QED
    BY <1>3, <2>1, PushFlushFollows
<1>5. Follows(sched, u)
  BY <1>3, FlushNodeFollows DEF IInv
<1>6. KeysFrom(seen)
  BY KeysSame DEF IInv, SeenOK
<1> HIDE DEF t, u
<1> QED
  BY <1>1, <1>2, <1>4, <1>5, <1>6, PlainStep

\* A flush, of an indexed node or of another, keeps the invariant.
LEMMA ExecuteFlushOK ==
    ASSUME IInv, NEW w \in Workers, ExecuteFlush(w)
    PROVE  IInv'
<1> DEFINE c == worker[w].c
           id == worker[w].id
           e == EvOf(w)
           r == ResolveJoins(sched, c, id, e.node)
           t == Push(r.s, c, [Event("flush", e.node) EXCEPT
                          !.root = e.root, !.off = e.off, !.parent = id, !.wait = TRUE])
           u(fired) == FlushNode(sched, c, id, fired)
<1>1. /\ \/ Step(w, t, "ran", <<>>) \/ Step(w, r.s, "settle", <<>>)
         \/ \E fired \in BOOLEAN : Step(w, u(fired), "ran", <<>>)
      /\ ingest' = ingest /\ seen' = seen
  <2>1. ASSUME NEW S, S = (IF G.fires[e.node] = "may" /\ ~IsIngest(e.node)
                           THEN BOOLEAN ELSE {FALSE}),
               NEW fired \in S
        PROVE  fired \in BOOLEAN
    BY <2>1
  <2> HIDE DEF r
  <2> QED
    BY <2>1 DEF ExecuteFlush, r
<1>2. worker[w].pc \in BusyAt
  BY DEF ExecuteFlush, At, BusyAt
<1>3. /\ Acts(sched, worker[w].c, worker[w].id) /\ EvOf(w).node \in Nodes
      /\ IsEvent(EvOf(w))
  BY <1>2, BusyActs
<1>4. Follows(sched, r.s)
  BY <1>3, ResolveJoinsFollows DEF IInv
<1>5. Follows(sched, t)
  <2>1. Core(sched) /\ Acts(r.s, c, id)
    BY <1>3, <1>4, ActsOn DEF Acts
  <2>2. Follows(r.s, t)
    <3> HIDE DEF r
    <3> QED
      BY <1>3, <2>1, PushFlushFollows DEF IsEvent
  <2> QED
    BY <1>4, <2>1, <2>2, FollowsTrans
<1>6. \A fired \in BOOLEAN : Follows(sched, u(fired))
  BY <1>3, FlushNodeFollows DEF IInv
<1>7. KeysFrom(seen)
  BY KeysSame DEF IInv, SeenOK
<1> HIDE DEF t, u, r
<1> QED
  BY <1>1, <1>2, <1>4, <1>5, <1>6, <1>7, PlainStep

\* A delivery, joined or given to the node, keeps the invariant.
LEMMA ExecuteEdgeOK ==
    ASSUME IInv, NEW w \in Workers, ExecuteEdge(w)
    PROVE  IInv'
<1> DEFINE c == worker[w].c
           id == worker[w].id
           n == EvOf(w).node
           count == (IF Pooled(n) THEN sched.ctx[c].count[n] ELSE sched.count[n]) + 1
           full == WindowFull(n, count)
           next == IF full THEN 0 ELSE count
           counted(s) ==
               IF Pooled(n)
               THEN [s EXCEPT !.ctx[c] = [s.ctx[c] EXCEPT !.count[n] = next,
                                                          !.ev[id].frees = full]]
               ELSE [s EXCEPT !.count[n] = next]
           all == Publish(sched, c, id, n, Ports(n), NoIndex, NoIndex)
           done == PublishDone(sched, c, id, n, NoIndex)
           v == [Saw(w) EXCEPT !.window = Window(w)]
<1>1. /\ IF Indexed(n) THEN Step(w, DeliverIndexed(sched, c, id), "ran", <<>>)
         ELSE \/ Step(w, counted(all), "ran", <<>>) \/ Step(w, counted(done), "ran", <<>>)
              \/ Step(w, counted(sched), "ran", <<>>)
      /\ ingest' = ingest /\ seen' = v
  <2> HIDE DEF all, done, v
  <2> QED
    BY DEF ExecuteEdge, all, done, v
<1>2. worker[w].pc \in BusyAt
  BY DEF ExecuteEdge, At, BusyAt
<1>3. /\ Acts(sched, worker[w].c, worker[w].id) /\ EvOf(w).node \in Nodes
      /\ IsEvent(EvOf(w)) /\ EvOf(w).kind = "edge" /\ Topology
      /\ EvOf(w) = Ev(sched, c, id)
  BY <1>2, BusyActs DEF ExecuteEdge, IInv
<1>4. full \in BOOLEAN /\ NoIndex \in Int
  BY DEF WindowFull, NoIndex
<1>5. KeysFrom(v)
  <2>1. KeysFrom(Saw(w))
    BY <1>2, SawKeys
  <2>2. "key" \in DOMAIN v /\ v.key = Saw(w).key
    BY <2>1 DEF KeysFrom
  <2> QED
    BY <2>1, <2>2, KeysKept
<1>6. Follows(sched, all)
  BY <1>3, <1>4, PublishFollows
<1>7. Follows(sched, done)
  <2>1. C.donesFrom[n] \subseteq DOMAIN G.wires
    BY <1>3, Tables DEF GraphTables
  <2> QED
    BY <1>3, <1>4, <2>1, PublishWiresFollows DEF PublishDone
<1>8. Follows(sched, sched) /\ Core(sched)
  BY <1>3, FollowsRefl DEF Acts
<1> HIDE DEF v, full, next, all, done
<1>9. ASSUME NEW s, Follows(sched, s), ~Indexed(n)
      PROVE  Follows(sched, counted(s))
  <2>1. Acts(s, c, id) /\ Core(s)
    BY <1>3, <1>9, ActsOn DEF Acts
  <2>2. CASE Pooled(n)
    <3>1. IsPoolDelivery(Ev(s, c, id))
      <4>1. c \in Contexts /\ Runs(sched.ctx[c], id)
        BY <1>3 DEF Acts
      <4>2. CalmContext(sched.ctx[c], s.ctx[c])
        BY <1>9, <4>1 DEF Follows, Calm
      <4>3. Ev(s, c, id).kind = Ev(sched, c, id).kind
            /\ Ev(s, c, id).node = Ev(sched, c, id).node
        BY <4>1, <4>2 DEF CalmContext, Ev
      <4>4. Ev(s, c, id).kind = "edge" /\ Ev(s, c, id).node = n
        BY <1>3, <4>3
      <4> QED
        BY <1>9, <2>2, <4>4 DEF IsPoolDelivery
    <3>2. Follows(s, counted(s))
      BY <1>4, <2>1, <2>2, <3>1, CountFollows
    <3> HIDE DEF counted
    <3> QED
      BY <1>8, <1>9, <3>2, FollowsTrans
  <2>3. CASE ~Pooled(n)
    <3>1. Follows(s, counted(s))
      BY <2>1, <2>3, NodeCountFollows
    <3> HIDE DEF counted
    <3> QED
      BY <1>8, <1>9, <3>1, FollowsTrans
  <2> QED
    BY <2>2, <2>3
<1>10. Follows(sched, DeliverIndexed(sched, c, id))
  BY <1>3, DeliverIndexedFollows
<1> HIDE DEF counted
<1>11. CASE Indexed(n)
  BY <1>1, <1>2, <1>5, <1>10, <1>11, PlainStep
<1>12. CASE ~Indexed(n)
  <2>1. Follows(sched, counted(all)) /\ Follows(sched, counted(done))
        /\ Follows(sched, counted(sched))
    BY <1>6, <1>7, <1>8, <1>9, <1>12
  <2> QED
    BY <1>1, <1>2, <1>5, <1>12, <2>1, PlainStep
<1> QED
  BY <1>11, <1>12

\* The windows to come end at a number.
LEMMA LastIndexIs ==
    ASSUME IInv
    PROVE  LastIndex \in Int
<1> DEFINE windows == UNION {ingest.layout[p] : p \in DOMAIN ingest.layout}
<1>1. ingest.layout \in G.layouts /\ WellFormed(G)
  BY DEF IInv, IngestOK, Topology
<1>2. windows \subseteq Nat /\ IsFiniteSet(windows)
  BY <1>1 DEF WellFormed
<1> HIDE DEF windows
<1>3. IsFiniteSet(windows \union {-1})
  BY <1>2, FS_Singleton, FS_Union
<1>4. \A k \in windows \union {-1} : k \in Int
  BY <1>2
<1>5. windows \union {-1} # {}
  OBVIOUS
<1>6. Max(windows \union {-1}) \in Int
  BY <1>3, <1>4, <1>5, MaxIsInt
<1>7. LastIndex = Max(windows \union {-1})
  BY Zenon DEF LastIndex, windows
<1> QED
  BY <1>6, <1>7

\* What a raw chunk publishes is a sequence of publications.
LEMMA RawPublicationsTyped ==
    ASSUME IInv, NEW n \in Nodes, NEW final, NEW pubs \in RawPublications(n, final)
    PROVE  pubs \in Seq(Publication)
<1>1. ingest.next \in Int /\ LastIndex \in Int /\ G.burst \in Nat /\ Topology
  BY LastIndexIs DEF IInv, IngestOK, Topology, WellFormed
<1>2. Ports(n) \subseteq Nat
  <2>1. C.valuesFrom[n] \subseteq DOMAIN G.wires
        /\ \A x \in DOMAIN G.wires : G.wires[x].port \in Nat
    BY <1>1, Tables DEF GraphTables
  <2> QED
    BY <2>1 DEF Ports
<1>3. \A j : IngestPorts(j) \subseteq Nat
  <2>1. ingest.layout \in G.layouts /\ WellFormed(G)
    BY DEF IInv, IngestOK, Topology
  <2>2. DOMAIN ingest.layout \subseteq Nat
    BY <2>1 DEF WellFormed
  <2> QED
    BY <2>2 DEF IngestPorts
<1> DEFINE one == <<[ports |-> Ports(n), idx |-> NoIndex]>>
           upto(m) == [i \in 1..(m - ingest.next + 1) |->
                         [ports |-> IngestPorts(ingest.next + i - 1),
                          idx |-> ingest.next + i - 1]]
           most == IF LastIndex < ingest.next + G.burst - 1 THEN LastIndex
                   ELSE ingest.next + G.burst - 1
<1>4. one \in Seq(Publication) /\ <<>> \in Seq(Publication)
  BY <1>2 DEF Publication, NoIndex
<1>5. ASSUME NEW m \in Int
      PROVE  upto(m) \in Seq(Publication)
  <2> DEFINE k == m - ingest.next + 1
             f == [i \in 1..k |-> [ports |-> IngestPorts(ingest.next + i - 1),
                                   idx |-> ingest.next + i - 1]]
  <2>1. upto(m) = f /\ k \in Int
    BY <1>1
  <2> HIDE DEF k, upto
  <2>2. ASSUME NEW i \in 1..k
        PROVE  [ports |-> IngestPorts(ingest.next + i - 1),
                idx |-> ingest.next + i - 1] \in Publication
    <3>1. i \in Int
      BY <2>1
    <3>2. ingest.next + i - 1 \in Int
      BY <1>1, <3>1
    <3>3. IngestPorts(ingest.next + i - 1) \in SUBSET Nat
      BY <1>3
    <3> QED
      BY <3>2, <3>3 DEF Publication
  <2>3. f \in [1..k -> Publication]
    BY <2>2
  <2> HIDE DEF f
  <2>4. CASE k >= 0
    <3>1. k \in Nat
      BY <2>1, <2>4
    <3> QED
      BY <2>1, <2>3, <3>1
  <2>5. CASE k < 0
    <3>1. 1..k = 1..0
      BY <2>1, <2>5
    <3>2. f \in [1..0 -> Publication] /\ 0 \in Nat
      BY <2>3, <3>1
    <3> QED
      BY <2>1, <3>2
  <2> QED
    BY <2>1, <2>4, <2>5
<1>6. most \in Int
  BY <1>1
<1>7. pubs \in {<<>>, one} \/ pubs = upto(most)
      \/ \E m \in (ingest.next - 1)..most : pubs = upto(m)
  BY DEF RawPublications
<1> HIDE DEF one, upto, most
<1>8. \A m \in (ingest.next - 1)..most : m \in Int
  BY <1>1, <1>6
<1> QED
  BY <1>4, <1>5, <1>6, <1>7, <1>8

\* The first publication of a raw chunk, or its next one.
LEMMA PublishFirstOK ==
    ASSUME IInv, NEW w \in Workers, worker[w].pc \in BusyAt,
           NEW pubs \in Seq(Publication), pubs # <<>>, PublishFirst(w, pubs),
           NEW v, seen' = v, KeysFrom(v)
    PROVE  IInv'
<1> DEFINE c == worker[w].c
           id == worker[w].id
           n == EvOf(w).node
           p == Publish(sched, c, id, n, pubs[1].ports, pubs[1].idx, NoIndex)
           r == IF Len(pubs) = 1 THEN AfterChunk(p, c, id, TRUE)
                ELSE [s |-> p, pc |-> "pub"]
<1>1. /\ Step(w, r.s, r.pc, Tail(pubs))
      /\ ingest' = IF IsIngest(n) THEN [ingest EXCEPT !.next = pubs[1].idx + 1]
                   ELSE ingest
  BY DEF PublishFirst, ChunkDone
<1>2. /\ Acts(sched, c, id) /\ n \in Nodes /\ Topology /\ Core(sched)
  BY BusyActs DEF IInv, Acts
<1>3. Len(pubs) \in Nat \ {0} /\ pubs[1] \in Publication
  BY EmptySeq
<1>4. pubs[1].idx \in Int /\ NoIndex \in Int
  BY <1>3 DEF Publication, NoIndex
<1>5. Follows(sched, p)
  BY <1>2, <1>4, PublishFollows
<1>6. Acts(p, c, id)
  BY <1>2, <1>5, ActsOn
<1> HIDE DEF p
<1>7. /\ Follows(sched, r.s) /\ r.pc \in BusyAt
      /\ r.pc = "pub" => Len(pubs) # 1
  <2>1. CASE Len(pubs) = 1
    <3> DEFINE a == AfterChunk(p, c, id, TRUE)
    <3>1. Follows(p, a.s) /\ a.pc \in {"run", "ran"}
      BY <1>6, AfterChunkFollows
    <3> HIDE DEF a
    <3>2. Follows(sched, a.s)
      BY <1>2, <1>5, <3>1, FollowsTrans
    <3> QED
      BY <2>1, <3>1, <3>2 DEF a, BusyAt
  <2>2. CASE Len(pubs) # 1
    BY <1>5, <2>2 DEF BusyAt
  <2> QED
    BY <2>1, <2>2
<1> HIDE DEF r
<1>8. Tail(pubs) \in Seq(Publication) /\ (Len(pubs) # 1 => Tail(pubs) # <<>>)
  <2>1. Tail(pubs) \in Seq(Publication) /\ Len(Tail(pubs)) = Len(pubs) - 1
    BY <1>3
  <2> QED
    BY <1>3, <2>1
<1>9. IngestOK'
  <2>1. graph' = graph /\ DOMAIN ingest = {"layout", "next"} /\ ingest.layout \in G.layouts
        /\ ingest.next \in Int
    BY <1>1 DEF Step, IInv, IngestOK
  <2> DEFINE j == pubs[1].idx + 1
  <2>2. j \in Int
    BY <1>4
  <2> HIDE DEF j
  <2>3. CASE IsIngest(n)
    <3>1. ingest' = [ingest EXCEPT !.next = j]
      BY <1>1, <2>3 DEF j
    <3>2. ingest'.next = j /\ ingest'.layout = ingest.layout
          /\ DOMAIN ingest' = {"layout", "next"}
      BY <2>1, <3>1
    <3> QED
      BY <2>1, <2>2, <3>2, GraphStays DEF IngestOK
  <2>4. CASE ~IsIngest(n)
    BY <1>1, <2>1, <2>4, IngestStays
  <2> QED
    BY <2>3, <2>4
<1> QED
  BY <1>1, <1>7, <1>8, <1>9, StepOK

\* A raw chunk keeps the invariant.
LEMMA ExecuteRawOK ==
    ASSUME IInv, NEW w \in Workers, ExecuteRaw(w)
    PROVE  IInv'
<1>1. worker[w].pc \in BusyAt
  BY DEF ExecuteRaw, At, BusyAt
<1> DEFINE x == sched.ctx[worker[w].c]
           r == AfterChunk(sched, worker[w].c, worker[w].id, FALSE)
<1>2. PICK pubs \in RawPublications(EvOf(w).node, x.final /\ EvOf(w).off + 1 = x.len) :
        IF pubs = <<>>
        THEN ChunkDone(w, r, <<>>) /\ seen' = Saw(w) /\ UNCHANGED ingest
        ELSE PublishFirst(w, pubs) /\ seen' = [Saw(w) EXCEPT !.known = Known(w, pubs[1])]
  BY DEF ExecuteRaw
<1>3. Acts(sched, worker[w].c, worker[w].id) /\ EvOf(w).node \in Nodes
  BY <1>1, BusyActs
<1>4. pubs \in Seq(Publication)
  BY <1>2, <1>3, RawPublicationsTyped
<1>5. KeysFrom(Saw(w))
  BY <1>1, SawKeys
<1>6. CASE pubs = <<>>
  <2>1. Step(w, r.s, r.pc, <<>>) /\ seen' = Saw(w) /\ ingest' = ingest /\ graph' = graph
    BY <1>2, <1>6 DEF ChunkDone, Step
  <2>2. Follows(sched, r.s) /\ r.pc \in {"run", "ran"}
    BY <1>3, AfterChunkFollows
  <2> HIDE DEF r
  <2>3. r.pc \in BusyAt /\ r.pc # "pub" /\ <<>> \in Seq(Publication)
    BY <2>2 DEF BusyAt
  <2>4. IngestOK'
    BY <2>1, IngestStays
  <2> QED
    BY <1>1, <1>5, <2>1, <2>2, <2>3, <2>4, StepOK
<1>7. CASE pubs # <<>>
  <2> DEFINE v == [Saw(w) EXCEPT !.known = Known(w, pubs[1])]
  <2>1. "key" \in DOMAIN v /\ v.key = Saw(w).key
    BY <1>5 DEF KeysFrom
  <2>2. seen' = v /\ PublishFirst(w, pubs)
    BY <1>2, <1>7
  <2> HIDE DEF v
  <2>3. KeysFrom(v)
    BY <1>5, <2>1, KeysKept
  <2> QED
    BY <1>1, <1>4, <1>7, <2>2, <2>3, PublishFirstOK
<1> QED
  BY <1>6, <1>7

\* Each further publication of a chunk keeps the invariant.
LEMMA PublishNextOK ==
    ASSUME IInv, NEW w \in Workers, PublishNext(w)
    PROVE  IInv'
<1> DEFINE pubs == worker[w].pubs
           v == [seen EXCEPT !.known = Known(w, pubs[1])]
<1>1. worker[w].pc \in BusyAt /\ worker[w].pc = "pub"
  BY DEF PublishNext, At, BusyAt
<1>2. PublishFirst(w, pubs) /\ seen' = v
  BY DEF PublishNext
<1>3. pubs \in Seq(Publication) /\ pubs # <<>>
  BY <1>1 DEF IInv, WorkersOK
<1>4. "key" \in DOMAIN v /\ v.key = seen.key
  BY DEF IInv, SeenOK
<1> HIDE DEF v, pubs
<1>5. KeysFrom(v)
  BY <1>4, KeysSame
<1> QED
  BY <1>1, <1>2, <1>3, <1>5, PublishFirstOK

\* The coordinator is where it was.
LEMMA SeenStaysHere ==
    ASSUME IInv, NEW t, NEW v, graph' = graph, sched' = t, seen' = v, KeysFrom(v), Core(t),
           \A n \in Nodes : sched.turn[n] <= t.turn[n], coord' = coord
    PROVE  SeenOK'
<1>1. coord.left \in Int
  BY DEF IInv, SeenOK
<1>2. DOMAIN coord' = DOMAIN coord /\ coord'.left = coord.left
  OBVIOUS
<1>3. coord'.left \in Int /\ coord'.left <= coord.left
  <2> DEFINE left == coord'.left
  <2>1. left = coord.left
    BY <1>2
  <2> HIDE DEF left
  <2>2. left \in Int /\ left <= coord.left
    BY <1>1, <2>1
  <2> QED
    BY <2>2 DEF left
<1> QED
  BY <1>2, <1>3, SeenStays

-----------------------------------------------------------------------------
(* The end of an event                                                      *)

\* The other workers' events run on when one event ends.
LEMMA OthersRunOn ==
    ASSUME IInv, NEW w \in Workers, worker[w].pc \in BusyAt, NEW t,
           EndsOnly(sched, t, worker[w].c, worker[w].id)
    PROVE  \A u \in Workers : u # w /\ worker[u].pc \in BusyAt =>
             Runs(t.ctx[worker[u].c], worker[u].id)
<1> SUFFICES ASSUME NEW u \in Workers, u # w, worker[u].pc \in BusyAt
    PROVE  Runs(t.ctx[worker[u].c], worker[u].id)
  OBVIOUS
<1>1. worker[u].c \in Contexts /\ Runs(sched.ctx[worker[u].c], worker[u].id)
  BY DEF IInv, WorkersOK
<1>2. ~(worker[u].c = worker[w].c /\ worker[u].id = worker[w].id)
  BY DEF IInv, WorkersOK
<1> QED
  BY <1>1, <1>2 DEF EndsOnly

\* An event whose node threw is done: nothing else changes in the records.
LEMMA ThrownEvent ==
    ASSUME IInv, NEW w \in Workers, worker[w].pc \in BusyAt, NEW s,
           Follows(sched, s), s.ctx = sched.ctx, s.turn = sched.turn
    PROVE  LET t == [Error(s, "node") EXCEPT
                       !.ctx[worker[w].c].ev[worker[w].id].st = "done"]
           IN  SchedOK(t) /\ EndsOnly(sched, t, worker[w].c, worker[w].id)
<1> DEFINE c == worker[w].c
           id == worker[w].id
           e == Ev(sched, c, id)
           x == sched.ctx[c]
           over == [e EXCEPT !.st = "done"]
           y == [x EXCEPT !.ev[id] = over]
           u == Error(s, "node")
           t == [u EXCEPT !.ctx[c] = y]
<1>1. Acts(sched, c, id) /\ SchedOK(sched) /\ Core(sched)
  BY BusyActs DEF IInv, SchedOK
<1>2. /\ c \in Contexts /\ Context(x) /\ ~x.complete /\ Runs(x, id)
      /\ id \in DOMAIN x.ev /\ IsEvent(e) /\ e = x.ev[id]
  BY <1>1, ActsEvent DEF Ev, Acts
<1>3. DOMAIN e = EventFields /\ DOMAIN x = ContextFields /\ x.lease \in [Nodes -> Nat]
  BY <1>2 DEF IsEvent, Context
<1>4. /\ DOMAIN u = SchedFields /\ u.ctx = sched.ctx /\ JoinsOK(u)
      /\ u.active = sched.active /\ u.next = sched.next /\ u.turn = sched.turn
  <2>1. DOMAIN s = SchedFields /\ JoinsOK(s) /\ s.active = sched.active
        /\ s.next = sched.next
    BY DEF Follows, Calm, Core
  <2>2. /\ DOMAIN u = SchedFields /\ u.ctx = s.ctx /\ u.joins = s.joins
        /\ u.last = s.last /\ u.active = s.active /\ u.next = s.next /\ u.turn = s.turn
    BY <2>1 DEF Error, SchedFields
  <2> HIDE DEF u
  <2> QED
    BY <2>1, <2>2 DEF JoinsOK
<1>5. [u EXCEPT !.ctx[worker[w].c].ev[worker[w].id].st = "done"] = t
  BY <1>4 DEF Ev
<1> HIDE DEF u
<1>6. SameElse(sched, t, c) /\ t.ctx[c] = y /\ JoinsOK(t)
  <2> HIDE DEF y
  <2>1. DOMAIN sched.ctx = Contexts
    BY <1>1 DEF Core
  <2>2. /\ DOMAIN t = SchedFields /\ DOMAIN t.ctx = Contexts
        /\ \A d \in Contexts : d # c => t.ctx[d] = sched.ctx[d]
        /\ t.ctx[c] = y
        /\ t.active = u.active /\ t.next = u.next /\ t.turn = u.turn
        /\ t.joins = u.joins /\ t.last = u.last
    BY <1>2, <1>4, <2>1 DEF SchedFields
  <2> HIDE DEF t
  <2> QED
    BY <1>4, <2>2 DEF SameElse, JoinsOK
<1>7. IsEvent(over) /\ over.st = "done" /\ over.parent = e.parent /\ over.kids = e.kids
  <2> HIDE DEF e
  <2>1. /\ DOMAIN over = EventFields /\ over.st = "done" /\ over.parent = e.parent
        /\ over.kids = e.kids /\ over.cont = e.cont /\ over.node = e.node
        /\ over.kind = e.kind /\ over.wire = e.wire /\ over.idx = e.idx
        /\ over.root = e.root /\ over.off = e.off /\ over.path = e.path
        /\ over.frees = e.frees
    BY <1>3 DEF EventFields
  <2> HIDE DEF over
  <2> QED
    BY <1>2, <2>1 DEF IsEvent, IsPoolDelivery
<1>8. DoneIn(x, y, id) /\ y.lease = x.lease
  <2> HIDE DEF over, x
  <2>1. /\ DOMAIN y = ContextFields /\ y.inUse = x.inUse /\ y.gated = x.gated
        /\ y.seq = x.seq /\ y.phase = x.phase /\ y.ready = x.ready
        /\ y.released = x.released /\ y.complete = x.complete
        /\ DOMAIN y.ev = DOMAIN x.ev /\ y.ev[id] = over /\ y.lease = x.lease
        /\ \A i \in DOMAIN x.ev : i # id => y.ev[i] = x.ev[i]
    BY <1>2, <1>3 DEF ContextFields
  <2> HIDE DEF y
  <2> QED
    BY <1>2, <1>3, <1>7, <2>1 DEF DoneIn
<1> HIDE DEF t, y
<1>9. SchedOK(t) /\ EndsOnly(sched, t, c, id)
  BY <1>1, <1>6, <1>8, EndEvent
<1> QED
  BY <1>5, <1>9 DEF u

\* A node that throws stops the session and keeps the invariant.
LEMMA ThrowOK ==
    ASSUME IInv, NEW w \in Workers, Throw(w)
    PROVE  IInv'
<1> DEFINE c == worker[w].c
           id == worker[w].id
           e == EvOf(w)
           s == IF e.kind = "fire" THEN ReleaseJoin(sched, e.node, e.idx) ELSE sched
           t == [Error(s, "node") EXCEPT !.ctx[c].ev[id].st = "done"]
           vs == [worker EXCEPT ![w] = [Idle EXCEPT !.pc = "exit"]]
           ws == Woken(vs)
<1>1. /\ sched' = t /\ worker' = ws /\ graph' = graph /\ coord' = coord
      /\ ingest' = ingest /\ seen' = seen
  BY DEF Throw
<1>2. worker[w].pc \in BusyAt
  BY DEF Throw, BusyAt
<1>3. /\ Acts(sched, c, id) /\ EvOf(w).node \in Nodes /\ Core(sched)
      /\ coord.pc # "ended"
  BY <1>2, BusyActs DEF Acts
<1>4. Follows(sched, s) /\ s.ctx = sched.ctx /\ s.turn = sched.turn
  <2>1. DOMAIN sched = SchedFields
    BY <1>3 DEF Core
  <2>2. ReleaseJoin(sched, e.node, e.idx).turn = sched.turn
    BY <2>1 DEF ReleaseJoin, SchedFields
  <2> QED
    BY <1>3, <2>2, ReleaseJoinFollows, FollowsRefl
<1> HIDE DEF s
<1>5. SchedOK(t) /\ EndsOnly(sched, t, c, id)
  BY <1>2, <1>4, ThrownEvent
<1> HIDE DEF t
<1>6. \A u \in Workers : u # w /\ worker[u].pc \in BusyAt =>
        Runs(t.ctx[worker[u].c], worker[u].id)
  BY <1>2, <1>5, OthersRunOn
<1>7. WorkersOK(vs, t)
  <2>1. "exit" \in {"look", "wait", "exit"} /\ WorkersOK(worker, sched)
    BY DEF IInv
  <2> QED
    BY <1>6, <2>1, WorkerFreed
<1>8. WorkersOK(ws, t)
  BY <1>7, WokenOK
<1> HIDE DEF vs, ws
<1>9. SeenOK'
  <2>1. Core(t) /\ \A n \in Nodes : sched.turn[n] <= t.turn[n]
    BY <1>5 DEF EndsOnly, SchedOK
  <2>2. KeysFrom(seen)
    BY KeysSame DEF IInv, SeenOK
  <2> QED
    BY <1>1, <2>1, <2>2, SeenStaysHere
<1>10. EndedClean' /\ IngestOK'
  BY <1>1, <1>3, IngestStays DEF EndedClean
<1> QED
  BY <1>1, <1>5, <1>8, <1>9, <1>10, Closing

-----------------------------------------------------------------------------
(* The selection of the next event                                          *)

\* The state a worker selects in.
Selecting(w) == IF At(w, "ran") THEN Finish(sched, worker[w].c, worker[w].id) ELSE sched

\* A worker that has finished its event leaves the others' events running.
LEMMA SelectingOK ==
    ASSUME IInv, NEW w \in Workers, worker[w].pc \in {"look", "ran"}
    PROVE  LET s == Selecting(w)
           IN  /\ SchedOK(s)
               /\ \A n \in Nodes : sched.turn[n] <= s.turn[n]
               /\ s.active = sched.active
               /\ \A u \in Workers : u # w /\ worker[u].pc \in BusyAt =>
                    Runs(s.ctx[worker[u].c], worker[u].id)
               /\ coord.pc = "ended" => s = sched
<1>1. CASE worker[w].pc = "ran"
  <2>1. worker[w].pc \in BusyAt
    BY <1>1 DEF BusyAt
  <2>2. Acts(sched, worker[w].c, worker[w].id) /\ coord.pc # "ended"
    BY <2>1, BusyActs
  <2> DEFINE s == Finish(sched, worker[w].c, worker[w].id)
  <2>3. SchedOK(s) /\ EndsOnly(sched, s, worker[w].c, worker[w].id)
    BY <2>2, FinishOK DEF IInv
  <2>4. Selecting(w) = s
    BY <1>1 DEF Selecting, At
  <2> HIDE DEF s
  <2>5. \A u \in Workers : u # w /\ worker[u].pc \in BusyAt =>
          Runs(s.ctx[worker[u].c], worker[u].id)
    BY <2>1, <2>3, OthersRunOn
  <2> QED
    BY <2>2, <2>3, <2>4, <2>5 DEF EndsOnly
<1>2. CASE worker[w].pc = "look"
  <2>1. Selecting(w) = sched
    BY <1>2 DEF Selecting, At
  <2>2. SchedOK(sched)
    BY DEF IInv
  <2>3. \A n \in Nodes : sched.turn[n] \in Nat
    BY <2>2 DEF SchedOK, Core
  <2>4. \A n \in Nodes : sched.turn[n] <= sched.turn[n]
    BY <2>3
  <2>5. \A u \in Workers : worker[u].pc \in BusyAt =>
          Runs(sched.ctx[worker[u].c], worker[u].id)
    BY DEF IInv, WorkersOK
  <2> QED
    BY <2>1, <2>2, <2>4, <2>5
<1> QED
  BY <1>1, <1>2

\* Nothing is ready where no record is active.
LEMMA NoneReady ==
    ASSUME NEW s, SchedOK(s), s.active = <<>>
    PROVE  Ready(s) = <<>>
<1>1. ~HasReady(s)
  BY DEF HasReady, ActiveSet
<1> QED
  BY <1>1, ReadyIs

\* Finishing an event and selecting the next keeps the invariant.
LEMMA LookOK ==
    ASSUME IInv, NEW w \in Workers, Look(w)
    PROVE  IInv'
<1> DEFINE s == Selecting(w)
           r == Ready(s)
           free == [worker EXCEPT ![w] = Idle]
           pc == IF s.stop THEN IF Busy(free) = {} THEN "exit" ELSE "wait"
                 ELSE IF Until(s) THEN "exit" ELSE "wait"
           stays == s.stop \/ Until(s) \/ r = <<>>
           ws == [worker EXCEPT ![w] =
                    IF stays THEN [Idle EXCEPT !.pc = pc]
                    ELSE [Idle EXCEPT !.pc = "run", !.c = r[1], !.id = r[2]]]
           t == IF stays THEN s ELSE Claim(s, r[1], r[2])
<1>1. /\ worker[w].pc \in {"look", "ran"} /\ graph' = graph /\ coord' = coord
      /\ ingest' = ingest /\ seen' = seen /\ Take(w, s, r)
  BY DEF Look, Select, Selecting
<1>2. /\ SchedOK(s) /\ s.active = sched.active
      /\ \A n \in Nodes : sched.turn[n] <= s.turn[n]
      /\ \A u \in Workers : u # w /\ worker[u].pc \in BusyAt =>
           Runs(s.ctx[worker[u].c], worker[u].id)
      /\ coord.pc = "ended" => s = sched
  BY <1>1, SelectingOK
<1>3. Topology /\ WorkersOK(worker, sched)
  BY DEF IInv
<1> HIDE DEF s, r, free
<1>4. sched' = t
  BY <1>1 DEF Take
<1>5. worker' = ws \/ worker' = Notified(ws, t)
  <2>1. ws = [worker EXCEPT ![w] =
                 IF s.stop
                 THEN [Idle EXCEPT !.pc = IF Busy(free) = {} THEN "exit" ELSE "wait"]
                 ELSE IF Until(s) THEN [Idle EXCEPT !.pc = "exit"]
                 ELSE IF r = <<>> THEN [Idle EXCEPT !.pc = "wait"]
                 ELSE [Idle EXCEPT !.pc = "run", !.c = r[1], !.id = r[2]]]
    OBVIOUS
  <2> HIDE DEF ws, t
  <2> QED
    BY <1>1, <1>4, <2>1 DEF Take, free
<1>6. SchedOK(t) /\ t.turn = s.turn /\ t.active = s.active /\ WorkersOK(ws, t)
  <2>1. CASE stays
    <3>1. t = s /\ ws = [worker EXCEPT ![w] = [Idle EXCEPT !.pc = pc]]
      BY <2>1
    <3>2. pc \in {"look", "wait", "exit"}
      OBVIOUS
    <3> HIDE DEF pc, ws, t
    <3>3. WorkersOK([worker EXCEPT ![w] = [Idle EXCEPT !.pc = pc]], s)
      BY <1>2, <1>3, <3>2, WorkerFreed
    <3> QED
      BY <1>2, <3>1, <3>3
  <2>2. CASE ~stays
    <3> DEFINE c == r[1]
               id == r[2]
               other == [Idle EXCEPT !.pc = "look"]
    <3>1. t = Claim(s, c, id) /\ r # <<>>
          /\ ws = [worker EXCEPT ![w] = [Idle EXCEPT !.pc = "run", !.c = c, !.id = id]]
      BY <2>2
    <3>2. /\ c \in Contexts /\ s.ctx[c].inUse /\ Runnable(s, c, id)
          /\ \E i \in DOMAIN s.ctx[c].ready : s.ctx[c].ready[i] = id
      BY <1>2, <3>1, ReadyIs DEF r
    <3> HIDE DEF ws, t, c, id
    <3>3. SchedOK(t) /\ StartsOnly(s, t, c, id)
      BY <1>2, <1>3, <3>1, <3>2, ClaimOK
    <3>4. "look" \in {"look", "wait", "exit"}
      OBVIOUS
    <3>5. WorkersOK([worker EXCEPT ![w] = other], s)
      BY <1>2, <1>3, <3>4, WorkerFreed
    <3>6. other.pc \notin BusyAt /\ DOMAIN worker = Workers
      BY <1>3 DEF Idle, BusyAt, WorkersOK
    <3> HIDE DEF other
    <3>7. WorkersOK(ws, t)
      BY <3>1, <3>3, <3>5, <3>6, WorkerStarts
    <3> QED
      BY <3>3, <3>7 DEF StartsOnly
  <2> QED
    BY <2>1, <2>2
<1>7. coord.pc = "ended" => t = sched /\ ~sched.stop /\ sched.active = <<>>
  <2> SUFFICES ASSUME coord.pc = "ended"
      PROVE  t = sched /\ ~sched.stop /\ sched.active = <<>>
    OBVIOUS
  <2>1. ~sched.stop /\ sched.active = <<>> /\ s = sched
    BY <1>2 DEF IInv, EndedClean
  <2>2. r = <<>>
    BY <1>2, <2>1, NoneReady DEF r
  <2> QED
    BY <2>1, <2>2
<1> HIDE DEF ws, t
<1>8. WorkersOK(Notified(ws, t), t)
  BY <1>6, NotifiedOK
<1>9. SeenOK'
  <2>1. Core(t) /\ \A n \in Nodes : sched.turn[n] <= t.turn[n]
    BY <1>2, <1>6 DEF SchedOK
  <2>2. KeysFrom(seen)
    BY KeysSame DEF IInv, SeenOK
  <2> QED
    BY <1>1, <1>4, <2>1, <2>2, SeenStaysHere
<1>10. EndedClean' /\ IngestOK'
  BY <1>1, <1>4, <1>7, IngestStays DEF EndedClean
<1> DEFINE vs == Notified(ws, t)
<1> HIDE DEF vs
<1>11. CASE worker' = ws
  BY <1>1, <1>4, <1>6, <1>9, <1>10, <1>11, Closing
<1>12. CASE worker' = vs
  BY <1>1, <1>4, <1>6, <1>8, <1>9, <1>10, <1>12, Closing DEF vs
<1> QED
  BY <1>5, <1>11, <1>12 DEF vs

-----------------------------------------------------------------------------
(* The coordinator                                                          *)

\* reset(): a free context is a context, with nothing in it.
LEMMA FreeContextOK ==
    ASSUME TRUE
    PROVE  /\ Context(FreeContext) /\ ~FreeContext.inUse /\ ~FreeContext.gated
           /\ ~FreeContext.complete /\ \A id : ~Runs(FreeContext, id)
           /\ \A n \in Nodes : FreeContext.lease[n] = 0
<1> DEFINE x == FreeContext
<1>1. /\ DOMAIN x = ContextFields /\ DOMAIN x.ev = {} /\ x.ready = <<>>
      /\ ~x.complete /\ ~x.inUse /\ ~x.gated /\ x.released = {}
      /\ x.lease = [n \in Nodes |-> 0]
  BY DEF FreeContext, NoEvents, ContextFields
<1> HIDE DEF x
<1>2. IsFiniteSet(DOMAIN x.ev)
  BY <1>1, FS_EmptySet
<1>3. ReadyQueue(x)
  BY <1>1 DEF ReadyQueue, IsInjective
<1>4. Tree(x.ev)
  BY <1>1 DEF Tree
<1>5. x.lease \in [Nodes -> Nat] /\ \A n \in Nodes : x.lease[n] = 0
  BY <1>1
<1>6. Context(x)
  BY <1>1, <1>2, <1>3, <1>4, <1>5 DEF Context
<1> QED
  BY <1>1, <1>5, <1>6 DEF Runs, x

\* A scheduler without records.
LEMMA IdleSchedOK ==
    ASSUME NEW t, DOMAIN t = SchedFields, DOMAIN t.ctx = Contexts, JoinsOK(t),
           \A c \in Contexts : t.ctx[c] = FreeContext, t.active = <<>>,
           t.turn \in [Nodes -> Nat], t.next \in Nat
    PROVE  SchedOK(t)
<1>1. \A c \in Contexts :
        /\ Context(t.ctx[c]) /\ ~t.ctx[c].inUse /\ ~t.ctx[c].gated
        /\ \A id : ~Runs(t.ctx[c], id)
        /\ \A n \in Nodes : t.ctx[c].lease[n] = 0
  BY FreeContextOK
<1>2. Numbered(t)
  BY <1>1 DEF Numbered
<1>3. t.active \in Seq(Contexts)
  OBVIOUS
<1>4. Core(t)
  BY <1>1, <1>2, <1>3 DEF Core
<1>5. Exclusive(t)
  BY <1>1 DEF Exclusive, NodeExclusive, LeasesDistinct, FiresApart, DeliveriesLeased,
              TurnHeld
<1>6. ActiveOK(t)
  BY <1>1 DEF ActiveOK, ActiveSet, IsInjective
<1> QED
  BY <1>4, <1>5, <1>6 DEF SchedOK

\* The events of the busy workers run on.
LEMMA WorkersRunOn ==
    ASSUME NEW ws, NEW s, NEW t, WorkersOK(ws, s),
           \A w \in Workers : ws[w].pc \in BusyAt => Runs(t.ctx[ws[w].c], ws[w].id)
    PROVE  WorkersOK(ws, t)
  BY DEF WorkersOK

\* Cancelling the session keeps the invariant.
LEMMA CancelOK ==
    ASSUME IInv, Cancel
    PROVE  IInv'
<1> DEFINE t == [sched EXCEPT !.stop = TRUE]
           ws == Woken(worker)
<1>1. /\ sched' = t /\ worker' = ws /\ graph' = graph /\ coord' = coord
      /\ ingest' = ingest /\ seen' = seen /\ coord.pc = "run"
  BY DEF Cancel
<1>2. SchedOK(sched) /\ Core(sched) /\ WorkersOK(worker, sched)
  BY DEF IInv, SchedOK
<1>3. Follows(sched, t)
  <2>1. DOMAIN sched = SchedFields /\ JoinsOK(sched)
    BY <1>2 DEF Core
  <2>2. /\ DOMAIN t = SchedFields /\ t.ctx = sched.ctx /\ t.active = sched.active
        /\ t.next = sched.next /\ t.turn = sched.turn /\ t.joins = sched.joins
        /\ t.last = sched.last
    BY <2>1 DEF SchedFields
  <2> HIDE DEF t
  <2>3. JoinsOK(t)
    BY <2>1, <2>2 DEF JoinsOK
  <2> QED
    BY <1>2, <2>2, <2>3, SideFollows
<1> HIDE DEF t
<1>4. SchedOK(t)
  BY <1>2, <1>3, FollowsSchedOK
<1>5. WorkersOK(ws, t)
  <2>1. \A w \in Workers : worker[w].pc \in BusyAt =>
          Runs(t.ctx[worker[w].c], worker[w].id)
    BY <1>2, <1>3 DEF WorkersOK, Follows, Calm, CalmContext
  <2> QED
    BY <1>2, <2>1, WorkersRunOn, WokenOK
<1> HIDE DEF ws
<1>6. SeenOK'
  <2>1. Core(t) /\ \A n \in Nodes : sched.turn[n] <= t.turn[n]
    BY <1>3 DEF Follows, Calm, CalmTurns
  <2>2. KeysFrom(seen)
    BY KeysSame DEF IInv, SeenOK
  <2> QED
    BY <1>1, <2>1, <2>2, SeenStaysHere
<1>7. EndedClean' /\ IngestOK'
  BY <1>1, IngestStays DEF EndedClean
<1> QED
  BY <1>1, <1>4, <1>5, <1>6, <1>7, Closing

\* The coordinator moves on: no record is counted back.
LEMMA CoordStays ==
    ASSUME IInv, NEW t, NEW v, graph' = graph, sched' = t, seen' = seen, Core(t),
           \A n \in Nodes : sched.turn[n] <= t.turn[n],
           coord' = v, DOMAIN v = DOMAIN coord, v.left \in Int, v.left <= coord.left
    PROVE  SeenOK'
<1>1. KeysFrom(seen)
  BY KeysSame DEF IInv, SeenOK
<1>2. DOMAIN coord' = DOMAIN coord /\ coord'.left \in Int /\ coord'.left <= coord.left
  OBVIOUS
<1> QED
  BY <1>1, <1>2, SeenStays

\* The normal end of a session keeps the invariant.
LEMMA EndSessionOK ==
    ASSUME IInv, EndSession
    PROVE  IInv'
<1> DEFINE v == [coord EXCEPT !.pc = "ended"]
           ws == Woken(worker)
<1>1. /\ sched' = sched /\ worker' = ws /\ graph' = graph /\ coord' = v
      /\ ingest' = ingest /\ seen' = seen /\ ~sched.stop /\ sched.active = <<>>
  BY DEF EndSession
<1>2. SchedOK(sched) /\ WorkersOK(worker, sched) /\ coord.left \in Int /\ Core(sched)
      /\ "left" \in DOMAIN coord
  BY DEF IInv, SchedOK, SeenOK
<1>3. WorkersOK(ws, sched)
  BY <1>2, WokenOK
<1>4. DOMAIN v = DOMAIN coord /\ v.left = coord.left
  BY <1>2
<1> HIDE DEF v, ws
<1>5. v.left \in Int /\ v.left <= coord.left
  BY <1>2, <1>4
<1>6. \A n \in Nodes : sched.turn[n] \in Nat
  BY <1>2 DEF Core
<1>7. \A n \in Nodes : sched.turn[n] <= sched.turn[n]
  BY <1>6
<1>8. SeenOK'
  BY <1>1, <1>2, <1>4, <1>5, <1>7, CoordStays
<1>9. EndedClean' /\ IngestOK'
  BY <1>1, IngestStays DEF EndedClean
<1> QED
  BY <1>1, <1>2, <1>3, <1>8, <1>9, Closing

\* The end of a stopped session discards its records and keeps the invariant.
LEMMA EndStoppedOK ==
    ASSUME IInv, EndStopped
    PROVE  IInv'
<1> DEFINE v == [coord EXCEPT !.pc = "ended", !.failed = TRUE]
           t == [FreshSched EXCEPT !.turn = sched.turn, !.next = sched.next]
           ws == Woken(worker)
<1>1. /\ sched' = t /\ worker' = ws /\ graph' = graph /\ coord' = v
      /\ ingest' = ingest /\ seen' = seen /\ WorkersQuiet
  BY DEF EndStopped
<1>2. SchedOK(sched) /\ WorkersOK(worker, sched) /\ coord.left \in Int /\ Core(sched)
      /\ "left" \in DOMAIN coord
  BY DEF IInv, SchedOK, SeenOK
<1>3. /\ DOMAIN t = SchedFields /\ t.ctx = [c \in Contexts |-> FreeContext]
      /\ t.active = <<>> /\ t.turn = sched.turn /\ t.next = sched.next /\ ~t.stop
      /\ t.joins = [n \in Nodes |-> <<>>]
      /\ t.last = [w \in DOMAIN G.wires |-> NoIndex]
  BY DEF FreshSched, SchedFields
<1> HIDE DEF t
<1>4. JoinsOK(t)
  <2>1. t.last \in [DOMAIN G.wires -> Int]
    BY <1>3 DEF NoIndex
  <2>2. \A n \in Nodes : DOMAIN t.joins[n] = {}
    BY <1>3
  <2>3. \A n \in Nodes : IsFiniteSet(DOMAIN t.joins[n])
    BY <2>2, FS_EmptySet
  <2> QED
    BY <1>3, <2>1, <2>2, <2>3 DEF JoinsOK
<1>5. SchedOK(t)
  <2>1. sched.turn \in [Nodes -> Nat] /\ sched.next \in Nat
    BY <1>2 DEF Core, Numbered
  <2>2. DOMAIN t.ctx = Contexts /\ \A c \in Contexts : t.ctx[c] = FreeContext
    BY <1>3
  <2> QED
    BY <1>3, <1>4, <2>1, <2>2, IdleSchedOK
<1>6. WorkersOK(ws, t)
  <2>1. \A w \in Workers : worker[w].pc \notin BusyAt
    BY <1>1 DEF WorkersQuiet, Busy, At, BusyAt
  <2> QED
    BY <1>2, <2>1, WorkersRunOn, WokenOK
<1>7. DOMAIN v = DOMAIN coord /\ v.left = coord.left
  BY <1>2
<1> HIDE DEF v, ws
<1>8. v.left \in Int /\ v.left <= coord.left
  BY <1>2, <1>7
<1>9. \A n \in Nodes : sched.turn[n] \in Nat /\ t.turn[n] = sched.turn[n]
  BY <1>2, <1>3 DEF Core
<1>10. \A n \in Nodes : sched.turn[n] <= t.turn[n]
  BY <1>9
<1>11. Core(t)
  BY <1>5 DEF SchedOK
<1>12. SeenOK'
  BY <1>1, <1>7, <1>8, <1>10, <1>11, CoordStays
<1>13. EndedClean' /\ IngestOK'
  BY <1>1, <1>3, IngestStays DEF EndedClean
<1> QED
  BY <1>1, <1>5, <1>6, <1>12, <1>13, Closing

\* All workers at their start, or wherever they hold no event.
LEMMA IdleWorkersOK ==
    ASSUME NEW ws, NEW t, DOMAIN ws = Workers,
           \A w \in Workers : ws[w] \in {Idle, [Idle EXCEPT !.pc = "exit"]}
    PROVE  WorkersOK(ws, t)
<1>1. \A w \in Workers : /\ DOMAIN ws[w] = {"pc", "c", "id", "pubs"}
                         /\ ws[w].pc \in {"look", "exit"} /\ ws[w].pubs = <<>>
  BY DEF Idle
<1>2. \A w \in Workers : ws[w].pc \notin BusyAt /\ ws[w].pc # "pub"
  BY <1>1 DEF BusyAt
<1>3. <<>> \in Seq(Publication)
  OBVIOUS
<1>4. \A w \in Workers : ws[w].pubs \in Seq(Publication)
  BY <1>1, <1>3
<1> QED
  BY <1>1, <1>2, <1>4 DEF WorkersOK

\* A shot starts with nothing seen.
LEMMA FreshShot ==
    ASSUME Topology, graph' = graph, NEW v, coord' = v, NEW shots, v = FreshCoord(shots),
           seen' = NothingSeen
    PROVE  SeenOK' /\ coord'.pc = "run"
<1>1. G.records \in Nat
  BY DEF Topology, WellFormed
<1>2. /\ DOMAIN v = {"pc", "op", "left", "cut", "flushed", "finalized", "failed", "shots"}
      /\ v.left = G.records /\ v.pc = "run"
  BY DEF FreshCoord
<1>3. v.left \in Int
  BY <1>1, <1>2
<1>4. "key" \in DOMAIN NothingSeen /\ NothingSeen.key = [n \in Nodes |-> <<>>]
  BY DEF NothingSeen
<1>5. Nodes' = Nodes
  BY GraphStays
<1>6. /\ "key" \in DOMAIN seen' /\ DOMAIN seen'.key = Nodes
      /\ \A n \in Nodes : seen'.key[n] = <<>>
  BY <1>4
<1> QED
  BY <1>2, <1>3, <1>5, <1>6 DEF SeenOK

\* The next shot starts from what the last one left, within the invariant.
LEMMA NextShotOK ==
    ASSUME IInv, NextShot
    PROVE  IInv'
<1> DEFINE v == FreshCoord(coord.shots - 1)
           t == [sched EXCEPT !.turn = [n \in Nodes |-> 0], !.next = 0]
           ws == WorkersAtStart
<1>1. /\ sched' = t /\ worker' = ws /\ graph' = graph /\ coord' = v
      /\ ingest' = [ingest EXCEPT !.next = 0] /\ seen' = NothingSeen
      /\ coord.pc = "ended"
  BY DEF NextShot
<1>2. /\ Core(sched) /\ Topology /\ sched.active = <<>>
      /\ \A c \in Contexts : sched.ctx[c] = FreeContext
  BY <1>1, EndedIdle DEF IInv, SchedOK, EndedClean
<1>3. DOMAIN sched = SchedFields /\ DOMAIN sched.ctx = Contexts /\ JoinsOK(sched)
  BY <1>2 DEF Core
<1>4. /\ DOMAIN t = SchedFields /\ t.ctx = sched.ctx /\ t.active = sched.active
      /\ t.turn = [n \in Nodes |-> 0] /\ t.next = 0 /\ t.joins = sched.joins
      /\ t.last = sched.last
  BY <1>3 DEF SchedFields
<1> HIDE DEF t
<1>5. JoinsOK(t)
  BY <1>3, <1>4 DEF JoinsOK
<1>6. t.turn \in [Nodes -> Nat] /\ t.next \in Nat
  BY <1>4
<1>7. SchedOK(t)
  BY <1>2, <1>3, <1>4, <1>5, <1>6, IdleSchedOK
<1>8. WorkersOK(ws, t)
  <2>1. DOMAIN ws = Workers
        /\ \A w \in Workers : ws[w] \in {Idle, [Idle EXCEPT !.pc = "exit"]}
    BY DEF WorkersAtStart
  <2> HIDE DEF ws
  <2> QED
    BY <2>1, IdleWorkersOK
<1> HIDE DEF ws, v
<1>9. SeenOK' /\ coord'.pc = "run"
  BY <1>1, <1>2, FreshShot DEF v
<1>10. IngestOK'
  <2>1. DOMAIN ingest = {"layout", "next"} /\ ingest.layout \in G.layouts
    BY DEF IInv, IngestOK
  <2>2. DOMAIN ingest' = {"layout", "next"} /\ ingest'.layout = ingest.layout
        /\ ingest'.next = 0
    BY <1>1, <2>1
  <2>3. G' = G
    BY <1>1, GraphStays
  <2> QED
    BY <2>1, <2>2, <2>3 DEF IngestOK
<1>11. EndedClean'
  BY <1>9 DEF EndedClean
<1> QED
  BY <1>1, <1>7, <1>8, <1>9, <1>10, <1>11, Closing

\* The finished records at the head of the queue, up to the first unfinished.
LEMMA CompletePrefixIs ==
    ASSUME SchedOK(sched)
    PROVE  \E n \in 0..Len(sched.active) :
             /\ CompletePrefix = SubSeq(sched.active, 1, n)
             /\ \A i \in 1..n : sched.ctx[sched.active[i]].complete
<1> DEFINE L == Len(sched.active)
           Open1(i) == i <= L /\ ~sched.ctx[sched.active[i]].complete
           S == {i \in 1..(L + 1) : i = L + 1 \/ Open1(i)}
           Q(m) == /\ \A i \in 1..m : sched.ctx[sched.active[i]].complete
                   /\ m < L => ~sched.ctx[sched.active[m + 1]].complete
           n == CHOOSE m \in 0..L : Q(m)
<1>1. L \in Nat
  BY DEF SchedOK, Core
<1> HIDE DEF L
<1>2. S \subseteq Nat /\ L + 1 \in S
  BY <1>1
<1> DEFINE k == Min(S)
<1>3. k \in S /\ \A i \in S : k <= i
  BY <1>2, MinIs
<1> HIDE DEF k
<1>4. k - 1 \in 0..L /\ k \in 1..(L + 1)
  BY <1>1, <1>3
<1>5. \A i \in 1..(k - 1) : sched.ctx[sched.active[i]].complete
  <2> SUFFICES ASSUME NEW i \in 1..(k - 1), ~sched.ctx[sched.active[i]].complete
      PROVE  FALSE
    OBVIOUS
  <2>1. i \in 1..(L + 1) /\ i <= L /\ i < k
    BY <1>1, <1>4
  <2>2. i \in S
    BY <2>1
  <2>3. k <= i
    BY <1>3, <2>2
  <2> QED
    BY <1>4, <2>1, <2>3
<1>6. k - 1 < L => ~sched.ctx[sched.active[(k - 1) + 1]].complete
  <2> SUFFICES ASSUME k - 1 < L
      PROVE  ~sched.ctx[sched.active[(k - 1) + 1]].complete
    OBVIOUS
  <2>1. k # L + 1 /\ (k - 1) + 1 = k
    BY <1>1, <1>4
  <2>2. ~sched.ctx[sched.active[k]].complete
    BY <1>3, <2>1
  <2> QED
    BY <2>1, <2>2
<1>7. Q(k - 1)
  BY <1>5, <1>6
<1>8. CompletePrefix = SubSeq(sched.active, 1, n)
  BY DEF CompletePrefix, L
<1> HIDE DEF Q
<1>9. n \in 0..L /\ Q(n)
  BY <1>4, <1>7
<1> HIDE DEF n
<1>10. \A i \in 1..n : sched.ctx[sched.active[i]].complete
  BY <1>9 DEF Q
<1> QED
  BY <1>8, <1>9, <1>10 DEF L

\* The scheduler after the records of the set P have been retired.
Retired(s, P, m) ==
    [s EXCEPT !.ctx = [c \in Contexts |-> IF c \in P THEN FreeContext ELSE s.ctx[c]],
              !.active = SubSeq(s.active, m + 1, Len(s.active))]

\* The records a retirement leaves are the active ones behind those it takes.
LEMMA RetiredActive ==
    ASSUME NEW q \in Seq(Contexts), IsInjective(q), NEW m \in 0..Len(q)
    PROVE  LET r == SubSeq(q, m + 1, Len(q))
               P == ToSet(SubSeq(q, 1, m))
           IN  /\ r \in Seq(Contexts) /\ IsInjective(r)
               /\ P = {q[i] : i \in 1..m}
               /\ \A c : (\E i \in DOMAIN r : r[i] = c) <=>
                         (\E i \in DOMAIN q : q[i] = c) /\ c \notin P
<1> DEFINE r == SubSeq(q, m + 1, Len(q))
           p == SubSeq(q, 1, m)
           P == ToSet(p)
           k == Len(q) - m
<1>1. Len(q) \in Nat /\ DOMAIN q = 1..Len(q) /\ m \in Nat /\ m <= Len(q) /\ k \in Nat
  OBVIOUS
<1>2. /\ r \in Seq(Contexts) /\ Len(r) = k /\ DOMAIN r = 1..k
      /\ \A i \in 1..k : r[i] = q[m + i]
  <2>1. r \in Seq(Contexts)
    BY <1>1
  <2> DEFINE a == m + 1
             b == Len(q)
  <2>2. a \in Int /\ b \in Int /\ (a <= b => 1 <= a /\ b <= Len(q))
    BY <1>1
  <2>3. /\ Len(SubSeq(q, a, b)) = IF a <= b THEN b - a + 1 ELSE 0
        /\ \A i \in 1..(b - a + 1) : SubSeq(q, a, b)[i] = q[a + i - 1]
    <3> HIDE DEF a, b
    <3> QED
      BY <2>2, SubSeqProperties
  <2> DEFINE l == Len(SubSeq(q, a, b))
             z == Len(q)
  <2>4. Len(r) = k /\ b - a + 1 = k
    <3>1. l = (IF m + 1 <= z THEN z - (m + 1) + 1 ELSE 0) /\ z \in Nat /\ m <= z
      BY <1>1, <2>3
    <3> HIDE DEF l, z
    <3>2. l = z - m /\ z - (m + 1) + 1 = z - m
      BY <1>1, <3>1
    <3> QED
      BY <3>2 DEF l, z
  <2>5. ASSUME NEW i \in 1..k
        PROVE  r[i] = q[m + i]
    <3>1. i \in Int /\ a + i - 1 = m + i
      BY <1>1
    <3>2. SubSeq(q, a, b)[i] = q[a + i - 1]
      BY <2>3, <2>4
    <3> QED
      BY <3>1, <3>2
  <2> HIDE DEF r, k
  <2>6. DOMAIN r = 1..Len(r)
    BY <2>1
  <2> QED
    BY <2>1, <2>4, <2>5, <2>6
<1>3. DOMAIN p = 1..m /\ \A i \in 1..m : p[i] = q[i]
  BY <1>1, SubSeqProperties
<1> HIDE DEF r, p
<1>4. P = {q[i] : i \in 1..m}
  BY <1>3 DEF ToSet
<1> HIDE DEF P
<1>5. \A i \in 1..k : m + i \in DOMAIN q
  BY <1>1
<1>6. IsInjective(r)
  <2> SUFFICES ASSUME NEW i \in 1..k, NEW j \in 1..k, r[i] = r[j]
      PROVE  i = j
    BY <1>2 DEF IsInjective
  <2>1. q[m + i] = q[m + j] /\ m + i \in DOMAIN q /\ m + j \in DOMAIN q
    BY <1>2, <1>5
  <2>2. m + i = m + j
    BY <2>1 DEF IsInjective
  <2> QED
    BY <1>1, <2>2
<1>7. ASSUME NEW c
      PROVE  (\E i \in DOMAIN r : r[i] = c) <=> (\E i \in DOMAIN q : q[i] = c) /\ c \notin P
  <2>1. ASSUME NEW i \in DOMAIN r, r[i] = c
        PROVE  (\E j \in DOMAIN q : q[j] = c) /\ c \notin P
    <3>1. i \in 1..k /\ m + i \in DOMAIN q /\ q[m + i] = c
      BY <1>2, <1>5, <2>1
    <3>2. ASSUME NEW j \in 1..m, q[j] = c
          PROVE  FALSE
      <4>1. j \in DOMAIN q
        BY <1>1
      <4>2. j = m + i
        BY <3>1, <3>2, <4>1 DEF IsInjective
      <4> QED
        BY <1>1, <3>1, <4>2
    <3> QED
      BY <1>4, <3>1, <3>2
  <2>2. ASSUME NEW j \in DOMAIN q, q[j] = c, c \notin P
        PROVE  \E i \in DOMAIN r : r[i] = c
    <3>1. j \notin 1..m
      BY <1>4, <2>2
    <3>2. j - m \in 1..k /\ m + (j - m) = j
      BY <1>1, <3>1
    <3> QED
      BY <1>2, <2>2, <3>2
  <2> QED
    BY <2>1, <2>2
<1> QED
  BY <1>2, <1>4, <1>6, <1>7 DEF r, p, P

\* Finished records hold nothing: without them the scheduler is as sound.
LEMMA RetiredOK ==
    ASSUME NEW s, SchedOK(s), NEW m \in 0..Len(s.active),
           \A i \in 1..m : s.ctx[s.active[i]].complete
    PROVE  LET P == ToSet(SubSeq(s.active, 1, m))
               t == Retired(s, P, m)
           IN  /\ SchedOK(t) /\ t.turn = s.turn /\ t.stop = s.stop
               /\ \A c \in Contexts : \A id : Runs(s.ctx[c], id) => Runs(t.ctx[c], id)
<1> DEFINE q == s.active
           P == ToSet(SubSeq(q, 1, m))
           r == SubSeq(q, m + 1, Len(q))
           t == Retired(s, P, m)
<1>1. /\ Core(s) /\ Exclusive(s) /\ ActiveOK(s) /\ q \in Seq(Contexts) /\ IsInjective(q)
      /\ DOMAIN s = SchedFields /\ DOMAIN s.ctx = Contexts
  BY DEF SchedOK, Core, ActiveOK
<1>2. /\ r \in Seq(Contexts) /\ IsInjective(r) /\ P = {q[i] : i \in 1..m}
      /\ \A c : (\E i \in DOMAIN r : r[i] = c) <=>
                (\E i \in DOMAIN q : q[i] = c) /\ c \notin P
  BY <1>1, RetiredActive
<1> HIDE DEF P
<1>3. /\ DOMAIN t = SchedFields /\ DOMAIN t.ctx = Contexts /\ t.active = r
      /\ t.turn = s.turn /\ t.next = s.next /\ t.joins = s.joins /\ t.last = s.last
      /\ t.stop = s.stop
      /\ \A c \in Contexts : t.ctx[c] = IF c \in P THEN FreeContext ELSE s.ctx[c]
  BY <1>1 DEF Retired, SchedFields
<1> HIDE DEF t, r, q
<1>4. \A c \in Contexts : c \in P =>
        /\ t.ctx[c] = FreeContext /\ \A id : ~Runs(s.ctx[c], id)
  <2> SUFFICES ASSUME NEW c \in Contexts, c \in P
      PROVE  t.ctx[c] = FreeContext /\ \A id : ~Runs(s.ctx[c], id)
    OBVIOUS
  <2>1. s.ctx[c].complete
    BY <1>2 DEF q
  <2>2. DOMAIN s.ctx[c].ev = {}
    BY <1>1, <2>1 DEF Core, Context
  <2> QED
    BY <1>3, <2>2 DEF Runs
<1>5. \A c \in Contexts : c \notin P => t.ctx[c] = s.ctx[c]
  BY <1>3
<1>6. Core(t)
  <2>1. \A c \in Contexts : Context(t.ctx[c])
    BY <1>1, <1>4, <1>5, FreeContextOK DEF Core
  <2>2. JoinsOK(t)
    BY <1>1, <1>3 DEF Core, JoinsOK
  <2>3. Numbered(t)
    <3>1. Numbered(s) /\ ~FreeContext.gated
      BY <1>1, FreeContextOK DEF Core
    <3>2. \A c \in Contexts : t.ctx[c].gated => c \notin P
      BY <1>4, <3>1
    <3> QED
      BY <1>3, <1>5, <3>1, <3>2 DEF Numbered
  <2> QED
    BY <1>1, <1>2, <1>3, <2>1, <2>2, <2>3 DEF Core
<1>7. Exclusive(t)
  <2>1. \A c \in Contexts : EasesContext(s.ctx[c], t.ctx[c])
    <3> SUFFICES ASSUME NEW c \in Contexts
        PROVE  EasesContext(s.ctx[c], t.ctx[c])
      OBVIOUS
    <3>1. CASE c \in P
      BY <1>4, <3>1, FreeContextOK DEF EasesContext
    <3>2. CASE c \notin P
      BY <1>5, <3>2 DEF EasesContext
    <3> QED
      BY <3>1, <3>2
  <2>2. Eases(s, t)
    BY <1>3, <2>1 DEF Eases
  <2> QED
    BY <1>1, <1>6, <2>2, EasesExclusive
<1>8. ActiveOK(t)
  <2>1. \A c : c \in ActiveSet(t) <=> c \in ActiveSet(s) /\ c \notin P
    <3>1. \A c : (c \in ActiveSet(t) <=> \E i \in DOMAIN r : r[i] = c)
                 /\ (c \in ActiveSet(s) <=> \E i \in DOMAIN q : q[i] = c)
      BY <1>3 DEF ActiveSet, q
    <3> QED
      BY <1>2, <3>1
  <2>2. ASSUME NEW c \in Contexts
        PROVE  /\ t.ctx[c].inUse <=> c \in ActiveSet(t)
               /\ t.ctx[c].inUse => (t.ctx[c].gated <=> Async)
               /\ ~t.ctx[c].inUse => t.ctx[c] = FreeContext
    <3>1. CASE c \in P
      BY <1>4, <2>1, <3>1, FreeContextOK
    <3>2. CASE c \notin P
      BY <1>1, <1>5, <2>1, <3>2 DEF ActiveOK
    <3> QED
      BY <3>1, <3>2
  <2> QED
    BY <1>2, <1>3, <2>2 DEF ActiveOK
<1>9. \A c \in Contexts : \A id : Runs(s.ctx[c], id) => Runs(t.ctx[c], id)
  BY <1>4, <1>5
<1> QED
  BY <1>3, <1>6, <1>7, <1>8, <1>9 DEF SchedOK, t, P, q

\* Retiring the finished records keeps the invariant.
LEMMA RetireOK ==
    ASSUME IInv, Retire
    PROVE  IInv'
<1>1. SchedOK(sched) /\ WorkersOK(worker, sched) /\ coord.left \in Int
      /\ "left" \in DOMAIN coord
  BY DEF IInv, SeenOK
<1>2. PICK m \in 0..Len(sched.active) :
        /\ CompletePrefix = SubSeq(sched.active, 1, m)
        /\ \A i \in 1..m : sched.ctx[sched.active[i]].complete
  BY <1>1, CompletePrefixIs
<1> DEFINE P == ToSet(SubSeq(sched.active, 1, m))
           t == Retired(sched, P, m)
           v == [coord EXCEPT !.finalized = @ \/ \E c \in ToSet(CompletePrefix) :
                                 sched.ctx[c].phase = "flush"]
<1>3. /\ graph' = graph /\ worker' = worker /\ ingest' = ingest /\ seen' = seen
      /\ coord' = v /\ coord.pc = "run"
  BY DEF Retire
<1>4. sched' = t
  <2>1. Len(SubSeq(sched.active, 1, m)) = m
    <3>1. sched.active \in Seq(Contexts)
      BY <1>1 DEF SchedOK, Core
    <3> QED
      BY <3>1, SubSeqProperties
  <2> QED
    BY <1>2, <2>1 DEF Retire, Retired
<1>5. /\ SchedOK(t) /\ t.turn = sched.turn
      /\ \A c \in Contexts : \A id : Runs(sched.ctx[c], id) => Runs(t.ctx[c], id)
  BY <1>1, <1>2, RetiredOK
<1> HIDE DEF t, P
<1>6. WorkersOK(worker, t)
  <2>1. \A w \in Workers : worker[w].pc \in BusyAt =>
          Runs(t.ctx[worker[w].c], worker[w].id)
    BY <1>1, <1>5 DEF WorkersOK
  <2> QED
    BY <1>1, <2>1, WorkersRunOn
<1>7. DOMAIN v = DOMAIN coord /\ v.left = coord.left /\ v.pc = coord.pc
  BY <1>1 DEF IInv, SeenOK
<1> HIDE DEF v
<1>8. v.left \in Int /\ v.left <= coord.left
  BY <1>1, <1>7
<1>9. \A n \in Nodes : sched.turn[n] \in Nat
  BY <1>1 DEF SchedOK, Core
<1>10. \A n \in Nodes : sched.turn[n] <= t.turn[n]
  BY <1>5, <1>9
<1>11. Core(t)
  BY <1>5 DEF SchedOK
<1>12. SeenOK'
  BY <1>3, <1>4, <1>7, <1>8, <1>10, <1>11, CoordStays
<1>13. EndedClean' /\ IngestOK'
  BY <1>3, <1>7, IngestStays DEF EndedClean
<1> QED
  BY <1>3, <1>4, <1>5, <1>6, <1>12, <1>13, Closing

-----------------------------------------------------------------------------
(* A record enters                                                          *)

\* A context as the coordinator fills it, before its first events.
Blank(x) ==
    /\ DOMAIN x = ContextFields /\ x.inUse /\ ~x.complete /\ ~x.gated
    /\ x.ev = NoEvents /\ x.ready = <<>> /\ x.released = {}
    /\ x.lease = [n \in Nodes |-> 0]

\* t: s with a record entering in context c, not yet active.
Enters(s, t, c) ==
    /\ Core(t) /\ Exclusive(t) /\ t.active = s.active
    /\ \A d \in Contexts : d # c => CalmContext(s.ctx[d], t.ctx[d])
    /\ t.ctx[c].inUse /\ \A id : ~Runs(t.ctx[c], id)
    /\ \A n \in Nodes : s.turn[n] <= t.turn[n]

\* An event a record starts with.
First(e) == IsEvent(e) /\ e.st = "held" /\ e.kids = <<>> /\ e.parent = 0

\* A record that enters goes on entering.
LEMMA EntersFollows ==
    ASSUME NEW s, NEW t, NEW u, NEW c \in Contexts, Core(s), Enters(s, t, c), Follows(t, u)
    PROVE  Enters(s, u, c) /\ u.ctx[c].gated = t.ctx[c].gated
<1>1. Core(t) /\ Core(u) /\ Exclusive(t)
  BY DEF Enters, Follows
<1>2. Exclusive(u)
  BY <1>1, FollowsEases, EasesExclusive
<1>3. u.active = s.active
  BY DEF Enters, Follows, Calm
<1>4. \A d \in Contexts : CalmContext(t.ctx[d], u.ctx[d])
  BY DEF Follows, Calm
<1>5. \A d \in Contexts : d # c => CalmContext(s.ctx[d], u.ctx[d])
  <2>1. \A d \in Contexts : d # c => CalmContext(s.ctx[d], t.ctx[d])
    BY DEF Enters
  <2> QED
    BY <1>4, <2>1, CalmContextTrans
<1>6. u.ctx[c].inUse /\ u.ctx[c].gated = t.ctx[c].gated /\ \A id : ~Runs(u.ctx[c], id)
  <2>1. t.ctx[c].inUse /\ \A id : ~Runs(t.ctx[c], id)
    BY DEF Enters
  <2>2. CalmContext(t.ctx[c], u.ctx[c])
    BY <1>4
  <2> QED
    BY <2>1, <2>2 DEF CalmContext
<1>7. \A n \in Nodes : s.turn[n] <= u.turn[n]
  <2>1. \A n \in Nodes : s.turn[n] \in Nat /\ t.turn[n] \in Nat /\ u.turn[n] \in Nat
    BY <1>1 DEF Core
  <2>2. \A n \in Nodes : s.turn[n] <= t.turn[n] /\ t.turn[n] <= u.turn[n]
    BY DEF Enters, Follows, Calm, CalmTurns
  <2> QED
    BY <2>1, <2>2
<1> QED
  BY <1>1, <1>2, <1>3, <1>5, <1>6, <1>7 DEF Enters

\* A free context is filled.
LEMMA BlankEnters ==
    ASSUME NEW s, NEW c \in Contexts, NEW x, SchedOK(s), ~s.ctx[c].inUse, Blank(x)
    PROVE  LET t == [s EXCEPT !.ctx[c] = x]
           IN  Enters(s, t, c) /\ ~t.ctx[c].gated /\ ~t.ctx[c].complete
<1> DEFINE t == [s EXCEPT !.ctx[c] = x]
<1>1. Core(s) /\ Exclusive(s) /\ s.ctx[c] = FreeContext
  BY DEF SchedOK, ActiveOK
<1>2. DOMAIN s = SchedFields /\ DOMAIN s.ctx = Contexts /\ JoinsOK(s) /\ Numbered(s)
      /\ \A n \in Nodes : s.turn[n] \in Nat
  BY <1>1 DEF Core
<1>3. /\ DOMAIN t = SchedFields /\ DOMAIN t.ctx = Contexts /\ t.ctx[c] = x
      /\ \A d \in Contexts : d # c => t.ctx[d] = s.ctx[d]
      /\ t.active = s.active /\ t.turn = s.turn /\ t.next = s.next
      /\ t.joins = s.joins /\ t.last = s.last
  BY <1>2 DEF SchedFields
<1> HIDE DEF t
<1>4. Context(x) /\ \A id : ~Runs(x, id)
  <2>1. DOMAIN x.ev = {}
    BY DEF Blank, NoEvents
  <2>2. IsFiniteSet(DOMAIN x.ev)
    BY <2>1, FS_EmptySet
  <2>3. ReadyQueue(x)
    BY DEF Blank, ReadyQueue, IsInjective
  <2>4. Tree(x.ev)
    BY <2>1 DEF Tree
  <2>5. Context(x)
    BY <2>1, <2>2, <2>3, <2>4 DEF Context, Blank
  <2> QED
    BY <2>1, <2>5 DEF Runs
<1>5. \A d \in Contexts : Context(t.ctx[d])
  BY <1>1, <1>3, <1>4 DEF Core
<1>6. JoinsOK(t)
  BY <1>2, <1>3 DEF JoinsOK
<1>7. Numbered(t)
  <2>1. ~t.ctx[c].gated
    BY <1>3 DEF Blank
  <2>2. \A d \in Contexts : t.ctx[d].gated => d # c /\ t.ctx[d] = s.ctx[d]
    BY <1>3, <2>1
  <2> QED
    BY <1>2, <1>3, <2>2 DEF Numbered
<1>8. Core(t)
  BY <1>1, <1>3, <1>5, <1>6, <1>7 DEF Core
<1>9. Exclusive(t)
  <2>1. EasesContext(s.ctx[c], t.ctx[c])
    <3>1. \A n \in Nodes : x.lease[n] = 0 /\ FreeContext.lease[n] = 0
      BY FreeContextOK DEF Blank
    <3> QED
      BY <1>1, <1>3, <1>4, <3>1 DEF EasesContext
  <2>2. \A d \in Contexts : EasesContext(s.ctx[d], t.ctx[d])
    BY <1>3, <2>1 DEF EasesContext
  <2>3. Eases(s, t)
    BY <1>3, <2>2 DEF Eases
  <2> QED
    BY <1>1, <1>8, <2>3, EasesExclusive
<1>10. \A n \in Nodes : s.turn[n] <= t.turn[n]
  BY <1>2, <1>3
<1>11. \A d \in Contexts : d # c => CalmContext(s.ctx[d], t.ctx[d])
  BY <1>3, CalmContextRefl
<1> QED
  BY <1>3, <1>4, <1>8, <1>9, <1>10, <1>11 DEF Enters, Blank, t

FillStep(c, y, z, u, t, e) == Push(t, c, e)
FillFrom(p, t) == Follows(p.s, t) /\ ~t.ctx[p.c].complete
Fills == INSTANCE FoldInduction WITH Step <- FillStep, Inv <- FillFrom

\* A record's first events are pushed.
LEMMA FillFollows ==
    ASSUME NEW s, NEW c \in Contexts, NEW A, NEW firsts \in Seq(A), \A e \in A : First(e),
           Core(s), s.ctx[c].inUse, ~s.ctx[c].complete
    PROVE  LET t == FoldLeft(LAMBDA u, e : Push(u, c, e), s, firsts)
           IN  Follows(s, t) /\ ~t.ctx[c].complete
<1> DEFINE p == [s |-> s, c |-> c]
           t == FoldLeft(LAMBDA u, e : Push(u, c, e), s, firsts)
<1>1. t = Fills!Fold(c, 0, 0, 0, s, firsts)
  BY DEF Fills!Fold, FillStep, FoldLeft, MapThenFoldSet,
         Fills!Last, Max
<1> HIDE DEF t
<1>2. FillFrom(p, s)
  BY FollowsRefl DEF FillFrom
<1>3. \A u : \A i \in 1..Len(firsts) :
        FillFrom(p, u) => FillFrom(p, FillStep(c, 0, 0, 0, u, firsts[i]))
  <2> SUFFICES ASSUME NEW u, NEW i \in 1..Len(firsts), FillFrom(p, u)
               PROVE  FillFrom(p, Push(u, c, firsts[i]))
    BY DEF FillStep
  <2>1. Follows(s, u) /\ ~u.ctx[c].complete
    BY DEF FillFrom
  <2>2. Core(u) /\ u.ctx[c].inUse
    BY <2>1 DEF Follows, Calm, CalmContext
  <2>3. Template(u.ctx[c], firsts[i])
    BY DEF Template, First
  <2>4. Follows(u, Push(u, c, firsts[i])) /\ ~Push(u, c, firsts[i]).ctx[c].complete
    BY <2>1, <2>2, <2>3, PushFollows
  <2>5. Follows(s, Push(u, c, firsts[i]))
    BY <2>1, <2>4, FollowsTrans
  <2> QED
    BY <2>4, <2>5 DEF FillFrom
<1>4. FillFrom(p, Fills!Fold(c, 0, 0, 0, s, firsts))
  BY <1>2, <1>3, Fills!FoldInv
<1> QED
  BY <1>1, <1>4 DEF FillFrom, t

PassStep(c, y, z, u, t, n) == TryRelease(t, c, n)
Passes == INSTANCE FoldInduction WITH Step <- PassStep, Inv <- Follows

\* The nodes a record never touches are handed on.
LEMMA PassFollows ==
    ASSUME NEW s, NEW c \in Contexts, Topology, Core(s)
    PROVE  Follows(s, FoldLeft(LAMBDA v, n : TryRelease(v, c, n), s,
                               [n \in 1..Len(G.kind) |-> n]))
<1> DEFINE seq == [n \in 1..Len(G.kind) |-> n]
           t == FoldLeft(LAMBDA v, n : TryRelease(v, c, n), s, seq)
<1>1. Nodes = 1..Len(G.kind) /\ Len(G.kind) \in Nat
  BY Tables DEF GraphTables
<1>2. seq \in Seq(Nodes)
  BY <1>1
<1>3. t = Passes!Fold(c, 0, 0, 0, s, seq)
  <2> HIDE DEF seq
  <2> QED
    BY DEF Passes!Fold, PassStep, FoldLeft, MapThenFoldSet,
           Passes!Last, Max
<1> HIDE DEF seq
<1>4. \A u : \A i \in 1..Len(seq) :
        Follows(s, u) => Follows(s, PassStep(c, 0, 0, 0, u, seq[i]))
  <2> SUFFICES ASSUME NEW u, NEW i \in 1..Len(seq), Follows(s, u)
               PROVE  Follows(s, TryRelease(u, c, seq[i]))
    BY DEF PassStep
  <2>1. seq[i] \in Nodes /\ Core(u)
    BY <1>2 DEF Follows
  <2>2. Follows(u, TryRelease(u, c, seq[i]))
    BY <2>1, TryReleaseFollows
  <2> QED
    BY <2>2, FollowsTrans
<1>5. Follows(s, s)
  BY FollowsRefl
<1>6. Follows(s, Passes!Fold(c, 0, 0, 0, s, seq))
  BY <1>2, <1>4, <1>5, Passes!FoldInv
<1> HIDE DEF t
<1>7. Follows(s, t)
  BY <1>3, <1>6
<1> QED
  BY <1>7 DEF t, seq

\* The gate of a record: its number in the session.
Gated(s, c) ==
    [s EXCEPT !.ctx[c] = [s.ctx[c] EXCEPT !.gated = Async,
                                          !.seq = IF Async THEN s.next ELSE 0],
              !.next = IF Async THEN @ + 1 ELSE @]

\* A record that enters gets a number no other has.
LEMMA GatedEnters ==
    ASSUME NEW s, NEW t, NEW c \in Contexts, Core(s), Enters(s, t, c), ~t.ctx[c].gated
    PROVE  Enters(s, Gated(t, c), c) /\ (Gated(t, c).ctx[c].gated <=> Async)
<1> DEFINE x == t.ctx[c]
           seq == IF Async THEN t.next ELSE 0
           y == [x EXCEPT !.gated = Async, !.seq = seq]
           next == IF Async THEN t.next + 1 ELSE t.next
           u == [t EXCEPT !.ctx[c] = y, !.next = next]
<1>1. /\ Core(t) /\ Exclusive(t) /\ x.inUse /\ \A id : ~Runs(x, id)
      /\ t.active = s.active
      /\ \A d \in Contexts : d # c => CalmContext(s.ctx[d], t.ctx[d])
      /\ \A n \in Nodes : s.turn[n] <= t.turn[n]
  BY DEF Enters
<1>2. DOMAIN t = SchedFields /\ DOMAIN t.ctx = Contexts /\ JoinsOK(t) /\ Numbered(t)
      /\ Context(x) /\ DOMAIN x = ContextFields /\ t.next \in Nat
  BY <1>1 DEF Core, Context, Numbered
<1>3. Gated(t, c) = u
  BY <1>2 DEF Gated, SchedFields
<1>4. seq \in Nat /\ next \in Nat /\ t.next <= next /\ (Async => seq \in 0..(next - 1))
      /\ (Async => seq = t.next)
  BY <1>2
<1> HIDE DEF seq, next
<1>5. /\ DOMAIN y = ContextFields /\ y.inUse = x.inUse /\ (y.gated <=> Async)
      /\ y.seq = seq /\ y.complete = x.complete /\ y.ev = x.ev /\ y.ready = x.ready
      /\ y.released = x.released /\ y.lease = x.lease
  <2> HIDE DEF x
  <2> QED
    BY <1>2 DEF ContextFields
<1> HIDE DEF y
<1>6. /\ DOMAIN u = SchedFields /\ DOMAIN u.ctx = Contexts /\ u.ctx[c] = y
      /\ \A d \in Contexts : d # c => u.ctx[d] = t.ctx[d]
      /\ u.active = t.active /\ u.turn = t.turn /\ u.next = next
      /\ u.joins = t.joins /\ u.last = t.last
  BY <1>2 DEF SchedFields
<1> HIDE DEF u
<1>7. Context(y) /\ \A id : ~Runs(y, id)
  <2>1. ReadyQueue(y)
    BY <1>2, <1>5 DEF Context, ReadyQueue
  <2>2. Context(y)
    BY <1>2, <1>5, <2>1 DEF Context
  <2> QED
    BY <1>1, <1>5, <2>2 DEF Runs
<1>8. Numbered(u)
  <2>1. ASSUME NEW d \in Contexts, u.ctx[d].gated
        PROVE  /\ Async /\ u.ctx[d].inUse /\ u.ctx[d].seq \in 0..(u.next - 1)
               /\ d # c => t.ctx[d].gated /\ u.ctx[d].seq = t.ctx[d].seq
                           /\ t.ctx[d].seq \in 0..(t.next - 1)
               /\ d = c => u.ctx[d].seq = t.next
    <3>1. CASE d = c
      BY <1>1, <1>4, <1>5, <1>6, <2>1, <3>1
    <3>2. CASE d # c
      <4>1. u.ctx[d] = t.ctx[d] /\ Async /\ t.ctx[d].inUse
            /\ t.ctx[d].seq \in 0..(t.next - 1)
        BY <1>2, <1>6, <2>1, <3>2 DEF Numbered
      <4>2. t.ctx[d].seq \in 0..(next - 1)
        BY <1>2, <1>4, <4>1
      <4> QED
        BY <1>6, <2>1, <3>2, <4>1, <4>2
    <3> QED
      BY <3>1, <3>2
  <2>2. ASSUME NEW d \in Contexts, NEW e \in Contexts, u.ctx[d].gated, u.ctx[e].gated,
               u.ctx[d].seq = u.ctx[e].seq
        PROVE  d = e
    <3>1. CASE d # c /\ e # c
      BY <1>2, <2>1, <2>2, <3>1 DEF Numbered
    <3>2. CASE d = c /\ e # c
      <4>1. t.next \in 0..(t.next - 1)
        BY <2>1, <2>2, <3>2
      <4> QED
        BY <1>2, <4>1
    <3>3. CASE d # c /\ e = c
      <4>1. t.next \in 0..(t.next - 1)
        BY <2>1, <2>2, <3>3
      <4> QED
        BY <1>2, <4>1
    <3> QED
      BY <3>1, <3>2, <3>3
  <2> QED
    BY <1>4, <1>6, <2>1, <2>2 DEF Numbered
<1>9. Core(u)
  <2>1. \A d \in Contexts : Context(u.ctx[d])
    BY <1>1, <1>6, <1>7 DEF Core
  <2>2. JoinsOK(u)
    BY <1>2, <1>6 DEF JoinsOK
  <2> QED
    BY <1>1, <1>6, <1>8, <2>1, <2>2 DEF Core
<1>10. Exclusive(u)
  <2>1. EasesContext(t.ctx[c], u.ctx[c])
    BY <1>5, <1>6, <1>7 DEF EasesContext
  <2>2. \A d \in Contexts : EasesContext(t.ctx[d], u.ctx[d])
    BY <1>6, <2>1 DEF EasesContext
  <2>3. Eases(t, u)
    BY <1>6, <2>2 DEF Eases
  <2> QED
    BY <1>1, <1>9, <2>3, EasesExclusive
<1> QED
  BY <1>1, <1>3, <1>5, <1>6, <1>7, <1>9, <1>10 DEF Enters

\* The record joins the active ones.
LEMMA JoinsActive ==
    ASSUME NEW s, NEW t, NEW c \in Contexts, SchedOK(s), ~s.ctx[c].inUse,
           Enters(s, t, c), t.ctx[c].gated <=> Async
    PROVE  LET u == [t EXCEPT !.active = Append(@, c)]
           IN  SchedOK(u) /\ u.ctx = t.ctx /\ u.turn = t.turn
<1> DEFINE q == t.active
           r == Append(q, c)
           u == [t EXCEPT !.active = r]
<1>1. Core(t) /\ Exclusive(t) /\ q = s.active /\ t.ctx[c].inUse /\ ActiveOK(s)
  BY DEF Enters, SchedOK
<1>2. DOMAIN t = SchedFields /\ JoinsOK(t) /\ Numbered(t) /\ q \in Seq(Contexts)
  BY <1>1 DEF Core
<1>3. r \in Seq(Contexts) /\ DOMAIN q = 1..Len(q) /\ Len(q) \in Nat
      /\ DOMAIN r = 1..(Len(q) + 1)
      /\ r[Len(q) + 1] = c /\ \A i \in 1..Len(q) : r[i] = q[i]
  BY <1>2
<1> HIDE DEF r, q
<1>4. /\ DOMAIN u = SchedFields /\ u.ctx = t.ctx /\ u.active = r /\ u.turn = t.turn
      /\ u.next = t.next /\ u.joins = t.joins /\ u.last = t.last
  BY <1>2 DEF SchedFields
<1> HIDE DEF u
<1>5. Core(u)
  <2>1. JoinsOK(u)
    BY <1>2, <1>4 DEF JoinsOK
  <2>2. Numbered(u)
    BY <1>2, <1>4 DEF Numbered
  <2> QED
    BY <1>1, <1>3, <1>4, <2>1, <2>2 DEF Core
<1>6. Exclusive(u)
  <2>1. Eases(t, u)
    BY <1>4 DEF Eases, EasesContext
  <2> QED
    BY <1>1, <1>5, <2>1, EasesExclusive
<1>7. \A i \in 1..Len(q) : q[i] # c
  <2>1. c \notin ActiveSet(s)
    BY <1>1 DEF ActiveOK
  <2> QED
    BY <1>1, <1>3, <2>1 DEF ActiveSet, q
<1>8. IsInjective(r)
  <2>1. \A i, j \in 1..Len(q) : q[i] = q[j] => i = j
    BY <1>1, <1>3 DEF ActiveOK, IsInjective
  <2>2. \A i \in DOMAIN r : i \in 1..Len(q) \/ i = Len(q) + 1
    BY <1>3
  <2> QED
    BY <1>3, <1>7, <2>1, <2>2 DEF IsInjective
<1>9. \A d : d \in ActiveSet(u) <=> d \in ActiveSet(s) \/ d = c
  <2>1. \A d : d \in ActiveSet(u) <=> \E i \in DOMAIN r : r[i] = d
    BY <1>4 DEF ActiveSet
  <2>2. \A d : d \in ActiveSet(s) <=> \E i \in 1..Len(q) : q[i] = d
    BY <1>1, <1>3 DEF ActiveSet, q
  <2>3. \A i \in DOMAIN r : i \in 1..Len(q) \/ i = Len(q) + 1
    BY <1>3
  <2>4. Len(q) + 1 \in DOMAIN r /\ \A i \in 1..Len(q) : i \in DOMAIN r
    BY <1>3
  <2> QED
    BY <1>3, <2>1, <2>2, <2>3, <2>4
<1>10. ActiveOK(u)
  <2>1. ASSUME NEW d \in Contexts
        PROVE  /\ u.ctx[d].inUse <=> d \in ActiveSet(u)
               /\ u.ctx[d].inUse => (u.ctx[d].gated <=> Async)
               /\ ~u.ctx[d].inUse => u.ctx[d] = FreeContext
    <3>1. CASE d = c
      BY <1>1, <1>4, <1>9, <3>1
    <3>2. CASE d # c
      <4>1. CalmContext(s.ctx[d], t.ctx[d])
        BY <3>2 DEF Enters
      <4> QED
        BY <1>1, <1>4, <1>9, <3>2, <4>1 DEF CalmContext, ActiveOK
    <3> QED
      BY <3>1, <3>2
  <2> QED
    BY <1>4, <1>8, <2>1 DEF ActiveOK
<1> QED
  BY <1>4, <1>5, <1>6, <1>10 DEF SchedOK, u, r, q

\* What the opening of a record leaves: the running events run on.
Opened(s, t) ==
    /\ SchedOK(t)
    /\ \A d \in Contexts : \A id : Runs(s.ctx[d], id) => Runs(t.ctx[d], id)
    /\ \A n \in Nodes : s.turn[n] <= t.turn[n]

\* activate_locked() makes a record that entered an active one.
LEMMA ActivateOK ==
    ASSUME NEW s, NEW t, NEW c \in Contexts, Topology, SchedOK(s), ~s.ctx[c].inUse,
           Enters(s, t, c), ~t.ctx[c].gated
    PROVE  Opened(s, Activate(t, c))
<1> DEFINE g == Gated(t, c)
           passed == IF Async THEN FoldLeft(LAMBDA v, n : TryRelease(v, c, n), g,
                                            [n \in 1..Len(G.kind) |-> n])
                     ELSE g
           u == [passed EXCEPT !.active = Append(@, c)]
           v == IF u.ctx[c].ev = NoEvents THEN MarkComplete(u, c) ELSE u
<1>1. Activate(t, c) = v
  BY DEF Activate, Gated
<1>2. Core(s) /\ Enters(s, g, c) /\ (g.ctx[c].gated <=> Async)
  BY GatedEnters DEF SchedOK
<1>3. Core(g)
  BY <1>2 DEF Enters
<1> HIDE DEF g
<1>4. Follows(g, passed)
  BY <1>3, PassFollows, FollowsRefl
<1> HIDE DEF passed
<1>5. Enters(s, passed, c) /\ (passed.ctx[c].gated <=> Async)
  BY <1>2, <1>4, EntersFollows
<1>6. SchedOK(u) /\ u.ctx = passed.ctx /\ u.turn = passed.turn
  BY <1>5, JoinsActive
<1> HIDE DEF u
<1>7. Core(u) /\ Follows(u, v)
  <2>1. Core(u)
    BY <1>6 DEF SchedOK
  <2>2. CASE u.ctx[c].ev = NoEvents
    <3>1. DOMAIN u.ctx[c].ev = {} /\ u.ctx[c].inUse
      BY <1>5, <1>6, <2>2 DEF NoEvents, Enters
    <3> QED
      BY <2>1, <2>2, <3>1, MarkCompleteFollows
  <2>3. CASE u.ctx[c].ev # NoEvents
    BY <2>1, <2>3, FollowsRefl
  <2> QED
    BY <2>1, <2>2, <2>3
<1> HIDE DEF v
<1>8. SchedOK(v)
  BY <1>6, <1>7, FollowsSchedOK
<1>9. \A d \in Contexts : \A id : Runs(s.ctx[d], id) => Runs(v.ctx[d], id)
  <2> SUFFICES ASSUME NEW d \in Contexts, NEW id, Runs(s.ctx[d], id)
      PROVE  Runs(v.ctx[d], id)
    OBVIOUS
  <2>1. d # c
    <3>1. s.ctx[c] = FreeContext
      BY DEF SchedOK, ActiveOK
    <3> QED
      BY <3>1, FreeContextOK
  <2>2. Runs(u.ctx[d], id)
    BY <1>5, <1>6, <2>1 DEF Enters, CalmContext
  <2> QED
    BY <1>7, <2>2 DEF Follows, Calm, CalmContext
<1>10. \A n \in Nodes : s.turn[n] <= v.turn[n]
  <2>1. \A n \in Nodes : s.turn[n] \in Nat /\ u.turn[n] \in Nat /\ v.turn[n] \in Nat
    BY <1>2, <1>7 DEF Core, Follows
  <2>2. \A n \in Nodes : s.turn[n] <= u.turn[n] /\ u.turn[n] <= v.turn[n]
    BY <1>5, <1>6, <1>7 DEF Enters, Follows, Calm, CalmTurns
  <2> QED
    BY <2>1, <2>2
<1> QED
  BY <1>1, <1>8, <1>9, <1>10 DEF Opened

\* The events a record starts with.
LEMMA RootsAre ==
    ASSUME NEW kind \in {"raw", "flush", "one"}, NEW nodes, nodes \subseteq Nodes,
           Topology, kind = "one" => ~Async
    PROVE  LET A == {Roots(kind, nodes)[i] : i \in DOMAIN Roots(kind, nodes)}
           IN  Roots(kind, nodes) \in Seq(A) /\ \A e \in A : First(e)
<1> DEFINE order == Ascending(nodes)
           root(i) == IF kind = "one" THEN 0 ELSE order[i]
           event(i) == [Event(kind, order[i]) EXCEPT !.root = root(i)]
           R == [i \in DOMAIN order |-> event(i)]
           A == {R[i] : i \in DOMAIN R}
<1>1. nodes \subseteq Nat /\ IsFiniteSet(nodes)
  <2>1. Nodes \subseteq Nat /\ IsFiniteSet(Nodes)
    BY Tables DEF GraphTables
  <2> QED
    BY <2>1, FS_Subset
<1>2. order \in Seq(nodes)
  BY <1>1, AscendingIn
<1>3. Roots(kind, nodes) = R
  BY DEF Roots
<1> HIDE DEF order
<1>4. Len(order) \in Nat /\ DOMAIN order = 1..Len(order)
      /\ \A i \in DOMAIN order : order[i] \in Nodes /\ order[i] \in Nat
  <2>1. /\ Len(order) \in Nat /\ DOMAIN order = 1..Len(order)
        /\ \A i \in DOMAIN order : order[i] \in nodes
    BY <1>2
  <2> QED
    BY <1>1, <2>1
<1>5. ASSUME NEW i \in DOMAIN order
      PROVE  First(event(i))
  <2> DEFINE n == order[i]
             r == root(i)
             e == [Event(kind, n) EXCEPT !.root = r]
  <2>1. n \in Nodes /\ r \in Int
    BY <1>4
  <2> HIDE DEF n, r
  <2>2. /\ DOMAIN e = EventFields /\ e.kind = kind /\ e.node = n /\ e.idx = NoIndex
        /\ e.root = r /\ e.off = 0 /\ e.path = <<>> /\ e.cont = <<>> /\ e.frees = FALSE
        /\ e.kids = <<>> /\ e.st = "held" /\ e.parent = 0
    BY DEF Event, EventFields
  <2> HIDE DEF e
  <2>3. e.path \in Seq(Int) /\ e.kids \in Seq(Nat) /\ e.idx \in Int /\ e.off \in Int
    BY <2>2 DEF NoIndex
  <2>4. IsEvent(e)
    BY <2>1, <2>2, <2>3 DEF IsEvent
  <2>5. First(e)
    BY <2>2, <2>4 DEF First
  <2> QED
    BY <2>5 DEF e, n, r
<1> HIDE DEF event
<1>6. DOMAIN R = 1..Len(order) /\ \A i \in 1..Len(order) : R[i] = event(i)
  BY <1>4
<1>7. \A e \in A : First(e)
  BY <1>4, <1>5, <1>6
<1> HIDE DEF R
<1>8. R \in [1..Len(order) -> A]
  <2>1. R = [i \in DOMAIN R |-> R[i]]
    BY DEF R
  <2> QED
    BY <1>6, <2>1
<1> HIDE DEF A
<1>9. R \in Seq(A)
  BY <1>4, <1>8
<1> QED
  BY <1>3, <1>7, <1>9 DEF A

\* A record is opened.
LEMMA OpenOK ==
    ASSUME IInv, MayOpen, NEW c \in Contexts, ~sched.ctx[c].inUse, NEW x, Blank(x),
           NEW A, NEW firsts \in Seq(A), \A e \in A : First(e), Open(c, x, firsts),
           graph' = graph, ingest' = ingest, seen' = seen, NEW v, coord' = v,
           DOMAIN v = DOMAIN coord, v.left \in Int, v.left <= coord.left, v.pc = coord.pc
    PROVE  IInv'
<1> DEFINE s1 == [sched EXCEPT !.ctx[c] = x]
           t1 == FoldLeft(LAMBDA u, e : Push(u, c, e), s1, firsts)
           t == Activate(t1, c)
           ws == IF Async THEN Notified(worker, t) ELSE [w \in Workers |-> Idle]
<1>1. sched' = t /\ worker' = ws
  <2>1. sched' = t
    BY DEF Open
  <2> HIDE DEF t
  <2> QED
    BY <2>1 DEF Open
<1>2. SchedOK(sched) /\ Core(sched) /\ Topology /\ WorkersOK(worker, sched)
  BY DEF IInv, SchedOK
<1>3. Enters(sched, s1, c) /\ ~s1.ctx[c].gated /\ ~s1.ctx[c].complete
  BY <1>2, BlankEnters
<1>4. Core(s1) /\ s1.ctx[c].inUse
  BY <1>3 DEF Enters
<1> HIDE DEF s1
<1>5. Follows(s1, t1)
  BY <1>3, <1>4, FillFollows
<1> HIDE DEF t1
<1>6. Enters(sched, t1, c) /\ ~t1.ctx[c].gated
  <2>1. Enters(sched, t1, c) /\ t1.ctx[c].gated = s1.ctx[c].gated
    BY <1>2, <1>3, <1>5, EntersFollows
  <2> QED
    BY <1>3, <2>1
<1>7. Opened(sched, t)
  BY <1>2, <1>6, ActivateOK
<1> HIDE DEF t
<1>8. WorkersOK(ws, t)
  <2>1. CASE Async
    <3>1. \A w \in Workers : worker[w].pc \in BusyAt =>
            Runs(t.ctx[worker[w].c], worker[w].id)
      BY <1>2, <1>7 DEF WorkersOK, Opened
    <3>2. WorkersOK(worker, t)
      BY <1>2, <3>1, WorkersRunOn
    <3> QED
      BY <2>1, <3>2, NotifiedOK
  <2>2. CASE ~Async
    <3> DEFINE idle == [w \in Workers |-> Idle]
    <3>1. DOMAIN idle = Workers
          /\ \A w \in Workers : idle[w] \in {Idle, [Idle EXCEPT !.pc = "exit"]}
      OBVIOUS
    <3> HIDE DEF idle
    <3>2. WorkersOK(idle, t)
      BY <3>1, IdleWorkersOK
    <3> QED
      BY <2>2, <3>2 DEF idle
  <2> QED
    BY <2>1, <2>2
<1> HIDE DEF ws
<1>9. SchedOK(t) /\ Core(t) /\ \A n \in Nodes : sched.turn[n] <= t.turn[n]
  BY <1>7 DEF Opened, SchedOK
<1>10. SeenOK'
  BY <1>1, <1>9, CoordStays
<1>11. EndedClean' /\ IngestOK'
  BY IngestStays DEF EndedClean, MayOpen
<1> QED
  BY <1>1, <1>8, <1>9, <1>10, <1>11, Closing

\* The first free context is a free context.
LEMMA FirstFree ==
    ASSUME FreeContexts # {}
    PROVE  Min(FreeContexts) \in Contexts /\ ~sched.ctx[Min(FreeContexts)].inUse
<1>1. FreeContexts \subseteq Nat
  BY SchedulerAssumption DEF FreeContexts, Contexts
<1> DEFINE c == Min(FreeContexts)
<1>2. c \in FreeContexts
  BY <1>1, MinIs
<1> HIDE DEF c
<1>3. c \in Contexts /\ ~sched.ctx[c].inUse
  BY <1>2 DEF FreeContexts
<1> QED
  BY <1>3 DEF c

\* Admitting a record keeps the invariant.
LEMMA AdmitOK ==
    ASSUME IInv, Admit
    PROVE  IInv'
<1>1. /\ MayOpen /\ FreeContexts # {} /\ graph' = graph /\ ingest' = ingest
      /\ seen' = seen
  BY DEF Admit
<1> DEFINE c == Min(FreeContexts)
           firsts == Roots("raw", G.raw)
           A == {firsts[i] : i \in DOMAIN firsts}
           take(shape) == IF shape = "two" THEN 2 ELSE 1
           x(shape) ==
             [FreeContext EXCEPT
                !.inUse = TRUE, !.phase = "enqueue", !.final = G.final /\ coord.left = 1,
                !.first = coord.op, !.last = coord.op + take(shape) - 1,
                !.len = IF shape \in {"two", "long"} THEN 2 ELSE 1]
           v(shape) == [coord EXCEPT
                          !.left = @ - 1, !.cut = (shape = "cut"),
                          !.op = IF shape = "cut" THEN @ ELSE @ + take(shape)]
<1>2. PICK shape \in Shapes : Open(c, x(shape), firsts) /\ coord' = v(shape)
  BY DEF Admit
<1>3. c \in Contexts /\ ~sched.ctx[c].inUse
  BY <1>1, FirstFree
<1>4. Blank(x(shape))
  BY DEF Blank, FreeContext, ContextFields
<1>5. firsts \in Seq(A) /\ \A e \in A : First(e)
  <2>1. G.raw \subseteq Nodes /\ Topology
    BY Tables DEF GraphTables, IInv
  <2> QED
    BY <2>1, RootsAre
<1>6. coord.left \in Int /\ DOMAIN coord = {"pc", "op", "left", "cut", "flushed",
                                            "finalized", "failed", "shots"}
  BY DEF IInv, SeenOK
<1>7. DOMAIN v(shape) = DOMAIN coord /\ v(shape).left = coord.left - 1
      /\ v(shape).pc = coord.pc
  BY <1>6
<1> HIDE DEF x, v, c, firsts, A
<1>8. v(shape).left \in Int /\ v(shape).left <= coord.left
  BY <1>6, <1>7
<1> QED
  BY <1>1, <1>2, <1>3, <1>4, <1>5, <1>7, <1>8, OpenOK

\* The nodes without producers.
Sources == {n \in Nodes : C.producers[n] = {}}

\* Admitting the shot's flush keeps the invariant.
LEMMA AdmitFlushOK ==
    ASSUME IInv, AdmitFlush
    PROVE  IInv'
<1> DEFINE c == Min(FreeContexts)
           firsts == Roots("flush", Sources)
           A == {firsts[i] : i \in DOMAIN firsts}
           x == [FreeContext EXCEPT
                   !.inUse = TRUE, !.phase = "flush", !.first = coord.op - 1,
                   !.last = coord.op - 1, !.deps = C.producers]
           v == [coord EXCEPT !.flushed = TRUE]
<1>1. /\ MayOpen /\ FreeContexts # {} /\ graph' = graph /\ ingest' = ingest
      /\ seen' = seen /\ Open(c, x, firsts) /\ coord' = v
  BY DEF AdmitFlush, Sources
<1>2. c \in Contexts /\ ~sched.ctx[c].inUse
  BY <1>1, FirstFree
<1>3. Blank(x)
  BY DEF Blank, FreeContext, ContextFields
<1>4. firsts \in Seq(A) /\ \A e \in A : First(e)
  <2>1. Sources \subseteq Nodes /\ Topology
    BY DEF IInv, Sources
  <2> QED
    BY <2>1, RootsAre
<1>5. coord.left \in Int /\ "left" \in DOMAIN coord /\ "pc" \in DOMAIN coord
  BY DEF IInv, SeenOK
<1>6. DOMAIN v = DOMAIN coord /\ v.left = coord.left /\ v.pc = coord.pc
  BY <1>5
<1> HIDE DEF x, v, c, firsts, A
<1>7. v.left \in Int /\ v.left <= coord.left
  BY <1>5, <1>6
<1> QED
  BY <1>1, <1>2, <1>3, <1>4, <1>6, <1>7, OpenOK

\* Admitting a one-shot call keeps the invariant.
LEMMA AdmitOneShotOK ==
    ASSUME IInv, AdmitOneShot
    PROVE  IInv'
<1> DEFINE c == Min(FreeContexts)
           firsts == Roots("one", Sources)
           A == {firsts[i] : i \in DOMAIN firsts}
           x == [FreeContext EXCEPT !.inUse = TRUE, !.phase = "one_shot",
                                    !.deps = C.producers]
           v == [coord EXCEPT !.left = @ - 1, !.flushed = TRUE]
<1>1. /\ MayOpen /\ FreeContexts # {} /\ graph' = graph /\ ingest' = ingest
      /\ seen' = seen /\ Open(c, x, firsts) /\ coord' = v /\ G.mode = "one_shot"
  BY DEF AdmitOneShot, Sources
<1>2. c \in Contexts /\ ~sched.ctx[c].inUse
  BY <1>1, FirstFree
<1>3. Blank(x)
  BY DEF Blank, FreeContext, ContextFields
<1>4. firsts \in Seq(A) /\ \A e \in A : First(e)
  <2>1. Sources \subseteq Nodes /\ Topology /\ ~Async
    BY <1>1 DEF IInv, Sources, Async
  <2> QED
    BY <2>1, RootsAre
<1>5. coord.left \in Int /\ "left" \in DOMAIN coord /\ "pc" \in DOMAIN coord
  BY DEF IInv, SeenOK
<1>6. DOMAIN v = DOMAIN coord /\ v.left = coord.left - 1 /\ v.pc = coord.pc
  BY <1>5
<1> HIDE DEF x, v, c, firsts, A
<1>7. v.left \in Int /\ v.left <= coord.left
  BY <1>5, <1>6
<1> QED
  BY <1>1, <1>2, <1>3, <1>4, <1>6, <1>7, OpenOK

-----------------------------------------------------------------------------
(* The invariant                                                            *)

\* A constructed scheduler.
LEMMA InitOK ==
    ASSUME Init
    PROVE  IInv
<1>1. Topology
  <2>1. PICK x \in DOMAIN Graphs : graph = Compiled(Graphs[x])
    BY DEF Init
  <2>2. G = Graphs[x] /\ C = Compile(Graphs[x])
    BY <2>1 DEF G, C, Compiled
  <2> QED
    BY <2>2, GraphsAssumption DEF Topology
<1>2. SchedOK(sched)
  <2>1. sched = FreshSched
    BY DEF Init
  <2> DEFINE t == FreshSched
  <2>2. /\ DOMAIN t = SchedFields /\ t.ctx = [c \in Contexts |-> FreeContext]
        /\ t.active = <<>> /\ t.turn = [n \in Nodes |-> 0] /\ t.next = 0
        /\ t.joins = [n \in Nodes |-> <<>>]
        /\ t.last = [w \in DOMAIN G.wires |-> NoIndex]
    BY DEF FreshSched, SchedFields
  <2> HIDE DEF t
  <2>3. JoinsOK(t)
    <3>1. t.last \in [DOMAIN G.wires -> Int]
      BY <2>2 DEF NoIndex
    <3>2. \A n \in Nodes : DOMAIN t.joins[n] = {}
      BY <2>2
    <3>3. \A n \in Nodes : IsFiniteSet(DOMAIN t.joins[n])
      BY <3>2, FS_EmptySet
    <3> QED
      BY <2>2, <3>1, <3>2, <3>3 DEF JoinsOK
  <2>4. t.turn \in [Nodes -> Nat] /\ t.next \in Nat /\ DOMAIN t.ctx = Contexts
        /\ \A c \in Contexts : t.ctx[c] = FreeContext
    BY <2>2
  <2>5. SchedOK(t)
    BY <2>2, <2>3, <2>4, IdleSchedOK
  <2> QED
    BY <2>1, <2>5 DEF t
<1>3. WorkersOK(worker, sched)
  <2>1. DOMAIN worker = Workers
        /\ \A w \in Workers : worker[w] \in {Idle, [Idle EXCEPT !.pc = "exit"]}
    BY DEF Init, WorkersAtStart
  <2> QED
    BY <2>1, IdleWorkersOK
<1>4. IngestOK
  BY DEF Init, IngestOK
<1>5. SeenOK
  <2>1. coord = FreshCoord(G.shots) /\ seen = NothingSeen
    BY DEF Init
  <2>2. G.records \in Int
    BY <1>1 DEF Topology, WellFormed
  <2>3. /\ DOMAIN coord = {"pc", "op", "left", "cut", "flushed", "finalized", "failed",
                           "shots"}
        /\ coord.left = G.records
    BY <2>1 DEF FreshCoord
  <2>4. "key" \in DOMAIN seen /\ DOMAIN seen.key = Nodes
        /\ \A n \in Nodes : seen.key[n] = <<>>
    BY <2>1 DEF NothingSeen
  <2> QED
    BY <2>2, <2>3, <2>4 DEF SeenOK
<1>6. EndedClean
  BY DEF Init, FreshCoord, EndedClean
<1> QED
  BY <1>1, <1>2, <1>3, <1>4, <1>5, <1>6 DEF IInv

\* Nothing happens.
LEMMA StutterOK ==
    ASSUME IInv, UNCHANGED vars
    PROVE  IInv'
<1>1. /\ graph' = graph /\ sched' = sched /\ worker' = worker /\ coord' = coord
      /\ ingest' = ingest /\ seen' = seen
  BY DEF vars
<1>2. SchedOK(sched) /\ Core(sched) /\ WorkersOK(worker, sched)
  BY DEF IInv, SchedOK
<1>3. \A n \in Nodes : sched.turn[n] \in Nat
  BY <1>2 DEF Core
<1>4. \A n \in Nodes : sched.turn[n] <= sched.turn[n]
  BY <1>3
<1>5. SeenOK'
  <2>1. KeysFrom(seen)
    BY KeysSame DEF IInv, SeenOK
  <2> QED
    BY <1>1, <1>2, <1>4, <2>1, SeenStaysHere
<1>6. EndedClean' /\ IngestOK'
  BY <1>1, IngestStays DEF IInv, EndedClean
<1> QED
  BY <1>1, <1>2, <1>5, <1>6, Closing

\* Every step of a worker, of the coordinator or of a caller that cancels
\* keeps the invariant.
LEMMA NextOK ==
    ASSUME IInv, [Next]_vars
    PROVE  IInv'
<1>1. ASSUME NEW w \in Workers, WorkerStep(w)
      PROVE  IInv'
  BY <1>1, LookOK, ExecuteRawOK, PublishNextOK, ExecuteEdgeOK, ExecuteFireOK,
     ExecuteFlushOK, SettleFlushOK, ExecuteReleaseOK, ExecuteOneShotOK DEF WorkerStep
<1>2. ASSUME NEW w \in Workers, Throw(w)
      PROVE  IInv'
  BY <1>2, ThrowOK
<1>3. CASE Dispatch
  BY <1>3, AdmitOK, AdmitFlushOK, AdmitOneShotOK, RetireOK, EndStoppedOK, EndSessionOK,
     NextShotOK DEF Dispatch
<1>4. CASE Cancel
  BY <1>4, CancelOK
<1>5. CASE UNCHANGED vars
  BY <1>5, StutterOK
<1> QED
  BY <1>1, <1>2, <1>3, <1>4, <1>5 DEF Next

\* The inductive invariant of the record scheduler holds.
THEOREM SchedulerInvariant == Spec => []IInv
<1>1. Init => IInv
  BY InitOK
<1>2. IInv /\ [Next]_vars => IInv'
  BY NextOK
<1> QED
  BY <1>1, <1>2, PTL DEF Spec

-----------------------------------------------------------------------------
(* What follows                                                             *)

\* The scheduler's state is of its type.
THEOREM SchedulerTyped == Spec => []TypeOK
<1>1. ASSUME IInv
      PROVE  TypeOK
  <2>1. WellFormed(G) /\ Core(sched) /\ WorkersOK(worker, sched)
    BY <1>1 DEF IInv, Topology, SchedOK
  <2>2. ASSUME NEW c \in Contexts
        PROVE  /\ ToSet(sched.ctx[c].ready) \subseteq DOMAIN sched.ctx[c].ev
               /\ sched.ctx[c].released \subseteq Nodes
    <3>1. Context(sched.ctx[c])
      BY <2>1 DEF Core
    <3>2. \A i \in DOMAIN sched.ctx[c].ready : sched.ctx[c].ready[i] \in DOMAIN sched.ctx[c].ev
      BY <3>1 DEF Context, ReadyQueue
    <3> QED
      BY <3>1, <3>2 DEF Context, ToSet
  <2>3. sched.turn \in [Nodes -> Nat]
    BY <2>1 DEF Core
  <2>4. ASSUME NEW w \in Workers
        PROVE  /\ worker[w].pc \in {"look", "wait", "run", "pub", "settle", "ran", "exit"}
               /\ worker[w].pc \in {"run", "pub", "settle", "ran"} =>
                    worker[w].id \in DOMAIN sched.ctx[worker[w].c].ev
    BY <2>1 DEF WorkersOK, BusyAt, Runs
  <2> QED
    BY <2>1, <2>2, <2>3, <2>4 DEF TypeOK
<1> QED
  BY <1>1, SchedulerInvariant, PTL

\* A busy worker's event, as the invariant speaks of it.
LEMMA BusyRuns ==
    ASSUME IInv, NEW w \in Busy(worker)
    PROVE  /\ w \in Workers /\ worker[w].pc \in BusyAt /\ worker[w].c \in Contexts
           /\ Runs(sched.ctx[worker[w].c], worker[w].id)
           /\ worker[w].id \in DOMAIN sched.ctx[worker[w].c].ev
           /\ EvOf(w) = Ev(sched, worker[w].c, worker[w].id)
           /\ EvOf(w).node \in Nodes
<1>1. w \in Workers /\ worker[w].pc \in BusyAt
  BY DEF Busy, BusyAt
<1>2. worker[w].c \in Contexts /\ Runs(sched.ctx[worker[w].c], worker[w].id)
  BY <1>1 DEF IInv, WorkersOK
<1>3. EvOf(w) = Ev(sched, worker[w].c, worker[w].id) /\ EvOf(w).node \in Nodes
  BY <1>1, BusyActs
<1> QED
  BY <1>1, <1>2, <1>3 DEF Runs

\* No two workers are in the same node, or in the same copy of a node: what
\* claim_locked() hands out and finish_locked() takes back is held by one
\* event at a time, for any graph, worker count and context count.
THEOREM SchedulerNodesExclusive == Spec => []NodesExclusive
<1>1. ASSUME IInv
      PROVE  NodesExclusive
  <2> USE <1>1
  <2> SUFFICES ASSUME NEW w \in Busy(worker), NEW v \in Busy(worker), w # v
      PROVE  /\ SerializedNode(EvOf(w)) # 0 =>
                  SerializedNode(EvOf(w)) # SerializedNode(EvOf(v))
             /\ UsesCopy(EvOf(w)) /\ UsesCopy(EvOf(v)) /\ EvOf(w).node = EvOf(v).node =>
                  EvOf(w).rep # EvOf(v).rep
    BY DEF NodesExclusive
  <2> DEFINE c == worker[w].c
             i == worker[w].id
             d == worker[v].c
             j == worker[v].id
             e == EvOf(w)
             f == EvOf(v)
  <2>1. /\ w \in Workers /\ worker[w].pc \in BusyAt /\ c \in Contexts
        /\ Runs(sched.ctx[c], i) /\ i \in DOMAIN sched.ctx[c].ev
        /\ e = Ev(sched, c, i) /\ e.node \in Nodes
    BY BusyRuns
  <2>2. /\ v \in Workers /\ worker[v].pc \in BusyAt /\ d \in Contexts
        /\ Runs(sched.ctx[d], j) /\ j \in DOMAIN sched.ctx[d].ev
        /\ f = Ev(sched, d, j) /\ f.node \in Nodes
    BY BusyRuns
  <2>3. ~(c = d /\ i = j)
    BY <2>1, <2>2 DEF IInv, WorkersOK
  <2>4. NodeExclusive(sched) /\ LeasesDistinct(sched) /\ FiresApart(sched)
        /\ DeliveriesLeased(sched)
    BY DEF IInv, SchedOK, Exclusive
  <2> HIDE DEF c, d, i, j, e, f
  <2>5. SerializedNode(e) # 0 => SerializedNode(e) # SerializedNode(f)
    BY <2>1, <2>2, <2>3, <2>4 DEF NodeExclusive
  <2>6. ASSUME UsesCopy(e), UsesCopy(f), e.node = f.node, e.rep = f.rep
        PROVE  FALSE
    <3>1. CASE e.kind = "fire" /\ f.kind = "fire"
      BY <2>1, <2>2, <2>3, <2>4, <2>6, <3>1 DEF FiresApart
    <3>2. CASE e.kind = "fire" /\ IsPoolDelivery(f)
      <4>1. f.rep = sched.ctx[d].lease[f.node]
        BY <2>2, <2>4, <3>2 DEF DeliveriesLeased
      <4>2. sched.ctx[d].lease[e.node] # e.rep
        BY <2>1, <2>2, <2>4, <3>2 DEF FiresApart
      <4> QED
        BY <2>6, <4>1, <4>2
    <3>3. CASE IsPoolDelivery(e) /\ f.kind = "fire"
      <4>1. e.rep = sched.ctx[c].lease[e.node]
        BY <2>1, <2>4, <3>3 DEF DeliveriesLeased
      <4>2. sched.ctx[c].lease[f.node] # f.rep
        BY <2>1, <2>2, <2>4, <3>3 DEF FiresApart
      <4> QED
        BY <2>6, <4>1, <4>2
    <3>4. CASE IsPoolDelivery(e) /\ IsPoolDelivery(f)
      <4>1. /\ e.rep = sched.ctx[c].lease[e.node] /\ e.rep # 0
            /\ f.rep = sched.ctx[d].lease[f.node]
        BY <2>1, <2>2, <2>4, <3>4 DEF DeliveriesLeased
      <4>2. c = d
        BY ZenonT(60), <2>1, <2>2, <2>4, <2>6, <4>1 DEF LeasesDistinct
      <4>3. i = j
        BY <2>1, <2>2, <2>4, <2>6, <3>4, <4>2 DEF DeliveriesLeased
      <4> QED
        BY <2>3, <4>2, <4>3
    <3> QED
      BY <2>6, <3>1, <3>2, <3>3, <3>4 DEF UsesCopy
  <2> QED
    BY <2>5, <2>6 DEF e, f
<1> QED
  BY <1>1, SchedulerInvariant, PTL

\* A record-ordered node runs only for the record whose turn it is.
THEOREM SchedulerWorkersInTurn == Spec => []WorkersInTurn
<1>1. ASSUME IInv
      PROVE  WorkersInTurn
  <2> USE <1>1
  <2> SUFFICES ASSUME NEW w \in Busy(worker), sched.ctx[worker[w].c].gated,
                      Ordered(EvOf(w).node)
      PROVE  sched.turn[EvOf(w).node] = sched.ctx[worker[w].c].seq
    BY DEF WorkersInTurn
  <2>1. /\ worker[w].c \in Contexts /\ Runs(sched.ctx[worker[w].c], worker[w].id)
        /\ worker[w].id \in DOMAIN sched.ctx[worker[w].c].ev
        /\ EvOf(w) = Ev(sched, worker[w].c, worker[w].id)
    BY BusyRuns
  <2>2. TurnHeld(sched)
    BY DEF IInv, SchedOK, Exclusive
  <2> QED
    BY <2>1, <2>2 DEF TurnHeld
<1> QED
  BY <1>1, SchedulerInvariant, PTL

\* A session that has ended leaves no record and no running event behind,
\* also where it was stopped with records in flight.
THEOREM SchedulerEndsIdle == Spec => []EndedIsIdle
<1>1. ASSUME IInv
      PROVE  EndedIsIdle
  <2> USE <1>1
  <2> SUFFICES ASSUME coord.pc = "ended"
      PROVE  /\ \A c \in Contexts : sched.ctx[c] = FreeContext
             /\ sched.active = <<>> /\ Busy(worker) = {}
    BY DEF EndedIsIdle
  <2>1. \A c \in Contexts : sched.ctx[c] = FreeContext
    BY EndedIdle
  <2>2. sched.active = <<>>
    BY DEF IInv, EndedClean
  <2>3. ASSUME NEW w \in Busy(worker)
        PROVE  FALSE
    <3>1. w \in Workers /\ worker[w].pc \in BusyAt
      BY BusyRuns
    <3> QED
      BY <3>1, BusyActs
  <2> QED
    BY <2>1, <2>2, <2>3
<1> QED
  BY <1>1, SchedulerInvariant, PTL

\* What a step adds to the nodes' history comes from the record whose turn it
\* is; the next shot forgets it.
LEMMA KeysMove ==
    ASSUME IInv, [Next]_vars
    PROVE  seen' = NothingSeen \/ \E v : seen' = v /\ KeysFrom(v)
<1>1. KeysFrom(seen) /\ "key" \in DOMAIN seen
  BY KeysSame DEF IInv, SeenOK
<1>2. ASSUME NEW w \in Workers, worker[w].pc \in BusyAt, NEW field, field # "key", NEW val,
             seen' = [Saw(w) EXCEPT ![field] = val]
      PROVE  \E v : seen' = v /\ KeysFrom(v)
  <2> DEFINE v == [Saw(w) EXCEPT ![field] = val]
  <2>1. KeysFrom(Saw(w))
    BY <1>2, SawKeys
  <2>2. "key" \in DOMAIN v /\ v.key = Saw(w).key
    BY <1>2, <2>1 DEF KeysFrom
  <2>3. seen' = v
    BY <1>2
  <2> HIDE DEF v
  <2>4. KeysFrom(v)
    BY <2>1, <2>2, KeysKept
  <2> QED
    BY <2>3, <2>4
<1>3. ASSUME NEW w \in Workers, ExecuteRaw(w)
      PROVE  \E v : seen' = v /\ KeysFrom(v)
  <2>1. worker[w].pc \in BusyAt
    BY <1>3 DEF ExecuteRaw, At, BusyAt
  <2>2. seen' = Saw(w) \/ \E pub : seen' = [Saw(w) EXCEPT !.known = Known(w, pub)]
    BY <1>3 DEF ExecuteRaw
  <2>3. CASE seen' = Saw(w)
    BY <2>1, <2>3, SawKeys
  <2>4. CASE \E pub : seen' = [Saw(w) EXCEPT !.known = Known(w, pub)]
    BY <1>2, <2>1, <2>4
  <2> QED
    BY <2>2, <2>3, <2>4
<1>4. ASSUME NEW w \in Workers, ExecuteEdge(w)
      PROVE  \E v : seen' = v /\ KeysFrom(v)
  <2>1. worker[w].pc \in BusyAt
    BY <1>4 DEF ExecuteEdge, At, BusyAt
  <2>2. seen' = [Saw(w) EXCEPT !.window = Window(w)]
    BY <1>4 DEF ExecuteEdge
  <2> QED
    BY <1>2, <2>1, <2>2
<1>5. ASSUME NEW w \in Workers, PublishNext(w) \/ ExecuteFire(w) \/ ExecuteOneShot(w)
      PROVE  \E v : seen' = v /\ KeysFrom(v)
  <2>1. "key" \in DOMAIN seen' /\ seen'.key = seen.key
    <3>1. CASE PublishNext(w)
      BY <1>1, <3>1 DEF PublishNext
    <3>2. CASE ExecuteFire(w)
      BY <1>1, <3>2 DEF ExecuteFire
    <3>3. CASE ExecuteOneShot(w)
      BY <1>1, <3>3 DEF ExecuteOneShot
    <3> QED
      BY <1>5, <3>1, <3>2, <3>3
  <2>2. PICK v : seen' = v
    OBVIOUS
  <2>3. "key" \in DOMAIN v /\ v.key = seen.key
    BY <2>1, <2>2
  <2>4. KeysFrom(v)
    BY <2>3, KeysSame
  <2> QED
    BY <2>2, <2>4
<1>6. ASSUME NEW w \in Workers, Look(w) \/ ExecuteFlush(w) \/ SettleFlush(w)
                                \/ ExecuteRelease(w) \/ Throw(w)
      PROVE  seen' = seen
  BY <1>6 DEF Look, ExecuteFlush, SettleFlush, ExecuteRelease, Throw
<1>7. CASE Dispatch \/ Cancel \/ UNCHANGED vars
  <2>1. seen' = seen \/ seen' = NothingSeen
    BY <1>7 DEF Dispatch, Cancel, vars, Admit, AdmitFlush, AdmitOneShot, Retire, EndStopped,
                EndSession, NextShot
  <2> QED
    BY <1>1, <2>1
<1> QED
  BY <1>1, <1>3, <1>4, <1>5, <1>6, <1>7 DEF Next, WorkerStep

\* Across a step, what a record-ordered node saw last is not from an earlier
\* record than what it saw before.
LEMMA KeysAdvance ==
    ASSUME IInv, [Next]_vars, NEW n \in Nodes, seen.key[n] # <<>>, seen'.key[n] # <<>>
    PROVE  seen.key[n][1] <= seen'.key[n][1]
<1>1. seen.key[n][1] \in Int /\ seen.key[n][1] <= LastSeen(n) /\ LastSeen(n) \in Int
  BY LastSeenIs DEF IInv, SeenOK
<1>2. seen' # NothingSeen
  BY DEF NothingSeen
<1>3. PICK v : seen' = v /\ KeysFrom(v)
  BY <1>2, KeysMove
<1>4. v.key[n] = seen.key[n] \/ v.key[n][1] = LastSeen(n)
  BY <1>3 DEF KeysFrom
<1>5. seen.key[n][1] <= v.key[n][1]
  BY <1>1, <1>4
<1> QED
  BY <1>3, <1>5

\* A record-ordered node sees the records of a shot in their order, however
\* the workers interleave.
THEOREM SchedulerRecordOrder == Spec => RecordOrder
<1>1. IInv /\ [Next]_vars =>
        [\A n \in Nodes : seen.key[n] # <<>> /\ seen.key[n]' # <<>> =>
                            seen.key[n][1] <= seen.key[n]'[1]]_vars
  BY KeysAdvance
<1> QED
  BY <1>1, SchedulerInvariant, PTL DEF Spec, RecordOrder

-----------------------------------------------------------------------------
(* No event is left to parked workers                                       *)

\* Whether an event can be taken depends on the graph and the scheduler alone.
LEMMA PicksStay ==
    ASSUME graph' = graph, NEW s, NEW c
    PROVE  Picks(s, c)' = Picks(s, c)
<1>1. /\ G' = G /\ C' = C /\ Nodes' = Nodes /\ Async' = Async
      /\ \A n : Pooled(n)' = Pooled(n) /\ Indexed(n)' = Indexed(n)
                /\ Ordered(n)' = Ordered(n)
  BY DEF G, C, Nodes, Async, Pooled, Indexed, Ordered
<1>2. \A e : (IsPoolDelivery(e)' <=> IsPoolDelivery(e))
  BY <1>1 DEF IsPoolDelivery
<1>3. \A e : SerializedNode(e)' = SerializedNode(e)
  BY <1>1 DEF SerializedNode
<1>4. \A n : NodeBusy(s, n)' <=> NodeBusy(s, n)
  BY <1>3 DEF NodeBusy
<1>5. \A n : FreeReplicas(s, n)' = FreeReplicas(s, n)
  BY <1>1 DEF FreeReplicas
<1>6. \A n : ReplicaBusy(s, c, n)' <=> ReplicaBusy(s, c, n)
  BY <1>2 DEF ReplicaBusy
<1>7. \A e : FlushMayStart(s, c, e)' <=> FlushMayStart(s, c, e)
  <2>1. \A n : FlushReady(s, c, n)' <=> FlushReady(s, c, n)
    BY <1>1 DEF FlushReady, Quiescent
  <2> QED
    BY <1>1, <2>1 DEF FlushMayStart
<1>8. \A e : MyTurn(s, c, e)' <=> MyTurn(s, c, e)
  BY <1>1 DEF MyTurn
<1>9. \A x, e : RootIsReady(x, e)' <=> RootIsReady(x, e)
  BY <1>1 DEF RootIsReady, RootNodes
<1>10. \A id : Runnable(s, c, id)' <=> Runnable(s, c, id)
  BY <1>1, <1>2, <1>3, <1>4, <1>5, <1>6, <1>7, <1>8, <1>9 DEF Runnable
<1> QED
  BY <1>10 DEF Picks

\* Where nothing is ready nothing is ready in the next state either.
LEMMA NothingReady ==
    ASSUME graph' = graph, NEW t, sched' = t, ~HasReady(t)
    PROVE  NoLostWakeup'
<1>1. \A i \in DOMAIN t.active : Picks(t, t.active[i]) = {}
  BY DEF HasReady, ActiveSet
<1>2. \A i \in DOMAIN t.active : Picks(t, t.active[i])' = {}
  BY <1>1, PicksStay
<1>3. Ready(t)' = <<>>
  BY <1>2 DEF Ready
<1>4. Ready(sched)' = <<>>
  BY <1>3
<1> QED
  BY <1>4 DEF NoLostWakeup

\* A worker that is not parked looks again before it parks.
LEMMA SomeoneUp ==
    ASSUME NEW w \in Workers, worker'[w].pc # "wait"
    PROVE  NoLostWakeup'
  BY DEF NoLostWakeup, At

\* Neither Woken nor Notified parks a worker.
LEMMA StaysUp ==
    ASSUME NEW ws, NEW t, NEW w \in Workers, ws[w].pc # "wait"
    PROVE  Woken(ws)[w].pc # "wait" /\ Notified(ws, t)[w].pc # "wait"
  BY DEF Woken, Notified

\* A worker inside an event is not parked.
LEMMA StepWakes ==
    ASSUME IInv, NEW w \in Workers, NEW t, NEW pc, NEW pubs, pc # "wait",
           Step(w, t, pc, pubs)
    PROVE  NoLostWakeup'
<1> DEFINE ws == [worker EXCEPT ![w].pc = pc, ![w].pubs = pubs]
<1>1. ws[w].pc = pc
  BY DEF IInv, WorkersOK
<1>2. worker' = Notified(ws, t)
  BY DEF Step
<1> HIDE DEF ws
<1>3. worker'[w].pc # "wait"
  BY <1>1, <1>2, StaysUp
<1> QED
  BY <1>3, SomeoneUp

\* Every step of an event leaves its worker up.
LEMMA EventStepWakes ==
    ASSUME IInv, NEW w \in Workers,
           \/ ExecuteRaw(w) \/ PublishNext(w) \/ ExecuteEdge(w) \/ ExecuteFire(w)
           \/ ExecuteFlush(w) \/ SettleFlush(w) \/ ExecuteRelease(w) \/ ExecuteOneShot(w)
    PROVE  NoLostWakeup'
<1>1. \A s, c, id, fired : AfterChunk(s, c, id, fired).pc # "wait"
  BY DEF AfterChunk
<1>2. ASSUME NEW pubs, PublishFirst(w, pubs)
      PROVE  \E t, pc, rest : pc # "wait" /\ Step(w, t, pc, rest)
  <2> DEFINE p == Publish(sched, worker[w].c, worker[w].id, EvOf(w).node, pubs[1].ports,
                          pubs[1].idx, NoIndex)
             r == IF Len(pubs) = 1 THEN AfterChunk(p, worker[w].c, worker[w].id, TRUE)
                  ELSE [s |-> p, pc |-> "pub"]
  <2>1. Step(w, r.s, r.pc, Tail(pubs))
    BY <1>2 DEF PublishFirst, ChunkDone
  <2> HIDE DEF p
  <2>2. r.pc # "wait"
    BY <1>1
  <2> HIDE DEF r
  <2> QED
    BY <2>1, <2>2
<1>3. CASE ExecuteRaw(w)
  <2>1. \/ \E pubs : PublishFirst(w, pubs)
        \/ ChunkDone(w, AfterChunk(sched, worker[w].c, worker[w].id, FALSE), <<>>)
    BY <1>3 DEF ExecuteRaw
  <2>2. \E t, pc, rest : pc # "wait" /\ Step(w, t, pc, rest)
    BY <1>1, <1>2, <2>1 DEF ChunkDone
  <2> QED
    BY <2>2, StepWakes
<1>4. CASE PublishNext(w)
  <2>1. PublishFirst(w, worker[w].pubs)
    BY <1>4 DEF PublishNext
  <2> QED
    BY <1>2, <2>1, StepWakes
<1>5. CASE ExecuteEdge(w)
  <2>1. \E t : Step(w, t, "ran", <<>>)
    <3>1. CASE Indexed(EvOf(w).node)
      BY <1>5, <3>1 DEF ExecuteEdge
    <3>2. CASE ~Indexed(EvOf(w).node)
      BY <1>5, <3>2 DEF ExecuteEdge
    <3> QED
      BY <3>1, <3>2
  <2> QED
    BY <2>1, StepWakes
<1>6. CASE ExecuteFire(w)
  <2>1. \E t : Step(w, t, "ran", <<>>)
    BY <1>6 DEF ExecuteFire
  <2> QED
    BY <2>1, StepWakes
<1>7. CASE ExecuteFlush(w)
  <2>1. \E t : \E pc \in {"ran", "settle"} : Step(w, t, pc, <<>>)
    BY <1>7 DEF ExecuteFlush
  <2> QED
    BY <2>1, StepWakes
<1>8. CASE SettleFlush(w)
  <2>1. \E t : Step(w, t, "ran", <<>>)
    BY <1>8 DEF SettleFlush
  <2> QED
    BY <2>1, StepWakes
<1>9. CASE ExecuteRelease(w) \/ ExecuteOneShot(w)
  <2>1. \E t : Step(w, t, "ran", <<>>)
    BY <1>9 DEF ExecuteRelease, ExecuteOneShot
  <2> QED
    BY <2>1, StepWakes
<1> QED
  BY <1>3, <1>4, <1>5, <1>6, <1>7, <1>8, <1>9

\* A worker parks only where nothing is ready, or in a session that stops.
LEMMA LookWakes ==
    ASSUME IInv, NEW w \in Workers, Look(w)
    PROVE  NoLostWakeup'
<1> DEFINE s == Selecting(w)
           r == Ready(s)
           free == [worker EXCEPT ![w] = Idle]
           mine == IF s.stop
                   THEN [Idle EXCEPT !.pc = IF Busy(free) = {} THEN "exit" ELSE "wait"]
                   ELSE IF Until(s) THEN [Idle EXCEPT !.pc = "exit"]
                   ELSE IF r = <<>> THEN [Idle EXCEPT !.pc = "wait"]
                   ELSE [Idle EXCEPT !.pc = "run", !.c = r[1], !.id = r[2]]
           ws == [worker EXCEPT ![w] = mine]
           t == IF s.stop \/ Until(s) \/ r = <<>> THEN s ELSE Claim(s, r[1], r[2])
<1>1. worker[w].pc \in {"look", "ran"} /\ graph' = graph /\ Take(w, s, r)
  BY DEF Look, Select, Selecting
<1>2. SchedOK(s) /\ DOMAIN worker = Workers
  BY <1>1, SelectingOK DEF IInv, WorkersOK
<1> HIDE DEF s, r
<1>3. sched' = t /\ (worker' = ws \/ worker' = Notified(ws, sched'))
  <2> HIDE DEF t
  <2> QED
    BY <1>1 DEF Take, t
<1>4. ws[w] = mine
  BY <1>2
<1>5. CASE mine.pc # "wait"
  <2> HIDE DEF ws, mine, t
  <2>1. worker'[w].pc # "wait"
    BY <1>3, <1>4, <1>5, StaysUp
  <2> QED
    BY <2>1, SomeoneUp
<1>6. CASE mine.pc = "wait"
  <2>1. t = s /\ (s.stop \/ r = <<>>)
    BY <1>6 DEF Idle
  <2>2. CASE s.stop
    <3>1. sched'.stop
      BY <1>3, <2>1, <2>2
    <3> QED
      BY <3>1 DEF NoLostWakeup
  <2>3. CASE r = <<>>
    <3>1. ~HasReady(s)
      BY <1>2, <2>3, ReadyIs DEF r
    <3>2. sched' = s
      BY <1>3, <2>1
    <3> QED
      BY <1>1, <3>1, <3>2, NothingReady
  <2> QED
    BY <2>1, <2>2, <2>3
<1> HIDE DEF mine
<1> QED
  BY <1>5, <1>6

\* A worker whose node threw leaves.
LEMMA ThrowWakes ==
    ASSUME IInv, NEW w \in Workers, Throw(w)
    PROVE  NoLostWakeup'
<1> DEFINE vs == [worker EXCEPT ![w] = [Idle EXCEPT !.pc = "exit"]]
<1>1. worker' = Woken(vs)
  BY DEF Throw
<1>2. vs[w].pc = "exit"
  BY DEF IInv, WorkersOK, Idle
<1> HIDE DEF vs
<1>3. worker'[w].pc # "wait"
  BY <1>1, <1>2, StaysUp
<1> QED
  BY <1>3, SomeoneUp

\* A record that enters is announced to the parked workers.
LEMMA OpenWakes ==
    ASSUME IInv', NEW c, NEW x, NEW firsts, Open(c, x, firsts), graph' = graph
    PROVE  NoLostWakeup'
<1>1. Async' = Async
  BY GraphStays
<1>2. CASE ~Async
  BY <1>1, <1>2 DEF NoLostWakeup
<1>3. CASE Async
  <2>1. PICK t : sched' = t
    OBVIOUS
  <2>2. worker' = Notified(worker, t)
    BY <1>3, <2>1 DEF Open
  <2>3. PICK w \in Workers : TRUE
    BY SchedulerAssumption
  <2>4. CASE worker'[w].pc # "wait"
    BY <2>4, SomeoneUp
  <2>5. CASE t.stop
    <3>1. sched'.stop
      BY <2>1, <2>5
    <3> QED
      BY <3>1 DEF NoLostWakeup
  <2>6. CASE worker'[w].pc = "wait" /\ ~t.stop
    <3>1. worker' = worker /\ ~HasReady(t)
      <4>1. Woken(worker)[w].pc # "wait"
        BY DEF Woken, Idle
      <4> HIDE DEF Woken
      <4> QED
        BY <2>2, <2>6, <4>1 DEF Notified
    <3> QED
      BY <2>1, <3>1, NothingReady
  <2> QED
    BY <2>4, <2>5, <2>6
<1> QED
  BY <1>2, <1>3

\* A finished record has no event, so it keeps no other from running: what can
\* be taken once it is retired could be taken before.
LEMMA RetiredReady ==
    ASSUME NEW s, SchedOK(s), NEW m \in 0..Len(s.active),
           \A i \in 1..m : s.ctx[s.active[i]].complete,
           HasReady(Retired(s, ToSet(SubSeq(s.active, 1, m)), m))
    PROVE  HasReady(s)
<1> DEFINE q == s.active
           P == ToSet(SubSeq(q, 1, m))
           r == SubSeq(q, m + 1, Len(q))
           t == Retired(s, P, m)
<1>1. /\ Core(s) /\ q \in Seq(Contexts) /\ IsInjective(q)
      /\ DOMAIN s = SchedFields /\ DOMAIN s.ctx = Contexts
  BY DEF SchedOK, Core, ActiveOK
<1>2. /\ P = {q[i] : i \in 1..m}
      /\ \A c : (\E i \in DOMAIN r : r[i] = c) <=>
                (\E i \in DOMAIN q : q[i] = c) /\ c \notin P
  BY <1>1, RetiredActive
<1> HIDE DEF P
<1>3. /\ t.active = r /\ t.turn = s.turn
      /\ \A c \in Contexts : t.ctx[c] = IF c \in P THEN FreeContext ELSE s.ctx[c]
  BY <1>1 DEF Retired, SchedFields
<1>4. HasReady(t)
  BY DEF P
<1> HIDE DEF t, r, q
<1>5. \A c \in Contexts : c \in P =>
        /\ DOMAIN s.ctx[c].ev = {} /\ DOMAIN t.ctx[c].ev = {}
        /\ \A n \in Nodes : s.ctx[c].lease[n] = 0 /\ t.ctx[c].lease[n] = 0
  <2> SUFFICES ASSUME NEW c \in Contexts, c \in P
      PROVE  /\ DOMAIN s.ctx[c].ev = {} /\ DOMAIN t.ctx[c].ev = {}
             /\ \A n \in Nodes : s.ctx[c].lease[n] = 0 /\ t.ctx[c].lease[n] = 0
    OBVIOUS
  <2>1. s.ctx[c].complete
    BY <1>2 DEF q
  <2>2. DOMAIN s.ctx[c].ev = {} /\ \A n \in Nodes : s.ctx[c].lease[n] = 0
    BY <1>1, <2>1 DEF Core, Context
  <2>3. DOMAIN FreeContext.ev = {} /\ \A n \in Nodes : FreeContext.lease[n] = 0
    BY DEF FreeContext, NoEvents
  <2> QED
    BY <1>3, <2>2, <2>3
<1>6. \A c \in Contexts : c \notin P => t.ctx[c] = s.ctx[c]
  BY <1>3
<1>7. \A c : (c \in ActiveSet(t) <=> c \in ActiveSet(s) /\ c \notin P)
             /\ (c \in ActiveSet(s) => c \in Contexts)
  <2>1. \A c : (c \in ActiveSet(t) <=> \E i \in DOMAIN r : r[i] = c)
               /\ (c \in ActiveSet(s) <=> \E i \in DOMAIN q : q[i] = c)
    BY <1>3 DEF ActiveSet, q
  <2>2. \A i \in DOMAIN q : q[i] \in Contexts
    BY <1>1
  <2> QED
    BY <1>2, <2>1, <2>2
<1>8. \A c \in Contexts : DOMAIN t.ctx[c].ev = DOMAIN s.ctx[c].ev
                          /\ \A i \in DOMAIN s.ctx[c].ev : Ev(t, c, i) = Ev(s, c, i)
  BY <1>5, <1>6 DEF Ev
<1>9. Running(t) = Running(s) /\ \A p \in Running(s) :
         p[1] \in Contexts /\ Ev(t, p[1], p[2]) = Ev(s, p[1], p[2])
  <2>1. \A c \in Contexts : {<<c, id>> : id \in {i \in DOMAIN t.ctx[c].ev : Ev(t, c, i).st = "running"}}
                          = {<<c, id>> : id \in {i \in DOMAIN s.ctx[c].ev : Ev(s, c, i).st = "running"}}
    BY <1>8
  <2>2. Running(t) = Running(s)
    BY <2>1 DEF Running
  <2>3. \A p \in Running(s) : p[1] \in Contexts /\ p[2] \in DOMAIN s.ctx[p[1]].ev
    BY DEF Running
  <2> QED
    BY <1>8, <2>2, <2>3
<1>10. \A n : NodeBusy(s, n) <=> NodeBusy(t, n)
  BY <1>9 DEF NodeBusy
<1>11. \A n \in Nodes : FreeReplicas(t, n) = FreeReplicas(s, n)
  <2> SUFFICES ASSUME NEW n \in Nodes
      PROVE  FreeReplicas(t, n) = FreeReplicas(s, n)
    OBVIOUS
  <2>1. \A c \in Contexts : t.ctx[c].lease[n] = s.ctx[c].lease[n]
    BY <1>5, <1>6
  <2>2. {t.ctx[c].lease[n] : c \in Contexts} = {s.ctx[c].lease[n] : c \in Contexts}
    BY <2>1
  <2>3. {Ev(t, p[1], p[2]).rep : p \in {o \in Running(t) : Ev(t, o[1], o[2]).kind = "fire" /\ Ev(t, o[1], o[2]).node = n}}
      = {Ev(s, p[1], p[2]).rep : p \in {o \in Running(s) : Ev(s, o[1], o[2]).kind = "fire" /\ Ev(s, o[1], o[2]).node = n}}
    BY <1>9
  <2> QED
    BY <2>2, <2>3 DEF FreeReplicas
<1>12. RunningFires(t) = RunningFires(s)
  <2>1. {p \in Running(t) : Ev(t, p[1], p[2]).kind = "fire"}
        = {p \in Running(s) : Ev(s, p[1], p[2]).kind = "fire"}
    BY <1>9
  <2> QED
    BY <2>1 DEF RunningFires
<1>13. \A d \in Contexts : \A n :
         LiveIds(t, d, n) = LiveIds(s, d, n) /\ Live(t, d, n) = Live(s, d, n)
         /\ FiresLive(t, d, n) = FiresLive(s, d, n)
  <2> SUFFICES ASSUME NEW d \in Contexts, NEW n
      PROVE  LiveIds(t, d, n) = LiveIds(s, d, n) /\ Live(t, d, n) = Live(s, d, n)
             /\ FiresLive(t, d, n) = FiresLive(s, d, n)
    OBVIOUS
  <2>1. LiveIds(t, d, n) = LiveIds(s, d, n)
    BY <1>8 DEF LiveIds
  <2>2. {id \in LiveIds(t, d, n) : Ev(t, d, id).kind = "fire"}
        = {id \in LiveIds(s, d, n) : Ev(s, d, id).kind = "fire"}
    <3>1. LiveIds(s, d, n) \subseteq DOMAIN s.ctx[d].ev
      BY DEF LiveIds
    <3> QED
      BY <1>8, <2>1, <3>1
  <2> QED
    BY <2>1, <2>2 DEF Live, FiresLive
<1>14. \A d \in Contexts : \A n : d \in P => Live(s, d, n) = 0 /\ FiresLive(s, d, n) = 0
  <2> SUFFICES ASSUME NEW d \in Contexts, NEW n, d \in P
      PROVE  Live(s, d, n) = 0 /\ FiresLive(s, d, n) = 0
    OBVIOUS
  <2>1. LiveIds(s, d, n) = {}
    BY <1>5 DEF LiveIds
  <2>2. {id \in LiveIds(s, d, n) : Ev(s, d, id).kind = "fire"} = {}
    BY <2>1
  <2> QED
    BY <2>1, <2>2, FS_EmptySet DEF Live, FiresLive
<1>15. ASSUME NEW c \in ActiveSet(t), NEW n, NEW asking, Quiescent(t, c, n, asking)
       PROVE  Quiescent(s, c, n, asking)
  BY <1>7, <1>13, <1>14, <1>15 DEF Quiescent
<1>16. ASSUME NEW c \in ActiveSet(t), NEW e, FlushMayStart(t, c, e)
       PROVE  FlushMayStart(s, c, e)
  <2>1. \A n : FlushReady(t, c, n) => FlushReady(s, c, n)
    BY <1>15 DEF FlushReady
  <2>2. ASSUME \A d \in ActiveSet(t) : Live(t, d, e.node) = FiresLive(t, d, e.node) +
                                (IF d = c THEN 1 ELSE 0)
        PROVE  \A d \in ActiveSet(s) : Live(s, d, e.node) = FiresLive(s, d, e.node) +
                                (IF d = c THEN 1 ELSE 0)
    BY <1>7, <1>13, <1>14, <1>16, <2>2
  <2> QED
    BY <1>16, <2>1, <2>2 DEF FlushMayStart
<1>17. ASSUME NEW c \in ActiveSet(t), NEW id \in DOMAIN s.ctx[c].ev, Runnable(t, c, id)
       PROVE  Runnable(s, c, id)
  <2> DEFINE e == Ev(s, c, id)
             x == s.ctx[c]
  <2>1. c \in Contexts /\ c \notin P /\ t.ctx[c] = x /\ Ev(t, c, id) = e
    BY <1>6, <1>7, <1>8
  <2>2. e.node \in Nodes
    BY <1>1, <2>1 DEF Core, Context, IsEvent, Ev
  <2>3. \A n : ReplicaBusy(t, c, n) <=> ReplicaBusy(s, c, n)
    BY <1>9 DEF ReplicaBusy
  <2>4. MyTurn(t, c, e) => MyTurn(s, c, e)
    BY <1>3, <2>1 DEF MyTurn
  <2> HIDE DEF e, x
  <2>5. /\ ~NodeBusy(t, SerializedNode(e)) \/ SerializedNode(e) = 0
        /\ IsPoolDelivery(e) =>
             IF x.lease[e.node] = 0 THEN FreeReplicas(t, e.node) # {}
             ELSE ~ReplicaBusy(t, c, e.node)
        /\ e.kind = "fire" => /\ FreeReplicas(t, e.node) # {}
                              /\ RunningFires(t) < FireCap
        /\ e.kind = "flush" /\ ~Ordered(e.node) => FlushMayStart(t, c, e)
        /\ MyTurn(t, c, e)
        /\ RootIsReady(x, e)
    BY <1>17, <2>1 DEF Runnable
  <2>6. e.kind = "flush" /\ ~Ordered(e.node) => FlushMayStart(s, c, e)
    BY <1>16, <2>5
  <2> QED
    BY <1>10, <1>11, <1>12, <2>2, <2>3, <2>4, <2>5, <2>6 DEF Runnable, e, x
<1>18. PICK c \in ActiveSet(t) : Picks(t, c) # {}
  BY <1>4 DEF HasReady
<1>19. PICK i \in DOMAIN t.ctx[c].ready : Runnable(t, c, t.ctx[c].ready[i])
  BY <1>18 DEF Picks
<1>20. c \in ActiveSet(s) /\ c \in Contexts /\ t.ctx[c] = s.ctx[c]
  BY <1>6, <1>7
<1>21. s.ctx[c].ready[i] \in DOMAIN s.ctx[c].ev /\ i \in DOMAIN s.ctx[c].ready
  BY <1>1, <1>19, <1>20 DEF Core, Context, ReadyQueue
<1>22. i \in Picks(s, c)
  BY <1>17, <1>19, <1>20, <1>21 DEF Picks
<1> QED
  BY <1>20, <1>22 DEF HasReady

\* Retirement announces nothing, and need not.
LEMMA RetireWakes ==
    ASSUME IInv, NoLostWakeup, Retire
    PROVE  NoLostWakeup'
<1>1. SchedOK(sched) /\ graph' = graph /\ worker' = worker /\ ~sched.stop
  BY DEF IInv, Retire
<1>2. PICK m \in 0..Len(sched.active) :
        /\ CompletePrefix = SubSeq(sched.active, 1, m)
        /\ \A i \in 1..m : sched.ctx[sched.active[i]].complete
  BY <1>1, CompletePrefixIs
<1> DEFINE t == Retired(sched, ToSet(SubSeq(sched.active, 1, m)), m)
<1>3. sched' = t
  <2>1. Len(SubSeq(sched.active, 1, m)) = m
    <3>1. sched.active \in Seq(Contexts)
      BY <1>1 DEF SchedOK, Core
    <3> QED
      BY <3>1, SubSeqProperties
  <2> QED
    BY <1>2, <2>1 DEF Retire, Retired
<1>4. HasReady(t) => HasReady(sched)
  BY <1>1, <1>2, RetiredReady
<1> HIDE DEF t
<1>5. CASE Async /\ \A w \in Workers : At(w, "wait")
  <2>1. Ready(sched) = <<>>
    BY <1>1, <1>5 DEF NoLostWakeup
  <2>2. ~HasReady(t)
    BY <1>1, <1>4, <2>1, ReadyIs
  <2> QED
    BY <1>1, <1>3, <2>2, NothingReady
<1>6. CASE ~Async
  <2>1. ~Async'
    BY <1>1, <1>6, GraphStays
  <2> QED
    BY <2>1 DEF NoLostWakeup
<1>7. CASE \E w \in Workers : ~At(w, "wait")
  <2>1. PICK w \in Workers : ~At(w, "wait")
    BY <1>7
  <2>2. worker'[w].pc # "wait"
    BY <1>1, <2>1 DEF At
  <2> QED
    BY <2>2, SomeoneUp
<1> QED
  BY <1>5, <1>6, <1>7

\* With no active record there is nothing to take.
LEMMA IdleWakes ==
    ASSUME graph' = graph, NEW t, sched' = t, t.active = <<>>
    PROVE  NoLostWakeup'
<1>1. ~HasReady(t)
  BY DEF HasReady, ActiveSet
<1> QED
  BY <1>1, NothingReady

\* No step leaves an event to workers that are all parked.
LEMMA NextWakes ==
    ASSUME IInv, IInv', NoLostWakeup, [Next]_vars
    PROVE  NoLostWakeup'
<1>1. ASSUME NEW w \in Workers, WorkerStep(w)
      PROVE  NoLostWakeup'
  BY <1>1, LookWakes, EventStepWakes DEF WorkerStep
<1>2. ASSUME NEW w \in Workers, Throw(w)
      PROVE  NoLostWakeup'
  BY <1>2, ThrowWakes
<1>3. CASE Admit \/ AdmitFlush \/ AdmitOneShot
  <2>1. graph' = graph /\ \E c, x, firsts : Open(c, x, firsts)
    <3>1. CASE Admit
      BY <3>1 DEF Admit
    <3>2. CASE AdmitFlush
      BY <3>2 DEF AdmitFlush
    <3>3. CASE AdmitOneShot
      BY <3>3 DEF AdmitOneShot
    <3> QED
      BY <1>3, <3>1, <3>2, <3>3
  <2> QED
    BY <2>1, OpenWakes
<1>4. CASE Retire
  BY <1>4, RetireWakes
<1>5. CASE EndStopped \/ EndSession \/ NextShot
  <2>1. graph' = graph
    BY <1>5 DEF EndStopped, EndSession, NextShot
  <2>2. PICK t : sched' = t
    OBVIOUS
  <2>3. t.active = <<>>
    <3>1. CASE EndStopped
      BY <2>2, <3>1 DEF EndStopped, FreshSched
    <3>2. CASE EndSession
      BY <2>2, <3>2 DEF EndSession
    <3>3. CASE NextShot
      <4>1. sched.active = <<>> /\ DOMAIN sched = SchedFields
        BY <3>3 DEF NextShot, IInv, EndedClean, SchedOK, Core
      <4>2. t = [sched EXCEPT !.turn = [n \in Nodes |-> 0], !.next = 0]
        BY <2>2, <3>3 DEF NextShot
      <4> QED
        BY <4>1, <4>2 DEF SchedFields
    <3> QED
      BY <1>5, <3>1, <3>2, <3>3
  <2> QED
    BY <2>1, <2>2, <2>3, IdleWakes
<1>6. CASE Cancel
  <2>1. DOMAIN sched = SchedFields
    BY DEF IInv, SchedOK, Core
  <2>2. sched'.stop
    BY <1>6, <2>1 DEF Cancel, SchedFields
  <2> QED
    BY <2>2 DEF NoLostWakeup
<1>7. CASE UNCHANGED vars
  <2>1. graph' = graph /\ sched' = sched /\ worker' = worker
    BY <1>7 DEF vars
  <2>2. CASE Async /\ (\A w \in Workers : At(w, "wait")) /\ ~sched.stop
    <3>1. Ready(sched) = <<>> /\ SchedOK(sched)
      BY <2>2 DEF NoLostWakeup, IInv
    <3>2. ~HasReady(sched)
      BY <3>1, ReadyIs
    <3> QED
      BY <2>1, <3>2, NothingReady
  <2>3. CASE ~Async \/ sched.stop
    <3>1. ~Async' \/ sched'.stop
      BY <2>1, <2>3, GraphStays
    <3> QED
      BY <3>1 DEF NoLostWakeup
  <2>4. CASE \E w \in Workers : ~At(w, "wait")
    <3>1. PICK w \in Workers : ~At(w, "wait")
      BY <2>4
    <3>2. worker'[w].pc # "wait"
      BY <2>1, <3>1 DEF At
    <3> QED
      BY <3>2, SomeoneUp
  <2> QED
    BY <2>2, <2>3, <2>4
<1> QED
  BY <1>1, <1>2, <1>3, <1>4, <1>5, <1>6, <1>7 DEF Next, Dispatch

\* The workers of an asynchronous graph are never all parked beside an event
\* that one of them could take: execute_loop() announces whatever becomes ready
\* under the lock, and a worker parks only after a look that found nothing.
THEOREM SchedulerNoLostWakeup == Spec => []NoLostWakeup
<1>1. ASSUME Init, IInv
      PROVE  NoLostWakeup
  <2>1. SchedOK(sched) /\ sched.active = <<>>
    BY <1>1 DEF IInv, Init, FreshSched
  <2>2. Ready(sched) = <<>>
    BY <2>1, NoneReady
  <2> QED
    BY <2>2 DEF NoLostWakeup
<1>2. Init => IInv
  BY InitOK
<1>3. IInv /\ NoLostWakeup /\ [Next]_vars => IInv' /\ NoLostWakeup'
  BY NextOK, NextWakes
<1> QED
  BY <1>1, <1>2, <1>3, PTL DEF Spec
=============================================================================
