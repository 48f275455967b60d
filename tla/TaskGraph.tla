----------------------------- MODULE TaskGraph -----------------------------
(***************************************************************************)
(* The compiled streaming topology of a decoding task graph: what          *)
(* compile_wires() (libs/qec/lib/decoding_task/decoding_task_graph.cpp)    *)
(* derives from a graph's nodes and edges for the event scheduler.         *)
(*                                                                         *)
(* Nodes are numbered in topological order.  A node is record-ordered (it  *)
(* keeps state and sees the records one after the other), pooled (several  *)
(* stateless copies) or indexed (it joins its inputs by instance).  A wire *)
(* runs from an output port of one node to an input slot of another;       *)
(* instance k of an indexed consumer reads instance k + off of the wire's  *)
(* producer; a `done' wire carries the producer's completion marker only.  *)
(***************************************************************************)
EXTENDS Integers, Sequences, FiniteSets, FiniteSetsExt

CONSTANT Graphs  \* by name: the graphs an instance runs

\* A finite set of numbers, in order.
Ascending(S) ==
    [i \in 1..Cardinality(S) |->
       CHOOSE k \in S : Cardinality({j \in S : j < k}) = i - 1]

WireType == [from : Nat, port : Nat, to : Nat, slot : Nat, off : Int,
             done : BOOLEAN]

\* An edge back to its own node or an earlier one.
LoopCarried(w) == w.from >= w.to

Wires(g) == {g.wires[i] : i \in DOMAIN g.wires}

\* What compile_wires() accepts: offsets reach back only, a loop-carried edge
\* strictly so and into an indexed node; an indexed node feeds a
\* record-ordered one by its completion alone; pooled and indexed nodes take
\* no raw measurements.
WellFormed(g) ==
    /\ g.kind \in Seq({"joined", "indexed"})
    /\ g.copies \in [DOMAIN g.kind -> Nat \ {0}]
    /\ g.raw \subseteq {n \in DOMAIN g.kind :
                           g.kind[n] # "indexed" /\ g.copies[n] = 1}
    /\ g.records \in Nat /\ g.burst \in Nat
    /\ \A layout \in g.layouts :
         LET windows == UNION {layout[p] : p \in DOMAIN layout}
         IN  /\ windows \subseteq Nat /\ IsFiniteSet(windows)
             /\ DOMAIN layout \subseteq Nat
    /\ g.wires \in Seq(WireType)
    /\ \A w \in Wires(g) :
         /\ w.from \in DOMAIN g.kind /\ w.to \in DOMAIN g.kind
         /\ w.off <= 0
         /\ w.off # 0 => g.kind[w.to] = "indexed"
         /\ LoopCarried(w) => w.off < 0 /\ ~w.done
         /\ g.kind[w.from] = "indexed" /\ ~w.done => g.kind[w.to] = "indexed"

ASSUME GraphsAssumption == \A x \in DOMAIN Graphs : WellFormed(Graphs[x])

\* The nodes a node's values reach, itself included, over the value wires
\* that are not loop-carried.
Reachability(g) ==
    LET succ(n) == {w.to : w \in {v \in Wires(g) :
                                    v.from = n /\ ~v.done /\ ~LoopCarried(v)}}
        N == Len(g.kind)
        reach[n \in 1..N] == {n} \union UNION {reach[d] : d \in succ(n)}
    IN  reach

\* How the branches from two nodes meet: nowhere, only at nodes that take
\* their inputs in any order, or at one that needs them in order.
OverlapKind(g, reach, a, b) ==
    LET shared == reach[a] \intersect reach[b]
    IN  IF a = b \/ \E d \in shared : d \notin g.rendezvous THEN "ordered"
        ELSE IF shared # {} THEN "rendezvous" ELSE "disjoint"

\* The most a node publishes per delivery: its own bound, or as many as a
\* delivery of one of its producers brings.
Publications(g) ==
    LET pubs[n \in 1..Len(g.kind)] ==
          Max({IF n \in g.raw THEN g.burst ELSE 1} \union
              {pubs[w.from] : w \in {v \in Wires(g) :
                                       v.to = n /\ ~LoopCarried(v)}})
    IN  pubs

\* How far past the newest published index an indexed node can fire, and how
\* far past it an entry of its join table can be made.
Leads(g) ==
    LET lead[n \in 1..Len(g.kind)] ==
          LET into == {w \in Wires(g) : w.to = n}
              ahead == {lead[w.from].fire - w.off :
                          w \in {v \in into : ~LoopCarried(v)}}
              back == {-w.off : w \in {v \in into : LoopCarried(v)}}
          IN  IF g.kind[n] # "indexed" \/ ahead = {}
              THEN [fire |-> 0, entry |-> Max({0} \union back)]
              ELSE [fire |-> Min(ahead),
                    entry |-> Max({0} \union ahead \union back)]
    IN  lead

\* The tables the scheduler reads, derived once per graph.
Compile(g) ==
    LET N == 1..Len(g.kind)
        reach == Reachability(g)
        forward == {w \in Wires(g) : ~LoopCarried(w)}
        into(n) == {w \in forward : w.to = n}
        leads == Leads(g)
    IN  [lead |-> [n \in N |-> leads[n].entry],
         inflow |-> [n \in N |->
            Max({1} \union {Publications(g)[w.from] : w \in into(n)})],
         producers |->
            [n \in N |-> {w.from : w \in {v \in forward : v.to = n}}],
         dependents |->
            [n \in N |-> {w.to : w \in {v \in forward : v.from = n}}],
         loopProducers |->
            [n \in N |-> {w.from : w \in {v \in Wires(g) :
                              v.to = n /\ LoopCarried(v)}} \ {n}],
         selfFed |-> {w.to : w \in {v \in Wires(g) : LoopCarried(v)}},
         wiresTo |-> [n \in N |-> Cardinality({i \in DOMAIN g.wires :
                                                  g.wires[i].to = n})],
         valuesFrom |-> [n \in N |-> {i \in DOMAIN g.wires :
                            g.wires[i].from = n /\ ~g.wires[i].done}],
         donesFrom |-> [n \in N |-> {i \in DOMAIN g.wires :
                            g.wires[i].from = n /\ g.wires[i].done}],
         overlap |-> [p \in N \X N |-> OverlapKind(g, reach, p[1], p[2])]]

\* A graph after its constructor.
Compiled(g) == [source |-> g, topology |-> Compile(g)]
============================================================================
