------------------------- MODULE MCRecordScheduler -------------------------
(***************************************************************************)
(* The graphs TLC runs the record scheduler on.                            *)
(***************************************************************************)
EXTENDS RecordScheduler, TLC

Wire(from, port, to, slot) ==
    [from |-> from, port |-> port, to |-> to, slot |-> slot, off |-> 0,
     done |-> FALSE]

Joined(n) == [i \in 1..n |-> "joined"]
Ones(n) == [i \in 1..n |-> 1]

Done(from, to, slot) == [Wire(from, 0, to, slot) EXCEPT !.done = TRUE]

Plain == [kind |-> Joined(1), copies |-> Ones(1), raw |-> {1}, wires |-> <<>>,
          rendezvous |-> {}, required |-> <<{}>>, guaranteed |-> {},
          fires |-> <<"may">>, layouts |-> {[p \in {} |-> {}]}, burst |-> 1,
          mode |-> "async", records |-> 2, shapes |-> {"one"}, final |-> TRUE,
          shots |-> 1, slots |-> 64, faults |-> FALSE]

\* A source, two branches and the node where they meet.
Diamond ==
    [Plain EXCEPT !.kind = Joined(4), !.copies = Ones(4),
       !.wires = <<Wire(1, 1, 2, 1), Wire(1, 1, 3, 1), Wire(2, 1, 4, 1),
                   Wire(3, 1, 4, 2)>>,
       !.required = [n \in 1..4 |-> {}], !.fires = <<"may", "may", "always", "never">>]

\* The same branches in one call: every node once, after its producers.
OneShot == [Diamond EXCEPT !.mode = "one_shot", !.records = 1]

\* Two sources meeting at one node.
TwoRoots ==
    [Plain EXCEPT !.kind = Joined(3), !.copies = Ones(3), !.raw = {1, 2},
       !.wires = <<Wire(1, 1, 3, 1), Wire(2, 1, 3, 2)>>,
       !.required = [n \in 1..3 |-> {}], !.fires = <<"may", "may", "never">>,
       !.shapes = {"two"}]

\* The same for a synchronous caller, and where the meeting node takes its
\* inputs in any order.
SyncRoots == [TwoRoots EXCEPT !.mode = "sync", !.final = FALSE]
Rendezvous == [TwoRoots EXCEPT !.rendezvous = {3}, !.shapes = {"one"}]

\* A pool of two copies between two record-ordered nodes.
Pool ==
    [Plain EXCEPT !.kind = Joined(3), !.copies = <<1, 2, 1>>,
       !.wires = <<Wire(1, 1, 2, 1), Wire(2, 1, 3, 1)>>,
       !.required = [n \in 1..3 |-> {}], !.fires = <<"may", "may", "never">>,
       !.shapes = {"one", "cut", "two"}, !.records = 3]

\* A node that may throw, in a session that may be cancelled and is finished
\* without FINAL.
Faulty == [Pool EXCEPT !.faults = TRUE, !.records = 2, !.shapes = {"one"},
                       !.final = FALSE]

\* An ensemble: the fan-out, two members, and the join that waits for both.
Ensemble ==
    [Plain EXCEPT !.kind = Joined(4), !.copies = Ones(4),
       !.wires = <<Wire(1, 1, 2, 1), Wire(1, 1, 3, 1), Wire(1, 2, 4, 1),
                   Done(2, 4, 2), Done(3, 4, 3)>>,
       !.required = [n \in 1..4 |-> {}],
       !.fires = <<"may", "never", "never", "last">>, !.shapes = {"long"}]

\* Ingest and two layers: B receives A's instances k - 1 and k, and its own
\* windows are the inner ones.
Layers ==
    [Plain EXCEPT !.kind = <<"joined", "indexed", "indexed">>, !.copies = <<1, 2, 1>>,
       !.wires = <<Wire(1, 1, 2, 1), Wire(1, 2, 3, 1), Wire(2, 1, 3, 2),
                   [Wire(2, 1, 3, 3) EXCEPT !.off = -1]>>,
       !.required = <<{}, {1}, {1}>>, !.fires = <<"may", "always", "always">>,
       !.layouts = {[p \in {1, 2} |-> IF p = 1 THEN 0..2 ELSE {1}]},
       !.burst = 2, !.shapes = {"two"}]

\* A sliding window: each instance reads the one before it.
Sliding ==
    [Plain EXCEPT !.kind = <<"joined", "indexed">>, !.copies = <<1, 2>>,
       !.wires = <<Wire(1, 1, 2, 1), [Wire(2, 1, 2, 2) EXCEPT !.off = -1]>>,
       !.required = <<{}, {1}>>, !.guaranteed = {<<2, 2>>},
       !.fires = <<"may", "always">>,
       !.layouts = {[p \in {1} |-> 0..2]}, !.burst = 2,
       !.shapes = {"one", "two"}, !.shots = 2]

\* More records than contexts, one window each.
Steady ==
    [Sliding EXCEPT !.copies = <<1, 1>>, !.burst = 1, !.records = 5,
       !.layouts = {[p \in {1} |-> 0..4]}, !.shapes = {"one"}, !.shots = 1]

\* Instances whose optional input never comes: all are resolved at the end
\* of the shot, in several passes over a small event store.
Late ==
    [Plain EXCEPT !.kind = <<"joined", "indexed">>, !.copies = <<1, 2>>,
       !.wires = <<Wire(1, 1, 2, 1), Wire(1, 2, 2, 2)>>,
       !.required = <<{}, {1}>>, !.fires = <<"may", "always">>,
       !.layouts = {[p \in {1, 2} |-> IF p = 1 THEN 0..2 ELSE {}]},
       !.burst = 2, !.slots = 10]

\* Failure and cancellation of a shot of the sliding window, and the shot after.
FaultySliding ==
    [Sliding EXCEPT !.layouts = {[p \in {1} |-> 0..1]}, !.shapes = {"one"},
                    !.faults = TRUE]

GraphSet == "diamond" :> Diamond @@ "roots" :> TwoRoots @@ "pool" :> Pool
            @@ "one shot" :> OneShot @@ "sync" :> SyncRoots
            @@ "rendezvous" :> Rendezvous @@ "ensemble" :> Ensemble
            @@ "layers" :> Layers @@ "sliding" :> Sliding @@ "late" :> Late
            @@ "steady" :> Steady @@ "faulty" :> Faulty @@ "faulty sliding" :> FaultySliding
Symmetric == Permutations(Workers)
============================================================================
