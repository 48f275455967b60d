--------------------------- MODULE MCGraphSession ---------------------------
(***************************************************************************)
(* The graphs TLC runs a session on.                                       *)
(***************************************************************************)
EXTENDS GraphSession

Output(nodes) == [nodes |-> nodes, readouts |-> {}, staged |-> TRUE,
                  logical |-> FALSE, cancelled |-> FALSE]

Logical(nodes) == [Output(nodes) EXCEPT !.readouts = {"readout"},
                                        !.logical = TRUE]

Window(node, begin, end, due) ==
    [node |-> node, begin |-> begin, end |-> end, due |-> due]

Plain == [nodes |-> {"a", "b"}, kind |-> [n \in {"a", "b"} |-> "window"],
          outputs |-> <<Output({"a", "b"})>>, windows |-> <<>>,
          schedule |-> [size |-> 1, stride |-> 1, start |-> 0, end |-> 0],
          capacity |-> 4, completion |-> <<>>, heads |-> {},
          reads |-> [h \in {} |-> {}], known |-> TRUE, record |-> 2,
          async |-> TRUE, sizes |-> {1, 3}, minRounds |-> 2, maxRounds |-> 5,
          shots |-> 2]

\* Two layers of windows, the second filling the gaps of the first rounds
\* later, and a readout that folds each observable as it completes.
Lattice ==
    [Plain EXCEPT
       !.nodes = {"a", "b", "readout"},
       !.kind = [n \in {"a", "b", "readout"} |->
                   IF n = "readout" THEN "readout" ELSE "window"],
       !.outputs = <<Output({"a", "b"}), Logical({"a", "b"})>>,
       !.windows = <<Window("a", 0, 1, 1), Window("a", 2, 3, 3),
                     Window("a", 4, 5, 5), Window("b", 1, 2, 4),
                     Window("b", 3, 4, 5)>>,
       !.completion = <<0, 2, Whole>>, !.heads = {0, 2},
       !.reads = [h \in {0, 2} |-> IF h = 0 THEN {1} ELSE {2}],
       !.minRounds = 4]

\* The same, run by its caller.
SyncLattice == [Lattice EXCEPT !.async = FALSE]

\* One long operation completes windows of both layers, more than the stager
\* can hold out of order.
Backlog ==
    [Plain EXCEPT
       !.windows = <<Window("a", 1, 2, 6), Window("a", 3, 4, 6),
                     Window("a", 5, 6, 6), Window("b", 0, 1, 6),
                     Window("b", 2, 3, 6), Window("b", 4, 5, 6)>>,
       !.capacity = 3, !.record = 0, !.sizes = {6},
       !.minRounds = 6, !.maxRounds = 6]

\* Two decoders that revise their frames as rounds arrive, for one shot.
Native ==
    [Plain EXCEPT
       !.kind = [n \in {"a", "b"} |-> "native"],
       !.outputs = <<[Output({"a"}) EXCEPT !.staged = FALSE],
                     [Output({"a", "b"}) EXCEPT !.staged = FALSE]>>,
       !.record = 0, !.sizes = {1}, !.minRounds = 1, !.maxRounds = 3,
       !.shots = 1]

\* Decoders that report exact intervals but not the rounds of a shot, each with
\* an output of its own; on the second the flips cancel.
Exact ==
    [Native EXCEPT
       !.outputs = <<Output({"a"}),
                     [Output({"b"}) EXCEPT !.cancelled = TRUE]>>,
       !.known = FALSE, !.shots = 2, !.maxRounds = 2]

\* Decoders on a schedule, with a tail withheld until FINAL.
Fixed ==
    [Plain EXCEPT
       !.nodes = {"a", "b", "readout"},
       !.kind = [n \in {"a", "b", "readout"} |->
                   IF n = "readout" THEN "readout" ELSE "fixed"],
       !.outputs = <<[Output({"a"}) EXCEPT !.staged = FALSE],
                     [Output({"a", "b"}) EXCEPT !.staged = FALSE],
                     [Logical({"a", "b"}) EXCEPT !.staged = FALSE]>>,
       !.schedule = [size |-> 2, stride |-> 1, start |-> 0, end |-> 1],
       !.completion = <<0, Whole>>, !.heads = {0},
       !.reads = [h \in {0} |-> {1}],
       !.sizes = {1, 2}, !.minRounds = 2, !.maxRounds = 4]

\* The two decoders on one output, run by its caller, for a second shot.
Shared ==
    [Native EXCEPT
       !.outputs = <<[Output({"a", "b"}) EXCEPT !.staged = FALSE]>>,
       !.async = FALSE, !.shots = 2]

SharedSet == "shared" :> Shared

TopologySet ==
    "lattice" :> Lattice @@ "sync" :> SyncLattice @@ "backlog" :> Backlog
    @@ "native" :> Native @@ "exact" :> Exact @@ "fixed" :> Fixed
=============================================================================
