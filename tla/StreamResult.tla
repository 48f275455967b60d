---------------------------- MODULE StreamResult ----------------------------
(***************************************************************************)
(* The progress model of a streaming task graph: how the publications of   *)
(* its nodes, captured by the records that ran them, become the result a   *)
(* reader sees (decoding_task_graph.cpp, from refresh_streaming_progress   *)
(* to process_streaming_record, and apply_record_context of                *)
(* decoding_task_graph_executor.cpp).                                      *)
(*                                                                         *)
(* The operators take and return the graph's result state, so that the     *)
(* same code serves a synchronous and an asynchronous graph.  A correction *)
(* vector is the set of the rounds whose flips it holds, combined by       *)
(* symmetric difference as the code combines bits by XOR: rounds folded    *)
(* twice cancel.  Closures and convergence flags are left out.             *)
(***************************************************************************)
EXTENDS Integers, Sequences, FiniteSets, SequencesExt, FiniteSetsExt

VARIABLE
    topology  \* the compiled graph, fixed from the start (see GraphSession)

Outputs == DOMAIN topology.outputs

\* Only the last output may be the logical one.
HasLogical == topology.outputs[Len(topology.outputs)].logical

CorrectionOutputs == {k \in Outputs : ~topology.outputs[k].logical}

Observables == DOMAIN topology.completion

\* whole_shot: past every round.  An observable whose completion round is not
\* known has this one.
Whole == 1000
NoCoverage == <<>>

Xor(a, b) == (a \ b) \union (b \ a)

\* Every contributor of a staged output reports exact commit intervals.
Staged(n) == \E k \in Outputs : topology.outputs[k].staged
                                /\ n \in topology.outputs[k].nodes

Unstaged == {n \in topology.nodes : ~Staged(n)}

----------------------------------------------------------------------------
(* The state.                                                              *)

CleanStager == [frontier |-> 0, begin |-> 0, generation |-> 0, bits |-> {},
                whole |-> {}, hasWhole |-> FALSE, pending |-> {}]

CleanOutput == [generation |-> 0, begin |-> 0, end |-> 0, status |-> "pending"]

\* reset_streaming_progress, which a graph also starts from.
Clean(epoch) ==
    [ \* streaming_result_state
      epoch |-> epoch, revision |-> 0, completed |-> 0, generation |-> 0,
      status |-> "pending", opDone |-> FALSE,
      out |-> [k \in Outputs |-> CleanOutput], released |-> {},
      values |-> [k \in Outputs |-> {}],
      \* streaming_node_generations, latest_node_coverage, _corrections
      gens |-> [n \in topology.nodes |-> 0],
      coverage |-> [n \in topology.nodes |-> NoCoverage],
      latest |-> [n \in topology.nodes |-> {}],
      \* output_stagers, and the streaming_output_* counters
      stager |-> [k \in Outputs |-> CleanStager],
      ordinals |-> [k \in Outputs |-> 0], consumed |-> [k \in Outputs |-> 0],
      publications |-> [k \in Outputs |-> 0], slowest |-> [k \in Outputs |-> 0],
      finalized |-> FALSE, shotOpen |-> FALSE,
      broken |-> FALSE ]   \* a staging check threw

\* The fields a reader gets.
Public(g) == [epoch |-> g.epoch, revision |-> g.revision,
              completed |-> g.completed, generation |-> g.generation,
              status |-> g.status, opDone |-> g.opDone, out |-> g.out,
              released |-> g.released, values |-> g.values]

\* compose_streaming_values: a staged output's frame, and onto it the latest
\* corrections of the unstaged nodes that feed the output.
Compose(g) ==
    [g EXCEPT !.values = [k \in Outputs |->
        FoldSet(LAMBDA n, v : Xor(v, g.latest[n]),
                IF topology.outputs[k].staged THEN g.stager[k].bits ELSE {},
                Unstaged \intersect (topology.outputs[k].nodes
                                     \union topology.outputs[k].readouts))]]

----------------------------------------------------------------------------
(* stage_delta and fold_whole_shot.                                        *)

\* The frontier passes every interval that now starts at it.
Advanced(stager, waiting) ==
    FoldLeft(LAMBDA s, d :
                 IF s.pending = {} /\ d.begin = s.frontier
                 THEN [s EXCEPT !.bits = Xor(@, d.bits), !.frontier = d.end]
                 ELSE [s EXCEPT !.pending = @ \union {d}],
             [stager EXCEPT !.pending = {}],
             SetToSortSeq(waiting, LAMBDA a, b : a.begin < b.begin))

\* Mutant: the flips join the frame as soon as they arrive.
StageAtOnce(s, d) ==
    LET moved == Advanced(s, s.pending \union {[d EXCEPT !.bits = {}]})
    IN  [moved EXCEPT !.bits = Xor(@, d.bits),
                      !.generation = @ + (IF moved.frontier # s.frontier
                                          THEN 1 ELSE 0)]

StageInterval(s, d) ==
    LET counted(moved) == IF moved.frontier = s.frontier THEN moved
                          ELSE [moved EXCEPT !.generation = @ + 1]
    IN  counted(Advanced(s, s.pending \union {d}))

StageDelta(g, k, d) ==
    LET s == g.stager[k]
    IN  CASE d.end = Whole ->
               [g EXCEPT !.stager[k].whole = Xor(@, d.bits),
                         !.stager[k].hasWhole = TRUE]
          [] d.end # Whole /\ d.begin >= d.end ->
               [g EXCEPT !.stager[k].bits = Xor(@, d.bits)]
          [] d.begin < d.end /\ d.end # Whole
             /\ (d.begin < s.frontier
                 \/ Cardinality(s.pending) = topology.capacity) ->
               [g EXCEPT !.broken = TRUE]
          [] OTHER -> [g EXCEPT !.stager[k] = StageInterval(s, d)]

FoldWholeShot(g, k) ==
    LET s == g.stager[k]
    IN  CASE ~s.hasWhole -> g
          [] s.hasWhole /\ s.pending # {} -> [g EXCEPT !.broken = TRUE]
          [] OTHER ->
               [g EXCEPT !.stager[k] =
                   [s EXCEPT !.bits = Xor(@, s.whole), !.whole = {},
                             !.hasWhole = FALSE, !.generation = @ + 1]]

----------------------------------------------------------------------------
(* apply_record_context: fold what one retired record captured.            *)

\* Mutant: the captures are folded node by node.
CaptureOrder(publications) == publications

\* The captures of an operation, in order of their first round.
RoundOrder(publications) ==
    SetToSortSeq(Range(publications), LAMBDA a, b : a.cover[1] < b.cover[1])

\* One capture goes to every staged output its node reaches; a path that
\* cancels hands on the interval without the flips.
StagePublication(g, p) ==
    FoldSet(LAMBDA k, h :
                StageDelta(h, k, [begin |-> p.cover[1], end |-> p.cover[2],
                                  bits |-> IF topology.outputs[k].cancelled
                                           THEN {} ELSE p.bits]),
            g, {k \in Outputs : topology.outputs[k].staged
                                /\ p.node \in topology.outputs[k].nodes})

StageOperation(g, operation) ==
    LET staged == SelectSeq(operation, LAMBDA p : Staged(p.node))
    IN  FoldLeft(StagePublication,
                 [g EXCEPT !.gens = [n \in topology.nodes |->
                     @[n] + Len(SelectSeq(operation,
                                          LAMBDA p : p.node = n /\ p.fired))]],
                 RoundOrder(staged))

\* pending_generation: the least correction output generation.
PendingGeneration(g) ==
    Min({ LET c == topology.outputs[k]
          IN  Max({g.out[k].generation,
                   IF c.staged THEN g.stager[k].generation
                               ELSE Min({g.gens[n] : n \in c.nodes})})
          : k \in CorrectionOutputs })

\* The last value and coverage each unstaged node published in the record.
Snapshotted(g, operations) ==
    LET all == FlattenSeq(operations)
        of(n) == SelectSeq(all, LAMBDA p : p.node = n)
        published == {n \in Unstaged : of(n) # <<>>}
    IN  [g EXCEPT !.latest = [n \in topology.nodes |->
                      IF n \in published THEN Last(of(n)).bits ELSE @[n]],
                  !.coverage = [n \in topology.nodes |->
                      IF n \in published THEN Last(of(n)).cover ELSE @[n]]]

\* An operation that another follows is counted when it advances the
\* generation, the last by whoever retires the record.
CountOperation(acc, operation) ==
    LET tally(h, now) ==
            [graph |-> h, before |-> now,
             advanced |-> acc.advanced + (IF now > acc.before THEN 1 ELSE 0)]
        staged(h) == tally(h, PendingGeneration(h))
    IN  staged(StageOperation(acc.graph, operation))

\* The operations fold one at a time, into the counts and the stagers; values
\* and coverage follow once, after the last.
ApplyRecord(g, operations) ==
    LET earlier == FoldLeft(CountOperation, [graph |-> g, before |-> g.generation,
                                             advanced |-> 0], Front(operations))
        folded(h) == [g EXCEPT !.gens = h.gens, !.stager = h.stager,
                               !.broken = h.broken]
    IN  [earlier EXCEPT !.graph =
            Snapshotted(folded(StageOperation(@, Last(operations))), operations)]

----------------------------------------------------------------------------
(* refresh_streaming_progress.                                             *)

StagedOutput(g, k, final) ==
    LET moved(h, s) ==
            IF s.generation <= h.out[k].generation THEN h
            ELSE [h EXCEPT !.out[k] = [generation |-> s.generation,
                     begin |-> s.begin, end |-> s.frontier, status |-> "available"]]
        staged(h) == moved(h, h.stager[k])
    IN  staged(IF final THEN FoldWholeShot(g, k) ELSE g)

\* The next generation of an output that moved to rounds [begin, end).
Moved(g, k, begin, end, generation) ==
    [g EXCEPT !.out[k] = [generation |-> Max({generation, g.out[k].generation + 1}),
                          begin |-> begin, end |-> end,
                          status |-> "available"]]

\* Rounds a fire on the schedule commits, and the tail its last one withheld.
FireBegin(ordinal) ==
    IF ordinal = 0 THEN 0
    ELSE ordinal * topology.schedule.stride + topology.schedule.start
FireEnd(ordinal) == ordinal * topology.schedule.stride + topology.schedule.size
                    - topology.schedule.end
TailBegin(ordinal) == FireEnd(ordinal)
TailEnd(ordinal) == FireEnd(ordinal) + topology.schedule.end

LastFire(g, k) == IF g.ordinals[k] = 0 THEN 0 ELSE g.ordinals[k] - 1

\* Every contributor reports its rounds, counted from the shot's first: the
\* output covers those all of them have committed, from where it was last
\* consumed.
ReportedOutput(g, k, final, generation) ==
    LET covers == {g.coverage[n] : n \in topology.outputs[k].nodes}
        end0   == Min({c[2] : c \in covers})
        begin  == Max({Max({c[1] : c \in covers}), g.consumed[k]})
        end    == Max({end0, begin})
        more   == \/ final
                  \/ end > begin /\ (end # g.out[k].end
                                     \/ g.out[k].status = "pending")
        h == [g EXCEPT !.ordinals[k] =
                 IF final THEN 0
                 ELSE (end0 + topology.schedule.stride - 1)
                        \div topology.schedule.stride,
              !.consumed[k] = IF final THEN 0 ELSE @]
    IN  IF more THEN Moved(h, k, begin, end, generation) ELSE h

\* A contributor reports none: the schedule says which rounds the slowest of
\* them has committed.
ScheduledOutput(g, k, final, generation, slowest) ==
    LET fired == g.ordinals[k] + generation - slowest
    IN  CASE generation <= slowest -> g
          [] generation > slowest /\ final /\ topology.schedule.end > 0 ->
               Moved(g, k, TailBegin(LastFire(g, k)), TailEnd(LastFire(g, k)),
                     generation)
          [] OTHER -> Moved([g EXCEPT !.ordinals[k] = fired], k,
                            FireBegin(fired - 1), FireEnd(fired - 1), generation)

\* Mutant: a tail that projects to no flips is no progress.
SilentTail(g, k) == g

\* A guarded tail is progress even if no contributor had bytes to publish.
GuardedTail(g, k) ==
    [g EXCEPT !.out[k] = [generation |-> g.out[k].generation + 1,
                          begin |-> TailBegin(LastFire(g, k)),
                          end |-> TailEnd(LastFire(g, k)),
                          status |-> g.out[k].status]]

\* Mutant: an observable is released by its readings, whatever the frame.
ReadBound(g, k) ==
    LET read == g.coverage[CHOOSE n \in topology.outputs[k].readouts : TRUE]
    IN  IF topology.outputs[k].staged /\ read # NoCoverage THEN read[2] ELSE 0

\* release_logical's bound: the rounds both the frame and the readout cover.
ReleaseBound(g, k) ==
    LET readout == CHOOSE n \in topology.outputs[k].readouts : TRUE
        read    == g.coverage[readout]
    IN  IF topology.outputs[k].staged /\ read # NoCoverage
        THEN Min({g.out[k].end, read[2]}) ELSE 0

ReadWhole(g, k) ==
    \A n \in topology.outputs[k].readouts :
        g.coverage[n] # NoCoverage /\ g.coverage[n][2] = Whole

ReleaseLogical(g, k, final) ==
    [g EXCEPT !.released = @ \union
        IF final /\ g.out[k].generation > 0 /\ ReadWhole(g, k) THEN Observables
        ELSE {i \in Observables : topology.completion[i] < ReleaseBound(g, k)}]

LogicalStatus(g, k, final) ==
    [g EXCEPT !.out[k].status =
        IF final /\ g.released = Observables THEN "complete"
        ELSE IF g.released # {} THEN "available" ELSE "pending"]

\* An output moves with its stager, with the rounds all its contributors
\* report, or with the slowest of them on its schedule.
MoveOutput(g, k, final, generation, slowest, published) ==
    LET nodes    == topology.outputs[k].nodes
        reported == \A n \in nodes : g.coverage[n] # NoCoverage
        silent   == \A n \in nodes : g.coverage[n] = NoCoverage
    IN  IF topology.outputs[k].staged THEN StagedOutput(g, k, final)
        ELSE IF reported /\ (published \/ generation > slowest)
        THEN ReportedOutput(g, k, final, generation)
        ELSE IF generation > slowest
        THEN ScheduledOutput(g, k, final, generation, slowest)
        ELSE IF final /\ g.out[k].generation > 0 /\ silent
                /\ topology.schedule.end > 0
        THEN GuardedTail(g, k)
        ELSE g

EndOutput(g, k, final) ==
    IF final /\ g.out[k].generation > 0
    THEN [g EXCEPT !.out[k].status = "complete"] ELSE g

RefreshOutput(g, k, final) ==
    LET generation == Min({g.gens[n] : n \in topology.outputs[k].nodes})
        sum == FoldSet(LAMBDA n, t : t + g.gens[n], 0, topology.outputs[k].nodes)
        logical(h) == IF topology.outputs[k].logical
                      THEN LogicalStatus(ReleaseLogical(h, k, final), k, final)
                      ELSE h
    IN  logical(EndOutput(
            MoveOutput([g EXCEPT !.publications[k] = sum,
                                 !.slowest[k] = generation],
                       k, final, generation, g.slowest[k],
                       sum # g.publications[k]),
            k, final))

Readable(status) == status \in {"available", "complete"}

\* The aggregate covers the correction outputs; a change of any output or of
\* the aggregate is a new revision.
RefreshStreamingProgress(g, final) ==
    LET ready(h) == \A k \in CorrectionOutputs :
                       Readable(h.out[k].status) /\ h.out[k].generation > 0
        aggregate(h) ==
            [h EXCEPT !.generation = Min({h.out[k].generation :
                                            k \in CorrectionOutputs}),
                      !.status = IF ~ready(h) THEN "pending"
                                 ELSE IF final THEN "complete" ELSE "available"]
        revised(h) == IF Public(h) = Public(g) THEN h
                      ELSE [h EXCEPT !.revision = @ + 1]
    IN  revised(aggregate(FoldLeft(LAMBDA h, k : RefreshOutput(h, k, final), g,
                                   [k \in Outputs |-> k])))

----------------------------------------------------------------------------
(* fail_streaming_progress, hide_streaming_result, consume_streaming_result *)
(* and process_streaming_record.                                           *)

FailStreamingProgress(g) ==
    [g EXCEPT !.revision = IF g.status = "failed" THEN @ ELSE @ + 1,
              !.status = "failed", !.opDone = FALSE, !.released = {},
              !.out = [k \in Outputs |-> [g.out[k] EXCEPT !.status = "failed"]],
              !.shotOpen = FALSE]

HideStreamingResult(g) ==
    [g EXCEPT !.latest = [n \in topology.nodes |-> {}],
              !.stager = [k \in Outputs |->
                             [g.stager[k] EXCEPT !.bits = {}, !.whole = {}]],
              !.values = [k \in Outputs |-> {}],
              !.status = "pending", !.opDone = FALSE, !.released = {},
              !.out = [k \in Outputs |-> [g.out[k] EXCEPT !.status = "pending",
                                              !.begin = 0, !.end = 0]],
              !.revision = @ + 1]

\* The rounds: what the next value covers, and where its numbering starts.
ConsumeRounds(g) ==
    LET ended == g.status = "complete"
    IN  [g EXCEPT
          !.coverage = IF ended THEN [n \in topology.nodes |-> NoCoverage] ELSE @,
          !.shotOpen = IF ended THEN FALSE ELSE @,
          !.status = "pending",
          !.consumed = [k \in Outputs |-> IF g.out[k].status = "complete"
                                          THEN 0 ELSE g.out[k].end],
          !.stager = [k \in Outputs |->
              IF g.out[k].status = "complete"
              THEN [g.stager[k] EXCEPT !.bits = {}, !.begin = 0, !.frontier = 0,
                                !.pending = {}]
              ELSE [g.stager[k] EXCEPT !.bits = {}, !.begin = g.stager[k].frontier]],
          !.out = [k \in Outputs |->
              [g.out[k] EXCEPT !.status = "pending",
                               !.begin = IF ended THEN 0 ELSE g.out[k].begin,
                               !.end = IF ended THEN 0 ELSE g.out[k].end]]]

\* The contributors' counts catch up with an output that passed them, output
\* by output.
CatchUpOutput(g, k) ==
    LET nodes == topology.outputs[k].nodes
        gens  == [n \in topology.nodes |->
                    IF n \in nodes THEN Max({g.gens[n], g.out[k].generation})
                                   ELSE g.gens[n]]
    IN  [g EXCEPT !.gens = gens,
                  !.publications[k] = FoldSet(LAMBDA n, s : s + gens[n], 0, nodes),
                  !.slowest[k] = Min({gens[n] : n \in nodes})]

CatchUp(g) == FoldLeft(CatchUpOutput, g, [k \in Outputs |-> k])

\* clear_corrections of a result that has not failed.
ConsumeStreamingResult(g) ==
    [CatchUp(ConsumeRounds(g)) EXCEPT
        !.finalized = FALSE, !.opDone = FALSE, !.released = {},
        !.latest = [n \in topology.nodes |-> {}],
        !.values = [k \in Outputs |-> {}], !.revision = @ + 1]

\* Whether the operation that found the aggregate at `generation' advanced it.
Completes(g, generation, final) ==
    \/ g.generation > generation
    \/ final /\ g.generation > 0 /\ g.status = "complete"

\* enqueue_record on a synchronous graph: an operation is run as the pieces
\* it is cut into, then a FINAL one's flush; `flush' is what that publishes.
ProcessStreamingRecord(g, pieces, final, flush) ==
    LET body(h) == FoldLeft(LAMBDA a, p : ApplyRecord(a, <<p>>).graph, h, pieces)
        flushed(h) == IF ~final THEN h
                      ELSE RefreshStreamingProgress(
                             [ApplyRecord(h, <<flush>>).graph
                                 EXCEPT !.finalized = TRUE], TRUE)
        counted(h, completes) ==
            [h EXCEPT !.opDone = completes,
                      !.completed = @ + (IF completes THEN 1 ELSE 0)]
        closed(h) == IF h.broken THEN FailStreamingProgress(h)
                     ELSE counted(h, Completes(h, g.generation, final))
    IN  Compose(closed(flushed(RefreshStreamingProgress(
            body([g EXCEPT !.opDone = FALSE, !.shotOpen = TRUE]), FALSE))))
=============================================================================
