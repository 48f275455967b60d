------------------------- MODULE GraphSessionProofs -------------------------
(***************************************************************************)
(* What a session around a streaming graph can rely on: a failure is       *)
(* latched and published, FINAL returns with the flushed result, the       *)
(* snapshot a reader gets is never behind the graph's progress.            *)
(***************************************************************************)
EXTENDS GraphSession, TLAPS

-----------------------------------------------------------------------------
(* The result state                                                         *)

ResultFields == {"epoch", "revision", "completed", "generation", "status",
                 "opDone", "out", "released", "values", "gens", "coverage",
                 "latest", "stager", "ordinals", "consumed", "publications",
                 "slowest", "finalized", "shotOpen", "broken"}
OutputFields == {"generation", "begin", "end", "status"}

OutputsOK(out) ==
    /\ DOMAIN out = Outputs
    /\ \A k \in Outputs : DOMAIN out[k] = OutputFields /\ out[k].status \in Statuses

\* A failed result has no readable output and no released measurement.
FailedWhole(g) ==
    g.released = {} /\ \A k \in Outputs : g.out[k].status = "failed"

ResultOK(g) ==
    /\ DOMAIN g = ResultFields
    /\ g.epoch \in Nat /\ g.revision \in Nat /\ g.completed \in Nat
    /\ g.finalized \in BOOLEAN
    /\ g.status \in Statuses /\ OutputsOK(g.out) /\ g.released \subseteq Observables
    /\ g.status = "failed" => FailedWhole(g)

\* Within an epoch the counters a reader compares only grow.
Grows(g, h) == /\ h.epoch = g.epoch /\ h.revision >= g.revision
               /\ h.completed >= g.completed

\* ... and a result that differs in its progress has a new revision.
Advances(g, h) == Grows(g, h) /\ (h.revision = g.revision => Progress(h) = Progress(g))

\* Advancing is transitive.
LEMMA AdvancesTrans ==
    ASSUME NEW g, NEW h, NEW t, Advances(g, h), Advances(h, t),
           g.revision \in Nat, h.revision \in Nat, t.revision \in Nat,
           g.completed \in Nat, h.completed \in Nat, t.completed \in Nat
    PROVE  Advances(g, t)
<1>1. Grows(g, t)
  BY DEF Advances, Grows
<1>2. ASSUME t.revision = g.revision PROVE Progress(t) = Progress(g)
  <2>1. h.revision = g.revision /\ t.revision = h.revision
    BY <1>2 DEF Advances, Grows
  <2> QED
    BY <2>1 DEF Advances
<1> QED
  BY <1>1, <1>2 DEF Advances

Topological == IsTopology(topology)

\* Outputs are numbered from 1.
LEMMA OutputSequence ==
    ASSUME Topological
    PROVE  [k \in Outputs |-> k] \in Seq(Nat)
           /\ \A i \in 1..Len([k \in Outputs |-> k]) : [k \in Outputs |-> k][i] \in Outputs
  BY DEF Topological, IsTopology, Outputs

\* A graph starts, and is reset to, a result that is pending.
LEMMA CleanOK ==
    ASSUME NEW e \in Nat
    PROVE  /\ ResultOK(Clean(e)) /\ Clean(e).epoch = e /\ Clean(e).status = "pending"
  BY DEF ResultOK, Clean, ResultFields, OutputFields, OutputsOK, CleanOutput, Statuses,
         FailedWhole

\* fail_streaming_progress() hides everything a reader could use.
LEMMA FailOK ==
    ASSUME NEW g, ResultOK(g)
    PROVE  LET h == FailStreamingProgress(g)
           IN  /\ ResultOK(h) /\ Grows(g, h) /\ h.status = "failed"
               /\ h.finalized = g.finalized
               /\ g.status # "failed" => h.revision = g.revision + 1
  BY DEF ResultOK, FailStreamingProgress, ResultFields, OutputFields, OutputsOK, Statuses,
         FailedWhole, Grows

\* hide_streaming_result() leaves a pending result.
LEMMA HideOK ==
    ASSUME NEW g, ResultOK(g)
    PROVE  LET h == HideStreamingResult(g)
           IN  /\ ResultOK(h) /\ Advances(g, h) /\ h.status = "pending"
               /\ h.revision = g.revision + 1
<1> DEFINE h == HideStreamingResult(g)
<1>1. /\ DOMAIN h = ResultFields /\ h.epoch = g.epoch /\ h.revision = g.revision + 1
      /\ h.completed = g.completed /\ h.finalized = g.finalized
      /\ h.status = "pending" /\ h.released = {}
  BY DEF ResultOK, HideStreamingResult, ResultFields
<1>2. h.out = [k \in Outputs |-> [g.out[k] EXCEPT !.status = "pending",
                                                 !.begin = 0, !.end = 0]]
  BY DEF ResultOK, HideStreamingResult, ResultFields
<1> HIDE DEF h
<1>3. OutputsOK(h.out)
  <2>1. DOMAIN h.out = Outputs
    BY <1>2
  <2>2. ASSUME NEW k \in Outputs
        PROVE  DOMAIN h.out[k] = OutputFields /\ h.out[k].status \in Statuses
    <3>1. DOMAIN g.out[k] = OutputFields
      BY DEF ResultOK, OutputsOK
    <3>2. h.out[k] = [g.out[k] EXCEPT !.status = "pending", !.begin = 0, !.end = 0]
      BY <1>2
    <3> QED
      BY <3>1, <3>2 DEF OutputFields, Statuses
  <2> QED
    BY <2>1, <2>2 DEF OutputsOK
<1>4. ResultOK(h) /\ Advances(g, h)
  BY <1>1, <1>3 DEF ResultOK, Statuses, Advances, Grows
<1> QED
  BY <1>1, <1>4 DEF h

-----------------------------------------------------------------------------
(* refresh_streaming_progress()                                             *)

Shaped(g) == /\ DOMAIN g = ResultFields /\ OutputsOK(g.out)
             /\ g.released \subseteq Observables

\* Outputs move and measurements are released; the rest a reader gets is left
\* to the aggregate.
Refreshed(g, h) ==
    /\ Shaped(h)
    /\ h.epoch = g.epoch /\ h.revision = g.revision /\ h.completed = g.completed
    /\ h.status = g.status /\ h.generation = g.generation
    /\ h.finalized = g.finalized

\* An output whose entry in g is replaced by a well-formed one.
LEMMA OneOutput ==
    ASSUME NEW g, Shaped(g), NEW k \in Outputs, NEW o,
           DOMAIN o = OutputFields, o.status \in Statuses
    PROVE  Refreshed(g, [g EXCEPT !.out[k] = o])
  BY DEF Shaped, Refreshed, ResultFields, OutputsOK

\* Moved() replaces the output's entry.
LEMMA MovedOK ==
    ASSUME NEW g, Shaped(g), NEW k \in Outputs, NEW b, NEW e, NEW n
    PROVE  Refreshed(g, Moved(g, k, b, e, n))
<1>1. DOMAIN [generation |-> Max({n, g.out[k].generation + 1}), begin |-> b,
              end |-> e, status |-> "available"] = OutputFields
  BY DEF OutputFields
<1> QED
  BY <1>1, OneOutput DEF Moved, Statuses

\* Refreshing is transitive.
LEMMA RefreshedTrans ==
    ASSUME NEW g, NEW h, NEW t, Refreshed(g, h), Refreshed(h, t)
    PROVE  Refreshed(g, t)
  BY DEF Refreshed

\* A staged output follows its stager.
LEMMA StagedOutputOK ==
    ASSUME NEW g, Shaped(g), NEW k \in Outputs, NEW final
    PROVE  Refreshed(g, StagedOutput(g, k, final))
<1> DEFINE h == IF final THEN FoldWholeShot(g, k) ELSE g
           s == h.stager[k]
           o == [generation |-> s.generation, begin |-> s.begin,
                 end |-> s.frontier, status |-> "available"]
<1>1. Refreshed(g, h)
  BY DEF Shaped, Refreshed, ResultFields, FoldWholeShot
<1>2. DOMAIN o = OutputFields /\ o.status \in Statuses
  BY DEF OutputFields, Statuses
<1>3. StagedOutput(g, k, final) =
        IF s.generation <= h.out[k].generation THEN h ELSE [h EXCEPT !.out[k] = o]
  BY DEF StagedOutput
<1>4. Shaped(h)
  BY <1>1 DEF Refreshed
<1> HIDE DEF h, o
<1>5. Refreshed(h, [h EXCEPT !.out[k] = o])
  BY <1>2, <1>4, OneOutput
<1> QED
  BY <1>1, <1>3, <1>5, RefreshedTrans

\* An output moves, or stays.
LEMMA MoveOutputOK ==
    ASSUME NEW g, Shaped(g), NEW k \in Outputs, NEW final, NEW n, NEW m, NEW p
    PROVE  Refreshed(g, MoveOutput(g, k, final, n, m, p))
<1>1. Refreshed(g, g)
  BY DEF Refreshed, Shaped
<1>2. Refreshed(g, ReportedOutput(g, k, final, n))
  <2>1. ASSUME NEW v, NEW w
        PROVE  Refreshed(g, [g EXCEPT !.ordinals[k] = v, !.consumed[k] = w])
    BY DEF Refreshed, Shaped, ResultFields
  <2>2. ASSUME NEW v, NEW w, NEW b, NEW e
        PROVE  Refreshed(g, Moved([g EXCEPT !.ordinals[k] = v, !.consumed[k] = w],
                                  k, b, e, n))
    <3> DEFINE h == [g EXCEPT !.ordinals[k] = v, !.consumed[k] = w]
    <3>1. Refreshed(g, h)
      BY <2>1
    <3>2. Shaped(h)
      BY <3>1 DEF Refreshed
    <3> HIDE DEF h
    <3>3. Refreshed(h, Moved(h, k, b, e, n))
      BY <3>2, MovedOK
    <3>4. Refreshed(g, Moved(h, k, b, e, n))
      BY <3>1, <3>3, RefreshedTrans
    <3> QED
      BY <3>4 DEF h
  <2> QED
    BY <2>1, <2>2 DEF ReportedOutput
<1>3. Refreshed(g, ScheduledOutput(g, k, final, n, m))
  <2>1. ASSUME NEW v, NEW b, NEW e
        PROVE  Refreshed(g, Moved([g EXCEPT !.ordinals[k] = v], k, b, e, n))
    <3> DEFINE h == [g EXCEPT !.ordinals[k] = v]
    <3>1. Refreshed(g, h)
      BY DEF Refreshed, Shaped, ResultFields
    <3>2. Shaped(h)
      BY <3>1 DEF Refreshed
    <3> HIDE DEF h
    <3>3. Refreshed(h, Moved(h, k, b, e, n))
      BY <3>2, MovedOK
    <3>4. Refreshed(g, Moved(h, k, b, e, n))
      BY <3>1, <3>3, RefreshedTrans
    <3> QED
      BY <3>4 DEF h
  <2>2. \A b, e : Refreshed(g, Moved(g, k, b, e, n))
    BY MovedOK
  <2> QED
    BY <1>1, <2>1, <2>2 DEF ScheduledOutput
<1>4. Refreshed(g, GuardedTail(g, k))
  <2> DEFINE o == [generation |-> g.out[k].generation + 1,
                   begin |-> TailBegin(LastFire(g, k)),
                   end |-> TailEnd(LastFire(g, k)), status |-> g.out[k].status]
  <2>1. DOMAIN o = OutputFields /\ o.status \in Statuses
    BY DEF Shaped, OutputsOK, OutputFields
  <2>2. GuardedTail(g, k) = [g EXCEPT !.out[k] = o]
    BY DEF GuardedTail
  <2> HIDE DEF o
  <2> QED
    BY <2>1, <2>2, OneOutput
<1>5. Refreshed(g, StagedOutput(g, k, final))
  BY StagedOutputOK
<1> QED
  BY <1>1, <1>2, <1>3, <1>4, <1>5 DEF MoveOutput

\* refresh_streaming_progress() for one output.
LEMMA RefreshOutputOK ==
    ASSUME NEW g, Shaped(g), NEW k \in Outputs, NEW final
    PROVE  Refreshed(g, RefreshOutput(g, k, final))
<1> DEFINE n == Min({g.gens[i] : i \in topology.outputs[k].nodes})
           sum == FoldSet(LAMBDA i, t : t + g.gens[i], 0, topology.outputs[k].nodes)
           g1 == [g EXCEPT !.publications[k] = sum, !.slowest[k] = n]
           g2 == MoveOutput(g1, k, final, n, g.slowest[k], sum # g.publications[k])
           g3 == EndOutput(g2, k, final)
           g4 == ReleaseLogical(g3, k, final)
           g5 == LogicalStatus(g4, k, final)
<1>0. RefreshOutput(g, k, final) = IF topology.outputs[k].logical THEN g5 ELSE g3
  BY DEF RefreshOutput
<1>1. Refreshed(g, g1) /\ Shaped(g1)
  <2> HIDE DEF n, sum
  <2> QED
    BY DEF Refreshed, Shaped, ResultFields
<1> HIDE DEF g1, n, sum
<1>2. Refreshed(g1, g2) /\ Shaped(g2)
  <2>1. Refreshed(g1, g2)
    BY <1>1, MoveOutputOK
  <2> QED
    BY <2>1 DEF Refreshed
<1> HIDE DEF g2
<1>3. Refreshed(g2, g3) /\ Shaped(g3)
  BY <1>2 DEF Refreshed, Shaped, ResultFields, OutputsOK, OutputFields, Statuses,
              EndOutput
<1> HIDE DEF g3
<1>4. Refreshed(g3, g4) /\ Shaped(g4)
  <2>1. \A X : X \subseteq Observables =>
          Refreshed(g3, [g3 EXCEPT !.released = g3.released \union X])
    BY <1>3 DEF Refreshed, Shaped, ResultFields
  <2>2. \E X : X \subseteq Observables /\
          g4 = [g3 EXCEPT !.released = g3.released \union X]
    <3> DEFINE X == IF final /\ g3.out[k].generation > 0 /\ ReadWhole(g3, k)
                    THEN Observables
                    ELSE {i \in Observables :
                            topology.completion[i] < ReleaseBound(g3, k)}
    <3>1. g4 = [g3 EXCEPT !.released = g3.released \union X]
      BY DEF ReleaseLogical
    <3>2. X \subseteq Observables
      OBVIOUS
    <3> HIDE DEF X
    <3> QED
      BY <3>1, <3>2
  <2>3. Refreshed(g3, g4)
    BY <2>1, <2>2
  <2> QED
    BY <2>3 DEF Refreshed
<1> HIDE DEF g4
<1>5. Refreshed(g4, g5)
  BY <1>4 DEF Refreshed, Shaped, ResultFields, OutputsOK, OutputFields, Statuses,
              LogicalStatus
<1> HIDE DEF g5
<1>6. Refreshed(g, g3)
  BY <1>1, <1>2, <1>3, RefreshedTrans
<1>7. Refreshed(g, g5)
  BY <1>4, <1>5, <1>6, RefreshedTrans
<1> QED
  BY <1>0, <1>6, <1>7

AllRefreshed(g, final) ==
    FoldLeft(LAMBDA h, k : RefreshOutput(h, k, final), g, [k \in Outputs |-> k])
RefreshStep(final, y, z, u, h, k) == RefreshOutput(h, k, final)
Refreshes == INSTANCE FoldInduction WITH Step <- RefreshStep, Inv <- Refreshed

\* refresh_streaming_progress() for all outputs.
LEMMA RefreshOutputsOK ==
    ASSUME NEW g, Shaped(g), NEW final, Topological
    PROVE  Refreshed(g, AllRefreshed(g, final))
<1> DEFINE seq == [k \in Outputs |-> k]
<1>1. AllRefreshed(g, final) = Refreshes!Fold(final, 0, 0, 0, g, seq)
  BY DEF AllRefreshed, Refreshes!Fold, RefreshStep, FoldLeft, MapThenFoldSet, Refreshes!Last, Max
<1>2. seq \in Seq(Nat) /\ \A i \in 1..Len(seq) : seq[i] \in Outputs
  BY OutputSequence
<1> HIDE DEF seq
<1>3. \A h : \A i \in 1..Len(seq) :
        Refreshed(g, h) => Refreshed(g, RefreshStep(final, 0, 0, 0, h, seq[i]))
  <2> TAKE h
  <2> TAKE i \in 1..Len(seq)
  <2> HAVE Refreshed(g, h)
  <2>1. Shaped(h)
    BY DEF Refreshed
  <2>2. Refreshed(h, RefreshOutput(h, seq[i], final))
    BY <2>1, <1>2, RefreshOutputOK
  <2> QED
    BY <2>2, RefreshedTrans DEF RefreshStep
<1>4. Refreshed(g, g)
  BY DEF Refreshed
<1>5. Refreshed(g, Refreshes!Fold(final, 0, 0, 0, g, seq))
  BY <1>2, <1>3, <1>4, Refreshes!FoldInv
<1> QED
  BY <1>1, <1>5

\* What a refresh leaves: a result that has not failed, with the same counts,
\* and a new revision if anything a reader gets has changed.
RefreshOK(g, h) ==
    /\ Shaped(h) /\ h.status \in Statuses \ {"failed"}
    /\ h.epoch = g.epoch /\ h.completed = g.completed
    /\ h.finalized = g.finalized
    /\ h.revision \in Nat /\ h.revision >= g.revision
    /\ h.revision = g.revision => Progress(h) = Progress(g)

\* refresh_streaming_progress() changes nothing without a new revision.
LEMMA RefreshProgress ==
    ASSUME NEW g, Shaped(g), g.revision \in Nat, NEW final, Topological
    PROVE  RefreshOK(g, RefreshStreamingProgress(g, final))
<1> DEFINE h1 == AllRefreshed(g, final)
           least == Min({h1.out[k].generation : k \in CorrectionOutputs})
           ready == \A k \in CorrectionOutputs :
                      Readable(h1.out[k].status) /\ h1.out[k].generation > 0
           status == IF ~ready THEN "pending"
                     ELSE IF final THEN "complete" ELSE "available"
           h2 == [h1 EXCEPT !.generation = least, !.status = status]
           h3 == [h2 EXCEPT !.revision = h2.revision + 1]
<1>0. RefreshStreamingProgress(g, final) = IF Public(h2) = Public(g) THEN h2 ELSE h3
  BY DEF RefreshStreamingProgress, AllRefreshed
<1>1. Refreshed(g, h1)
  BY RefreshOutputsOK
<1>2. status \in Statuses \ {"failed"}
  BY DEF Statuses
<1> HIDE DEF h1, least, status
<1>3. /\ Shaped(h2) /\ h2.status \in Statuses \ {"failed"}
      /\ h2.epoch = g.epoch /\ h2.completed = g.completed
      /\ h2.finalized = g.finalized /\ h2.revision = g.revision
  BY <1>1, <1>2 DEF Refreshed, Shaped, ResultFields
<1> HIDE DEF h2
<1>4. /\ Shaped(h3) /\ h3.status \in Statuses \ {"failed"}
      /\ h3.epoch = g.epoch /\ h3.completed = g.completed
      /\ h3.finalized = g.finalized /\ h3.revision = g.revision + 1
  BY <1>3 DEF Shaped, ResultFields
<1> HIDE DEF h3
<1>5. RefreshOK(g, h3)
  BY <1>4 DEF RefreshOK
<1>6. ASSUME Public(h2) = Public(g) PROVE RefreshOK(g, h2)
  <2>1. Progress(h2) = Progress(g)
    BY <1>6 DEF Public, Progress
  <2> QED
    BY <1>3, <2>1 DEF RefreshOK
<1> QED
  BY <1>0, <1>5, <1>6

-----------------------------------------------------------------------------
(* apply_record_context(), consume_streaming_result(),                      *)
(* process_streaming_record()                                               *)

\* Nothing a reader gets changes.
Keeps(g, h) == /\ DOMAIN h = ResultFields /\ Public(h) = Public(g)
               /\ h.finalized = g.finalized

CountStep(x, y, z, u, acc, operation) == CountOperation(acc, operation)
Tallied(p, acc) == DOMAIN acc = {"graph", "before", "advanced"} /\ acc.advanced \in Nat
Counts == INSTANCE FoldInduction WITH Step <- CountStep, Inv <- Tallied

AllCounted(g, operations) ==
    FoldLeft(CountOperation, [graph |-> g, before |-> g.generation, advanced |-> 0],
             Front(operations))

\* The operations of a record but the last are counted.
LEMMA AllCountedOK ==
    ASSUME NEW g, NEW S, NEW operations \in Seq(S), operations # <<>>
    PROVE  Tallied(0, AllCounted(g, operations))
<1> DEFINE seq == Front(operations)
           base == [graph |-> g, before |-> g.generation, advanced |-> 0]
<1>1. AllCounted(g, operations) = Counts!Fold(0, 0, 0, 0, base, seq)
  BY DEF AllCounted, Counts!Fold, CountStep, FoldLeft, MapThenFoldSet, Counts!Last, Max
<1>2. seq \in Seq(S)
  BY DEF Front
<1>3. Tallied(0, base)
  BY DEF Tallied
<1> HIDE DEF seq, base
<1>4. \A t : \A i \in 1..Len(seq) :
        Tallied(0, t) => Tallied(0, CountStep(0, 0, 0, 0, t, seq[i]))
  BY DEF Tallied, CountStep, CountOperation
<1> QED
  BY <1>1, <1>2, <1>3, <1>4, Counts!FoldInv

\* apply_record_context() folds into the counts and the stagers only; it counts
\* a number of operations.
LEMMA ApplyRecordOK ==
    ASSUME NEW g, DOMAIN g = ResultFields,
           NEW S, NEW operations \in Seq(S), operations # <<>>
    PROVE  LET a == ApplyRecord(g, operations)
           IN  Keeps(g, a.graph) /\ a.advanced \in Nat
<1> DEFINE earlier == AllCounted(g, operations)
           h == StageOperation(earlier.graph, Last(operations))
           f == [g EXCEPT !.gens = h.gens, !.stager = h.stager, !.broken = h.broken]
           t == Snapshotted(f, operations)
<1>1. ApplyRecord(g, operations) = [earlier EXCEPT !.graph = t]
  BY DEF ApplyRecord, AllCounted
<1>2. Tallied(0, earlier)
  BY AllCountedOK
<1> HIDE DEF earlier, h
<1>3. Keeps(g, f)
  BY DEF Keeps, Public, ResultFields
<1> HIDE DEF f
<1>4. Keeps(f, t)
  BY <1>3 DEF Keeps, Public, ResultFields, Snapshotted
<1> HIDE DEF t
<1>5. Keeps(g, t)
  BY <1>3, <1>4 DEF Keeps
<1> QED
  BY <1>1, <1>2, <1>5 DEF Tallied

CatchStep(x, y, z, u, g, k) == CatchUpOutput(g, k)
Catches == INSTANCE FoldInduction WITH Step <- CatchStep, Inv <- Keeps

\* The contributors' counts catch up; a reader sees nothing of it.
LEMMA CatchUpOK ==
    ASSUME NEW g, DOMAIN g = ResultFields, Topological
    PROVE  Keeps(g, CatchUp(g))
<1> DEFINE seq == [k \in Outputs |-> k]
<1>1. CatchUp(g) = Catches!Fold(0, 0, 0, 0, g, seq)
  BY DEF CatchUp, Catches!Fold, CatchStep, FoldLeft, MapThenFoldSet, Catches!Last, Max
<1>2. seq \in Seq(Nat)
  BY OutputSequence
<1>3. Keeps(g, g)
  BY DEF Keeps
<1>4. \A h : \A i \in 1..Len(seq) : Keeps(g, h) => Keeps(g, CatchStep(0, 0, 0, 0, h, seq[i]))
  <2> TAKE h
  <2> TAKE i \in 1..Len(seq)
  <2> HAVE Keeps(g, h)
  <2> DEFINE k == seq[i]
  <2>1. \A a, b, c : Keeps(h, [h EXCEPT !.gens = a, !.publications[k] = b,
                                       !.slowest[k] = c])
    BY DEF Keeps, Public, ResultFields
  <2>2. Keeps(h, CatchUpOutput(h, k))
    BY <2>1 DEF CatchUpOutput
  <2> QED
    BY <2>2 DEF Keeps, CatchStep
<1> HIDE DEF seq
<1> QED
  BY <1>1, <1>2, <1>3, <1>4, Catches!FoldInv

\* clear_corrections() leaves a pending result and keeps the counters.
LEMMA ConsumeOK ==
    ASSUME NEW g, ResultOK(g), Topological
    PROVE  LET h == ConsumeStreamingResult(g)
           IN  ResultOK(h) /\ Advances(g, h) /\ h.status = "pending"
<1> DEFINE g1 == ConsumeRounds(g)
           g2 == CatchUp(g1)
           h == ConsumeStreamingResult(g)
           ended == g.status = "complete"
<1>1. /\ DOMAIN g1 = ResultFields /\ g1.epoch = g.epoch /\ g1.revision = g.revision
      /\ g1.completed = g.completed /\ g1.status = "pending"
      /\ g1.finalized = g.finalized
  BY DEF ResultOK, ConsumeRounds, ResultFields
<1>2. g1.out = [k \in Outputs |->
                 [g.out[k] EXCEPT !.status = "pending",
                                  !.begin = IF ended THEN 0 ELSE g.out[k].begin,
                                  !.end = IF ended THEN 0 ELSE g.out[k].end]]
  BY DEF ResultOK, ConsumeRounds, ResultFields
<1>3. OutputsOK(g1.out)
  <2> HIDE DEF ended, g1
  <2>1. DOMAIN g1.out = Outputs
    BY <1>2
  <2>2. ASSUME NEW k \in Outputs
        PROVE  DOMAIN g1.out[k] = OutputFields /\ g1.out[k].status \in Statuses
    <3>1. DOMAIN g.out[k] = OutputFields
      BY DEF ResultOK, OutputsOK
    <3>2. \A b, e : LET o == [g.out[k] EXCEPT !.status = "pending", !.begin = b, !.end = e]
                   IN  DOMAIN o = OutputFields /\ o.status \in Statuses
      BY <3>1 DEF OutputFields, Statuses
    <3>3. g1.out[k] = [g.out[k] EXCEPT !.status = "pending",
                                  !.begin = IF ended THEN 0 ELSE g.out[k].begin,
                                  !.end = IF ended THEN 0 ELSE g.out[k].end]
      BY <1>2
    <3> DEFINE b == IF ended THEN 0 ELSE g.out[k].begin
               e == IF ended THEN 0 ELSE g.out[k].end
    <3>4. g1.out[k] = [g.out[k] EXCEPT !.status = "pending", !.begin = b, !.end = e]
      BY <3>3
    <3> HIDE DEF b, e
    <3> QED
      BY <3>2, <3>4
  <2> QED
    BY <2>1, <2>2 DEF OutputsOK
<1> HIDE DEF g1
<1>4. Keeps(g1, g2)
  BY <1>1, CatchUpOK
<1> HIDE DEF g2
<1>5. /\ DOMAIN g2 = ResultFields /\ g2.epoch = g.epoch /\ g2.revision = g.revision
      /\ g2.completed = g.completed /\ g2.status = "pending" /\ OutputsOK(g2.out)
  BY <1>1, <1>3, <1>4 DEF Keeps, Public
<1>6. h = [g2 EXCEPT
        !.finalized = FALSE, !.opDone = FALSE, !.released = {},
        !.latest = [n \in topology.nodes |-> {}],
        !.values = [k \in Outputs |-> {}], !.revision = g2.revision + 1]
  BY DEF ConsumeStreamingResult, g1, g2
<1>7. /\ DOMAIN h = ResultFields /\ h.epoch = g.epoch /\ h.revision = g.revision + 1
      /\ h.completed = g.completed /\ h.status = "pending" /\ OutputsOK(h.out)
      /\ h.finalized \in BOOLEAN /\ h.released = {}
  BY <1>5, <1>6 DEF ResultFields
<1> HIDE DEF h
<1>8. ResultOK(h) /\ Advances(g, h)
  BY <1>7 DEF ResultOK, Advances, Grows, Statuses
<1> QED
  BY <1>7, <1>8 DEF h

\* A refreshed result is well formed.
LEMMA RefreshedResult ==
    ASSUME NEW g, NEW h, RefreshOK(g, h),
           g.epoch \in Nat, g.completed \in Nat, g.finalized \in BOOLEAN
    PROVE  ResultOK(h)
  BY DEF RefreshOK, ResultOK, Shaped

\* compose_streaming_values() sets the values alone.
LEMMA ComposeOK ==
    ASSUME NEW g, ResultOK(g)
    PROVE  LET h == Compose(g)
           IN  /\ ResultOK(h) /\ Progress(h) = Progress(g)
               /\ h.completed = g.completed /\ h.finalized = g.finalized
               /\ h.broken = g.broken
<1>1. \A v : LET h == [g EXCEPT !.values = v]
             IN  /\ ResultOK(h) /\ Progress(h) = Progress(g)
                 /\ h.completed = g.completed /\ h.finalized = g.finalized
                 /\ h.broken = g.broken
  BY DEF ResultOK, ResultFields, Progress, FailedWhole
<1> QED
  BY <1>1 DEF Compose

\* What a record in several pieces captured folds piece by piece.
BodyStep(x, y, z, u, a, p) == ApplyRecord(a, <<p>>).graph
Bodies == INSTANCE FoldInduction WITH Step <- BodyStep, Inv <- Keeps

BodyFolded(g, pieces) ==
    FoldLeft(LAMBDA a, p : ApplyRecord(a, <<p>>).graph, g, pieces)

\* A reader sees nothing of a record's pieces before the refresh.
LEMMA BodyOK ==
    ASSUME NEW g, DOMAIN g = ResultFields, NEW S, NEW pieces \in Seq(S)
    PROVE  Keeps(g, BodyFolded(g, pieces))
<1>1. BodyFolded(g, pieces) = Bodies!Fold(0, 0, 0, 0, g, pieces)
  BY DEF BodyFolded, Bodies!Fold, BodyStep, FoldLeft, MapThenFoldSet, Bodies!Last, Max
<1>2. Keeps(g, g)
  BY DEF Keeps
<1>3. \A h : \A i \in 1..Len(pieces) :
        Keeps(g, h) => Keeps(g, BodyStep(0, 0, 0, 0, h, pieces[i]))
  <2> TAKE h
  <2> TAKE i \in 1..Len(pieces)
  <2> HAVE Keeps(g, h)
  <2> DEFINE ops == <<pieces[i]>>
  <2>1. ops \in Seq({pieces[i]}) /\ ops # <<>>
    OBVIOUS
  <2>2. DOMAIN h = ResultFields
    BY DEF Keeps
  <2> HIDE DEF ops
  <2>3. Keeps(h, ApplyRecord(h, ops).graph)
    BY <2>1, <2>2, ApplyRecordOK
  <2> QED
    BY <2>3 DEF Keeps, BodyStep, ops
<1> QED
  BY <1>1, <1>2, <1>3, Bodies!FoldInv

\* What Keeps preserves of a well-formed result.
LEMMA KeepsShape ==
    ASSUME NEW g, NEW h, Keeps(g, h), ResultOK(g)
    PROVE  /\ Shaped(h) /\ h.revision = g.revision /\ h.epoch = g.epoch
           /\ h.completed = g.completed /\ h.finalized = g.finalized
           /\ Progress(h) = Progress(g) /\ ResultOK(h)
  BY DEF Keeps, ResultOK, Public, Shaped, Progress, FailedWhole

\* A refresh after other steps that advance.
LEMMA RefreshAdvances ==
    ASSUME NEW g, NEW h, NEW t, ResultOK(g), ResultOK(h), Advances(g, h), RefreshOK(h, t)
    PROVE  ResultOK(t) /\ Advances(g, t) /\ t.status # "failed"
<1>1. ResultOK(t)
  BY RefreshedResult DEF ResultOK
<1>2. Advances(h, t)
  BY <1>1 DEF RefreshOK, Advances, Grows, ResultOK
<1>3. Advances(g, t)
  BY <1>1, <1>2, AdvancesTrans DEF ResultOK
<1> QED
  BY <1>1, <1>3 DEF RefreshOK

\* process_streaming_record() keeps the result well formed and its counters
\* growing.
LEMMA ProcessOK ==
    ASSUME NEW g, ResultOK(g), NEW S, NEW pieces \in Seq(S), NEW final, NEW flush,
           Topological
    PROVE  LET h == ProcessStreamingRecord(g, pieces, final, flush)
           IN  ResultOK(h) /\ Advances(g, h)
<1> DEFINE g0 == [g EXCEPT !.opDone = FALSE, !.shotOpen = TRUE]
           g1 == BodyFolded(g0, pieces)
           g2 == RefreshStreamingProgress(g1, FALSE)
           a2 == ApplyRecord(g2, <<flush>>).graph
           b2 == [a2 EXCEPT !.finalized = TRUE]
           c2 == RefreshStreamingProgress(b2, TRUE)
           g3 == IF ~final THEN g2 ELSE c2
           done == Completes(g3, g.generation, final)
           d3 == [g3 EXCEPT !.opDone = done,
                            !.completed = g3.completed + (IF done THEN 1 ELSE 0)]
           g4 == IF g3.broken THEN FailStreamingProgress(g3) ELSE d3
<1>0. ProcessStreamingRecord(g, pieces, final, flush) = Compose(g4)
  BY DEF ProcessStreamingRecord, BodyFolded
<1>1. ResultOK(g0) /\ Advances(g, g0)
  BY DEF ResultOK, ResultFields, FailedWhole, Advances, Grows, Progress
<1> HIDE DEF g0
<1>2. Keeps(g0, g1)
  <2>1. DOMAIN g0 = ResultFields
    BY <1>1 DEF ResultOK
  <2> QED
    BY <2>1, BodyOK
<1> HIDE DEF g1
<1>3. Shaped(g1) /\ ResultOK(g1) /\ Advances(g, g1)
  BY <1>1, <1>2, KeepsShape DEF Advances, Grows
<1>4. RefreshOK(g1, g2)
  BY <1>3, RefreshProgress DEF ResultOK
<1> HIDE DEF g2
<1>5. ResultOK(g2) /\ Advances(g, g2) /\ g2.status # "failed"
  BY <1>3, <1>4, RefreshAdvances
<1>6. Keeps(g2, a2)
  <2> DEFINE ops == <<flush>>
  <2>1. ops \in Seq({flush}) /\ ops # <<>>
    OBVIOUS
  <2>2. DOMAIN g2 = ResultFields
    BY <1>5 DEF ResultOK
  <2> HIDE DEF ops
  <2>3. Keeps(g2, ApplyRecord(g2, ops).graph)
    BY <2>1, <2>2, ApplyRecordOK
  <2> QED
    BY <2>3 DEF ops
<1> HIDE DEF a2
<1>7. ResultOK(b2) /\ Advances(g, b2)
  <2>1. ResultOK(a2) /\ Advances(g, a2)
    BY <1>5, <1>6, KeepsShape DEF Advances, Grows
  <2> QED
    BY <2>1 DEF ResultOK, FailedWhole, ResultFields, Advances, Grows, Progress
<1> HIDE DEF b2
<1>8. RefreshOK(b2, c2)
  BY <1>7, RefreshProgress DEF ResultOK, Shaped
<1> HIDE DEF c2
<1>9. ResultOK(c2) /\ Advances(g, c2) /\ c2.status # "failed"
  BY <1>7, <1>8, RefreshAdvances
<1>10. ResultOK(g3) /\ Advances(g, g3) /\ g3.status # "failed"
  BY <1>5, <1>9
<1> HIDE DEF g3, done
<1>11. ResultOK(d3) /\ Advances(g, d3)
  <2>1. \A b, n : n \in {0, 1} =>
          LET d == [g3 EXCEPT !.opDone = b, !.completed = g3.completed + n]
          IN  ResultOK(d) /\ Advances(g3, d)
    BY <1>10 DEF ResultOK, ResultFields, FailedWhole, Advances, Grows, Progress
  <2> DEFINE n == IF done THEN 1 ELSE 0
  <2>2. n \in {0, 1} /\ d3 = [g3 EXCEPT !.opDone = done, !.completed = g3.completed + n]
    OBVIOUS
  <2> HIDE DEF n, d3
  <2>3. ResultOK(d3) /\ Advances(g3, d3)
    BY <2>1, <2>2
  <2> QED
    BY <2>3, <1>10, AdvancesTrans DEF ResultOK
<1> HIDE DEF d3
<1>12. LET f == FailStreamingProgress(g3) IN ResultOK(f) /\ Advances(g, f)
  <2> DEFINE f == FailStreamingProgress(g3)
  <2>1. ResultOK(f) /\ Advances(g3, f)
    BY <1>10, FailOK DEF Advances, ResultOK
  <2> HIDE DEF f
  <2>2. ResultOK(f) /\ Advances(g, f)
    BY <2>1, <1>10, AdvancesTrans DEF ResultOK
  <2> QED
    BY <2>2 DEF f
<1>13. ResultOK(g4) /\ Advances(g, g4)
  BY <1>11, <1>12
<1> HIDE DEF g4
<1>14. ResultOK(Compose(g4)) /\ Progress(Compose(g4)) = Progress(g4)
       /\ Compose(g4).completed = g4.completed
  BY <1>13, ComposeOK
<1>15. Advances(g, Compose(g4))
  BY <1>13, <1>14 DEF Advances, Grows, Progress
<1> QED
  BY <1>0, <1>14, <1>15

-----------------------------------------------------------------------------
(* The inductive invariant: its parts are about a graph g, its twin u, the   *)
(* result v a reader gets, the queue q, the dispatcher at round c of its     *)
(* first operation or (f) before its flush, having started from revision r,  *)
(* the waiting call and the session s.                                       *)

OperationOK(op) == op.final \in BOOLEAN /\ op.rounds \in Nat

\* FINAL's operation is the last of the queue for as long as its call waits.
QueueAt(q, waiting) ==
    /\ q \in Seq(Range(q)) /\ Len(q) <= MaxQueued
    /\ \A i \in 1..Len(q) : OperationOK(q[i])
    /\ \A i \in 1..Len(q) : q[i].final => i = Len(q) /\ waiting = "final"
    /\ waiting = "final" /\ q # <<>> => q[Len(q)].final
    /\ waiting \in {"idle", "final"}
    /\ ~topology.async => q = <<>> /\ waiting = "idle"

\* Where the dispatcher is in the first operation of the queue.
CutAt(c, f, q) ==
    /\ c \in Nat /\ f \in BOOLEAN
    /\ f => q # <<>> /\ q[1].final /\ c = 0
    /\ c > 0 => /\ q # <<>> /\ topology.record # 0
                /\ q[1].rounds > topology.record

\* The reader's result is of the graph's epoch and never ahead of it, and is
\* behind it only while an operation is being retired.
SnapshotAt(v, g, c, f, r) ==
    /\ v.revision \in Nat /\ v.completed \in Nat
    /\ Advances(v, g)
    /\ c = 0 /\ ~f => v.revision = g.revision
    /\ c > 0 \/ f => v.revision = r

\* What failed is published and dropped; FINAL's call ends with its result.
EndAt(v, g, q, waiting) ==
    /\ g.status = "failed" => q = <<>> /\ v = Public(g)
    /\ waiting = "final" /\ q = <<>> =>
         v = Public(g) /\ (g.finalized \/ g.status = "failed")

\* The session froze a result of this epoch, and not one ahead of the reader's.
SessionAt(s, v) ==
    /\ DOMAIN s = {"state", "frozen"}
    /\ s.state \in {"collecting", "result_ready", "failed"}
    /\ s.frozen.epoch = v.epoch
    /\ s.frozen.completed \in Nat /\ s.frozen.completed <= v.completed

InvAt(g, u, v, q, c, f, r, waiting, s) ==
    /\ ResultOK(g) /\ ResultOK(u)
    /\ QueueAt(q, waiting) /\ CutAt(c, f, q)
    /\ SnapshotAt(v, g, c, f, r) /\ EndAt(v, g, q, waiting)
    /\ SessionAt(s, v)

SnapshotTyped == /\ DOMAIN snapshot = {"result", "valid", "read"}
                 /\ snapshot.valid \in BOOLEAN

GraphInv ==
    /\ Topological
    /\ InvAt(graph, twin, Visible, queue, cut, flushing, retiring.revision, call,
             session)
    /\ SnapshotTyped /\ seen \in Nat /\ injected \in BOOLEAN

-----------------------------------------------------------------------------
(* The dispatcher                                                           *)

\* What a context that retires leaves: a failure is published, and so is the
\* end of an operation unless it left the revision it started from.
Outcome(opens, closes, flush, t) ==
    /\ ResultOK(t) /\ Advances(graph, t)
    /\ \/ t.status = "failed" /\ snapshot' = Published(t)
       \/ /\ t.status # "failed" /\ (flush => t.finalized)
          /\ retiring'.revision = IF opens THEN graph.revision ELSE retiring.revision
          /\ IF closes
             THEN \/ snapshot' = Published(t)
                  \/ snapshot' = snapshot /\ ~flush /\ t.revision = retiring'.revision
             ELSE snapshot' = snapshot

\* retire_record_context()
LEMMA RetireOK ==
    ASSUME Topological, ResultOK(graph), NEW S, NEW operations \in Seq(S),
           operations # <<>>, NEW opens, NEW closes, NEW flush \in BOOLEAN,
           Retire(operations, opens, closes, flush)
    PROVE  \E t : graph' = t /\ Outcome(opens, closes, flush, t)
<1> DEFINE from == IF opens THEN [generation |-> graph.generation,
                                  revision |-> graph.revision] ELSE retiring
           begun == IF opens THEN [graph EXCEPT !.opDone = FALSE] ELSE graph
           applied == ApplyRecord(begun, operations)
           a == applied.graph
           b == [a EXCEPT !.finalized = a.finalized \/ flush]
           c == RefreshStreamingProgress(b, flush)
           fresh == Compose(c)
           judged == LastFrom(applied, from, operations)
           lost == FailStreamingProgress([fresh EXCEPT !.values = graph.values])
           closed == Closed(fresh, closes, judged, applied.advanced, flush)
<1>0. IF fresh.broken
      THEN graph' = lost /\ snapshot' = Published(lost)
      ELSE /\ graph' = closed /\ retiring' = judged
           /\ snapshot' = IF closes /\ MustPublish(closed, judged, flush)
                          THEN Published(closed) ELSE snapshot
  BY DEF Retire, Fail
<1>1. ResultOK(begun) /\ Advances(graph, begun)
  BY DEF ResultOK, ResultFields, FailedWhole, Advances, Grows, Progress
<1>2. judged.revision = from.revision
  <2>1. \A n : opens => [from EXCEPT !.generation = n].revision = from.revision
    OBVIOUS
  <2> QED
    BY <2>1 DEF LastFrom
<1>3. from.revision = IF opens THEN graph.revision ELSE retiring.revision
  OBVIOUS
<1> HIDE DEF begun, from
<1>4. Keeps(begun, a) /\ applied.advanced \in Nat
  BY <1>1, ApplyRecordOK DEF ResultOK
<1> HIDE DEF applied
<1>5. ResultOK(a) /\ Advances(graph, a)
  BY <1>1, <1>4, KeepsShape DEF Advances, Grows
<1> HIDE DEF a
<1>6. ResultOK(b) /\ Advances(graph, b) /\ (flush => b.finalized)
  BY <1>5 DEF ResultOK, ResultFields, FailedWhole, Advances, Grows, Progress
<1> HIDE DEF b
<1>7. RefreshOK(b, c)
  BY <1>6, RefreshProgress DEF ResultOK, Shaped
<1>8. ResultOK(c) /\ Advances(graph, c) /\ c.status # "failed" /\ c.finalized = b.finalized
  BY <1>6, <1>7, RefreshAdvances DEF RefreshOK
<1> HIDE DEF c
<1>9. /\ ResultOK(fresh) /\ Advances(graph, fresh) /\ fresh.status # "failed"
      /\ flush => fresh.finalized
  <2>1. /\ ResultOK(fresh) /\ Progress(fresh) = Progress(c)
        /\ fresh.completed = c.completed /\ fresh.finalized = c.finalized
    BY <1>8, ComposeOK
  <2> QED
    BY <1>6, <1>8, <2>1 DEF Advances, Grows, Progress
<1> HIDE DEF fresh, judged
<1>10. ResultOK(lost) /\ Advances(graph, lost) /\ lost.status = "failed"
  <2> DEFINE kept == [fresh EXCEPT !.values = graph.values]
  <2>1. ResultOK(kept) /\ Advances(graph, kept) /\ kept.status # "failed"
    BY <1>9 DEF ResultOK, ResultFields, FailedWhole, Advances, Grows, Progress
  <2> HIDE DEF kept
  <2> DEFINE f == FailStreamingProgress(kept)
  <2>2. ResultOK(f) /\ Advances(kept, f) /\ f.status = "failed"
    <3>1. /\ ResultOK(f) /\ Grows(kept, f) /\ f.status = "failed"
          /\ f.revision = kept.revision + 1
      BY <2>1, FailOK
    <3> HIDE DEF f
    <3> QED
      BY <2>1, <3>1 DEF Advances, ResultOK
  <2>3. lost = f
    BY DEF kept
  <2> HIDE DEF lost, f
  <2> QED
    BY <2>1, <2>2, <2>3, AdvancesTrans DEF ResultOK
<1>11. /\ ResultOK(closed) /\ Advances(graph, closed) /\ closed.status # "failed"
       /\ flush => closed.finalized
  <2>1. \A x, n : n \in Nat =>
          LET d == [fresh EXCEPT !.opDone = x, !.completed = fresh.completed + n]
          IN  /\ ResultOK(d) /\ Advances(fresh, d) /\ d.status # "failed"
              /\ flush => d.finalized
    BY <1>9 DEF ResultOK, ResultFields, FailedWhole, Advances, Grows, Progress
  <2> DEFINE done == Completes(fresh, judged.generation, flush)
             n == applied.advanced + (IF done THEN 1 ELSE 0)
             d == [fresh EXCEPT !.opDone = done, !.completed = fresh.completed + n]
  <2>2. n \in Nat
    BY <1>4
  <2>3. closed = IF closes THEN d ELSE fresh
    <3> DEFINE m == IF done THEN 1 ELSE 0
    <3>0. fresh.completed + n = fresh.completed + applied.advanced + m
      <4>1. m \in Nat /\ n = applied.advanced + m
        OBVIOUS
      <4> HIDE DEF m, n
      <4> QED
        BY <4>1, <1>4, <1>9 DEF ResultOK
    <3>1. d = [fresh EXCEPT !.opDone = done,
                            !.completed = fresh.completed + applied.advanced + m]
      BY <3>0
    <3> HIDE DEF d
    <3> QED
      BY <3>1 DEF Closed
  <2> HIDE DEF n, done
  <2>4. ResultOK(d) /\ Advances(fresh, d) /\ d.status # "failed" /\ (flush => d.finalized)
    BY <2>1, <2>2
  <2> HIDE DEF d
  <2>5. Advances(graph, d)
    BY <2>4, <1>9, AdvancesTrans DEF ResultOK
  <2> QED
    BY <2>3, <2>4, <2>5, <1>9
<1> HIDE DEF lost, closed
<1>12. CASE fresh.broken
  BY <1>12, <1>0, <1>10 DEF Outcome
<1>13. CASE ~fresh.broken
  <2>1. /\ graph' = closed /\ retiring'.revision = judged.revision
        /\ snapshot' = IF closes /\ MustPublish(closed, judged, flush)
                          THEN Published(closed) ELSE snapshot
    BY <1>13, <1>0
  <2>2. ~MustPublish(closed, judged, flush) =>
           ~flush /\ closed.revision = retiring'.revision
    BY <2>1 DEF MustPublish
  <2> QED
    BY <2>1, <2>2, <1>2, <1>3, <1>11 DEF Outcome
<1> QED
  BY <1>12, <1>13

-----------------------------------------------------------------------------
(* Steps                                                                    *)

\* The variables after a step.
Becomes(g, u, v, q, c, f, r, waiting, s) ==
    /\ topology' = topology /\ graph' = g /\ twin' = u /\ Visible' = v /\ queue' = q
    /\ cut' = c /\ flushing' = f /\ retiring'.revision = r /\ call' = waiting
    /\ session' = s

\* The invariant holds in a next state whose parts are right.
LEMMA Assemble ==
    ASSUME NEW g, NEW u, NEW v, NEW q, NEW c, NEW f, NEW r, NEW waiting, NEW s,
           Topological, Becomes(g, u, v, q, c, f, r, waiting, s),
           InvAt(g, u, v, q, c, f, r, waiting, s),
           SnapshotTyped', seen' \in Nat, injected' \in BOOLEAN
    PROVE  GraphInv'
<1>1. Topological'
  BY DEF Becomes, Topological, IsTopology
<1>2. ResultOK(g)' /\ ResultOK(u)'
  BY DEF Becomes, InvAt, ResultOK, OutputsOK, FailedWhole, Outputs, Observables
<1>3. QueueAt(q, waiting)' /\ CutAt(c, f, q)'
  BY DEF Becomes, InvAt, QueueAt, CutAt
<1> QED
  BY <1>1, <1>2, <1>3 DEF Becomes, InvAt, GraphInv, ResultOK, OutputsOK, FailedWhole,
     Outputs, Observables, QueueAt, CutAt

\* What a reader gets never goes back within an epoch.
ReaderStep == Visible'.epoch = Visible.epoch => Advances(Visible, Visible')

\* A failure lasts for its epoch, and no request is answered with data.
LatchStep ==
    graph.status = "failed" /\ graph'.epoch = graph.epoch =>
        graph'.status = "failed" /\ (reply' = reply \/ reply'.data = {})

StepOK == GraphInv' /\ ReaderStep /\ LatchStep

\* A sequence is one of its own elements.
LEMMA SeqRange ==
    ASSUME NEW S, NEW s \in Seq(S)
    PROVE  s \in Seq(Range(s))
  BY DEF Range

\* capture_result_update() freezes the reader's result, or nothing.
LEMMA CaptureOK ==
    ASSUME NEW s, NEW v, SessionAt(s, v), v.completed \in Nat
    PROVE  /\ SessionAt(Capture(s, v), v)
           /\ v.status = "failed" => Capture(s, v).state = "failed"
  BY DEF SessionAt, Capture

\* A new round makes the session collect.
LEMMA CollectingOK ==
    ASSUME NEW v, SessionAt(session, v)
    PROVE  SessionAt(Collecting, v)
  BY DEF SessionAt, Collecting

\* What the session froze stays behind a result that grows.
LEMMA SessionLater ==
    ASSUME NEW s, NEW v, NEW w, SessionAt(s, v), Grows(v, w),
           v.completed \in Nat, w.completed \in Nat
    PROVE  SessionAt(s, w)
  BY DEF SessionAt, Grows

\* A reader's view of an unchanged graph is unchanged.
LEMMA VisibleSame ==
    ASSUME UNCHANGED <<topology, graph, snapshot>>
    PROVE  Visible' = Visible
  BY DEF Visible, Public

\* A result advances to itself.
LEMMA AdvancesSelf ==
    ASSUME NEW v, v.revision \in Nat, v.completed \in Nat
    PROVE  Advances(v, v)
  BY DEF Advances, Grows

\* A round that an asynchronous graph drops or any graph refuses, and FINAL's
\* return.
LEMMA IdleStep ==
    ASSUME GraphInv, NEW final,
           \/ topology.async /\ EnqueueDropped(final)
           \/ EnqueueRefused \/ FinalReturns
    PROVE  StepOK
<1>1. /\ UNCHANGED <<topology, graph, queue, cut, flushing, retiring, snapshot, twin,
                     injected>>
      /\ \/ call' = call /\ seen' = seen
         \/ call' = "idle" /\ queue = <<>> /\ seen' = twin.completed
  <2>1. CASE topology.async /\ EnqueueDropped(final)
    BY <2>1 DEF EnqueueDropped, Dropped, dispatcher
  <2>2. CASE EnqueueRefused
    BY <2>2 DEF EnqueueRefused, history, dispatcher
  <2>3. CASE FinalReturns
    BY <2>3 DEF FinalReturns, history, dispatcher
  <2> QED
    BY <2>1, <2>2, <2>3
<1>2. Visible' = Visible
  BY <1>1, VisibleSame
<1>3. /\ SessionAt(session, Visible) /\ Visible.completed \in Nat /\ Visible.revision \in Nat
      /\ ResultOK(graph) /\ ResultOK(twin)
      /\ InvAt(graph, twin, Visible, queue, cut, flushing, retiring.revision, call, session)
      /\ SnapshotTyped /\ seen \in Nat /\ injected \in BOOLEAN /\ Topological
  BY DEF GraphInv, InvAt, SnapshotAt
<1>4. ReaderStep
  BY <1>2, <1>3, AdvancesSelf DEF ReaderStep
<1>5. LatchStep
  BY <1>1 DEF LatchStep, EnqueueDropped, EnqueueRefused, FinalReturns, Usable, Reply
<1>6. SessionAt(session', Visible)
  <2>1. SessionAt(Collecting, Visible)
    BY <1>3, CollectingOK
  <2>2. SessionAt(Capture(Collecting, Visible), Visible)
    BY <1>3, <2>1, CaptureOK
  <2>3. SessionAt(Capture(session, Visible), Visible)
    BY <1>3, CaptureOK
  <2>4. SessionAt([session EXCEPT !.state = "failed"], Visible)
    BY <1>3 DEF SessionAt
  <2> QED
    BY <2>1, <2>2, <2>3, <2>4 DEF EnqueueDropped, EnqueueRefused, FinalReturns
<1>7. PICK s, w : session' = s /\ call' = w
  OBVIOUS
<1>8. QueueAt(queue, w) /\ EndAt(Visible, graph, queue, w)
  <2>1. CASE w = call
    BY <2>1, <1>3 DEF InvAt
  <2>2. CASE w = "idle" /\ queue = <<>>
    BY <2>2, <1>3 DEF InvAt, QueueAt, EndAt
  <2> QED
    BY <2>1, <2>2, <1>1, <1>7
<1>9. InvAt(graph, twin, Visible, queue, cut, flushing, retiring.revision, w, s)
  BY <1>3, <1>6, <1>7, <1>8 DEF InvAt
<1>10. Becomes(graph, twin, Visible, queue, cut, flushing, retiring.revision, w, s)
  BY <1>1, <1>2, <1>7 DEF Becomes
<1>11. SnapshotTyped' /\ seen' \in Nat /\ injected' \in BOOLEAN
  BY <1>1, <1>3 DEF SnapshotTyped, ResultOK
<1>12. GraphInv'
  BY <1>3, <1>9, <1>10, <1>11, Assemble
<1> QED
  BY <1>4, <1>5, <1>12 DEF StepOK

\* publish_async_stream_snapshot()
LEMMA VisiblePublished ==
    ASSUME topology' = topology, topology.async, SnapshotTyped, NEW t,
           snapshot' = Published(t)
    PROVE  Visible' = Public(t) /\ SnapshotTyped'
<1>1. snapshot'.result = Public(t) /\ snapshot'.valid = TRUE
      /\ DOMAIN snapshot' = {"result", "valid", "read"}
  BY DEF SnapshotTyped, Published
<1> QED
  BY <1>1 DEF Visible, SnapshotTyped

\* clear_corrections() and reset_decoder() replace the reader's result.
LEMMA VisibleReplaced ==
    ASSUME topology' = topology, SnapshotTyped, NEW t, graph' = t,
           snapshot' = Replaced(t)
    PROVE  Visible' = Public(t) /\ SnapshotTyped'
<1>1. snapshot'.read = Public(t) /\ snapshot'.valid = FALSE
      /\ DOMAIN snapshot' = {"result", "valid", "read"}
  BY DEF SnapshotTyped, Replaced
<1> QED
  BY <1>1 DEF Visible, SnapshotTyped, Public

\* A graph that advanced is shown to its reader.
LEMMA ShownOK ==
    ASSUME NEW v, NEW g, NEW t, NEW s, v.revision \in Nat, v.completed \in Nat,
           Advances(v, g), ResultOK(g), ResultOK(t), Advances(g, t), SessionAt(s, v)
    PROVE  LET w == Public(t)
           IN  /\ SnapshotAt(w, t, 0, FALSE, 0) /\ w.revision = t.revision
               /\ w.revision \in Nat /\ w.completed \in Nat
               /\ Advances(w, t) /\ Advances(v, w) /\ SessionAt(s, w)
<1> DEFINE w == Public(t)
<1>1. /\ w.revision = t.revision /\ w.completed = t.completed /\ w.epoch = t.epoch
      /\ Progress(w) = Progress(t)
  BY DEF Public, Progress
<1> HIDE DEF w
<1>2. w.revision \in Nat /\ w.completed \in Nat
  BY <1>1 DEF ResultOK
<1>3. Advances(w, t)
  BY <1>1, <1>2 DEF Advances, Grows
<1>4. Advances(v, t)
  BY AdvancesTrans DEF ResultOK
<1>5. Advances(v, w)
  BY <1>1, <1>4 DEF Advances, Grows
<1>6. SessionAt(s, w)
  BY <1>2, <1>5, SessionLater DEF Advances
<1>7. SnapshotAt(w, t, 0, FALSE, 0)
  BY <1>1, <1>2, <1>3 DEF SnapshotAt
<1> QED
  BY <1>1, <1>2, <1>3, <1>5, <1>6, <1>7 DEF w

\* A synchronous graph drops a round after FINAL: its result is otherwise left
\* as it was.
LEMMA DroppedStep ==
    ASSUME GraphInv, NEW final, ~topology.async, EnqueueDropped(final)
    PROVE  StepOK
<1> DEFINE t == [graph EXCEPT !.opDone = FALSE]
           u == [twin EXCEPT !.opDone = FALSE]
           w == Public(t)
<1>1. /\ ResultOK(graph) /\ ResultOK(twin) /\ Topological /\ SnapshotTyped
      /\ Visible.completed \in Nat /\ Visible.revision \in Nat /\ Advances(Visible, graph)
      /\ SessionAt(session, Visible) /\ seen \in Nat /\ injected \in BOOLEAN
      /\ QueueAt(queue, call) /\ CutAt(cut, flushing, queue)
  BY DEF GraphInv, InvAt, SnapshotAt
<1>2. /\ graph' = t /\ twin' = u /\ queue = <<>> /\ call = "idle" /\ graph.status # "failed"
      /\ UNCHANGED <<topology, queue, cut, flushing, retiring, snapshot, call, seen, injected>>
  BY DEF EnqueueDropped, Dropped, dispatcher, Usable
<1>3. /\ ResultOK(t) /\ ResultOK(u) /\ t.status = graph.status
      /\ t.revision = graph.revision /\ t.completed = graph.completed /\ t.epoch = graph.epoch
      /\ Progress(t) = Progress(graph)
  BY <1>1 DEF ResultOK, ResultFields, Progress, FailedWhole
<1>4. Visible' = w
  BY <1>2 DEF Visible, Public
<1>5. PICK s : session' = s /\ SessionAt(s, Visible)
  <2>1. SessionAt(Collecting, Visible)
    BY <1>1, CollectingOK
  <2>2. SessionAt(Capture(Collecting, Visible), Visible)
    BY <1>1, <2>1, CaptureOK
  <2> QED
    BY <2>1, <2>2 DEF EnqueueDropped
<1> HIDE DEF t, u
<1>6. Advances(graph, t)
  BY <1>1, <1>3 DEF Advances, Grows, ResultOK
<1>7. /\ w.revision = t.revision /\ w.revision \in Nat /\ w.completed \in Nat
      /\ Advances(w, t) /\ Advances(Visible, w) /\ SessionAt(s, w)
  <2>1. /\ Visible.revision \in Nat /\ Visible.completed \in Nat /\ Advances(Visible, graph)
        /\ ResultOK(graph) /\ ResultOK(t) /\ SessionAt(s, Visible)
    BY <1>1, <1>3, <1>5
  <2> QED
    BY ONLY <2>1, <1>6, ShownOK, Zenon DEF w
<1> HIDE DEF w
<1>8. cut = 0 /\ flushing = FALSE
  BY <1>1, <1>2 DEF CutAt
<1>9. SnapshotAt(w, t, cut, flushing, retiring.revision)
  BY <1>7, <1>8 DEF SnapshotAt
<1>10. EndAt(w, t, queue, call)
  BY <1>2, <1>3 DEF EndAt
<1>11. InvAt(t, u, w, queue, cut, flushing, retiring.revision, call, s)
  BY <1>1, <1>3, <1>7, <1>9, <1>10 DEF InvAt
<1>12. Becomes(t, u, w, queue, cut, flushing, retiring.revision, call, s)
  BY <1>2, <1>4, <1>5 DEF Becomes
<1>13. SnapshotTyped' /\ seen' \in Nat /\ injected' \in BOOLEAN
  BY <1>1, <1>2 DEF SnapshotTyped
<1>14. GraphInv'
  BY <1>1, <1>11, <1>12, <1>13, Assemble
<1>15. ReaderStep
  BY <1>4, <1>7 DEF ReaderStep
<1>16. LatchStep
  BY <1>2 DEF LatchStep
<1> QED
  BY <1>14, <1>15, <1>16 DEF StepOK

\* A context retires.
LEMMA ContextStep ==
    ASSUME GraphInv, queue # <<>>,
           UNCHANGED <<topology, twin, call, session, reply, seen, injected>>,
           NEW opens \in BOOLEAN, NEW closes \in BOOLEAN, NEW flush \in BOOLEAN,
           NEW t, graph' = t, Outcome(opens, closes, flush, t),
           NEW q, NEW c, NEW f, queue' = q, cut' = c, flushing' = f,
           opens <=> cut = 0 /\ ~flushing,
           t.status = "failed" => q = <<>> /\ c = 0 /\ f = FALSE,
           t.status # "failed" /\ closes => c = 0 /\ f = FALSE,
           t.status # "failed" /\ ~closes => (c > 0 \/ f) /\ q # <<>>,
           t.status # "failed" /\ q = <<>> /\ call = "final" => flush,
           QueueAt(q, call), CutAt(c, f, q)
    PROVE  StepOK
<1> DEFINE v == Visible
<1>1. /\ v.revision \in Nat /\ v.completed \in Nat /\ Advances(v, graph)
      /\ ResultOK(graph) /\ ResultOK(twin) /\ SessionAt(session, v)
      /\ SnapshotTyped /\ Topological /\ seen \in Nat /\ injected \in BOOLEAN
      /\ SnapshotAt(v, graph, cut, flushing, retiring.revision)
      /\ topology.async /\ graph.status # "failed" /\ cut \in Nat
  BY DEF GraphInv, InvAt, SnapshotAt, QueueAt, EndAt, CutAt
<1>2. ResultOK(t) /\ Advances(graph, t)
  BY DEF Outcome
<1>3. Advances(v, t)
  <2> HIDE DEF v
  <2> QED
    BY <1>1, <1>2, AdvancesTrans DEF ResultOK
<1>4. LatchStep
  BY <1>1 DEF LatchStep
<1>5. PICK r : retiring'.revision = r
  OBVIOUS
<1>6. ASSUME snapshot' = Published(t), c = 0, f = FALSE,
             t.status = "failed" => q = <<>>,
             q = <<>> /\ call = "final" => t.finalized \/ t.status = "failed"
      PROVE  StepOK
  <2> DEFINE w == Public(t)
  <2>1. Visible' = w /\ SnapshotTyped'
    BY <1>1, <1>6, VisiblePublished
  <2>2. /\ Advances(v, w) /\ SessionAt(session, w) /\ SnapshotAt(w, t, 0, FALSE, 0)
    <3> HIDE DEF v
    <3> QED
      BY <1>1, <1>2, ShownOK
  <2>3. EndAt(w, t, q, call)
    BY <1>6 DEF EndAt
  <2> HIDE DEF w
  <2>4. SnapshotAt(w, t, c, f, r)
    BY <2>2, <1>6 DEF SnapshotAt
  <2>5. InvAt(t, twin, w, q, c, f, r, call, session)
    BY <1>1, <1>2, <2>2, <2>3, <2>4 DEF InvAt
  <2>6. Becomes(t, twin, w, q, c, f, r, call, session)
    BY <1>5, <2>1 DEF Becomes
  <2>7. GraphInv'
    BY <1>1, <2>1, <2>5, <2>6, Assemble
  <2> QED
    BY <1>4, <2>1, <2>2, <2>7 DEF StepOK, ReaderStep
<1>7. ASSUME snapshot' = snapshot, t.status # "failed",
             q = <<>> => call # "final",
             c = 0 /\ f = FALSE => v.revision = t.revision,
             c > 0 \/ f => v.revision = r
      PROVE  StepOK
  <2>1. Visible' = v /\ SnapshotTyped'
    BY <1>1, <1>7 DEF Visible, SnapshotTyped
  <2> HIDE DEF v
  <2>2. SnapshotAt(v, t, c, f, r)
    BY <1>1, <1>3, <1>7 DEF SnapshotAt, CutAt
  <2>3. EndAt(v, t, q, call)
    BY <1>7 DEF EndAt
  <2>4. InvAt(t, twin, v, q, c, f, r, call, session)
    BY <1>1, <1>2, <2>2, <2>3 DEF InvAt
  <2>5. Becomes(t, twin, v, q, c, f, r, call, session)
    BY <1>5, <2>1 DEF Becomes
  <2>6. GraphInv'
    BY <1>1, <2>1, <2>4, <2>5, Assemble
  <2>7. ReaderStep
    BY <1>1, <2>1, AdvancesSelf DEF ReaderStep, v
  <2> QED
    BY <1>4, <2>6, <2>7 DEF StepOK
<1>8. CASE t.status = "failed"
  BY <1>8, <1>6 DEF Outcome
<1>9. CASE t.status # "failed"
  <2>1. r = IF opens THEN graph.revision ELSE retiring.revision
    BY <1>5, <1>9 DEF Outcome
  <2>2. v.revision = r
    BY <2>1, <1>1 DEF SnapshotAt, GraphInv, InvAt, CutAt
  <2>3. CASE closes
    <3>1. CASE snapshot' = Published(t)
      <4>1. q = <<>> /\ call = "final" => t.finalized
        BY <1>9 DEF Outcome
      <4> QED
        BY <3>1, <4>1, <1>6, <1>9, <2>3
    <3>2. CASE snapshot' = snapshot /\ ~flush /\ t.revision = retiring'.revision
      <4>1. q = <<>> => call # "final"
        BY <3>2, <1>9
      <4>2. v.revision = t.revision /\ c = 0 /\ f = FALSE
        BY <3>2, <2>2, <2>3, <1>5, <1>9
      <4> QED
        BY <3>2, <4>1, <4>2, <2>2, <1>7, <1>9
    <3> QED
      BY <2>3, <3>1, <3>2, <1>9 DEF Outcome
  <2>4. CASE ~closes
    <3>1. snapshot' = snapshot
      BY <2>4, <1>9 DEF Outcome
    <3>2. q # <<>> /\ ~(c = 0 /\ f = FALSE)
      BY <2>4, <1>9 DEF CutAt
    <3> QED
      BY <3>1, <3>2, <2>2, <1>7, <1>9
  <2> QED
    BY <2>3, <2>4
<1> QED
  BY <1>8, <1>9

\* Dropping the queue leaves a queue.
LEMMA QueueEmpty ==
    ASSUME NEW q, NEW w, QueueAt(q, w)
    PROVE  QueueAt(<<>>, w) /\ QueueAt(<<>>, "idle") /\ CutAt(0, FALSE, <<>>)
<1>1. <<>> \in Seq(Range(<<>>)) /\ Len(<<>>) = 0
  OBVIOUS
<1> QED
  BY <1>1, GraphAssumption DEF QueueAt, CutAt

\* Retired operations leave the front of the queue; FINAL's leaves last.
LEMMA QueueSuffix ==
    ASSUME NEW q, NEW w, QueueAt(q, w), NEW k \in 1..Len(q)
    PROVE  LET p == SubSeq(q, k + 1, Len(q))
           IN  QueueAt(p, w) /\ (p = <<>> /\ w = "final" => q[k].final)
<1> DEFINE p == SubSeq(q, k + 1, Len(q))
<1>1. PICK S : q \in Seq(S)
  BY DEF QueueAt
<1>2. /\ p \in Seq(S) /\ Len(p) = Len(q) - k
      /\ \A i \in 1..Len(p) : p[i] = q[k + i] /\ k + i \in 1..Len(q)
  BY <1>1
<1> HIDE DEF p
<1>3. p \in Seq(Range(p)) /\ Len(p) \in Nat /\ Len(q) \in Nat
  BY <1>1, <1>2, SeqRange
<1>4. \A i \in 1..Len(p) : OperationOK(p[i]) /\ (p[i].final => i = Len(p) /\ w = "final")
  BY <1>2, <1>3 DEF QueueAt
<1>5. p = <<>> \/ Len(p) \in 1..Len(p)
  BY <1>2, <1>3
<1>6. p # <<>> => p[Len(p)] = q[Len(q)]
  <2> SUFFICES ASSUME p # <<>> PROVE p[Len(p)] = q[Len(q)]
    OBVIOUS
  <2>1. p[Len(p)] = q[k + Len(p)] /\ k + Len(p) = Len(q)
    BY <1>2, <1>3, <1>5
  <2> QED
    BY <2>1
<1>7. q # <<>>
  BY <1>1
<1>8. QueueAt(p, w)
  <2>1. Len(p) <= MaxQueued
    BY <1>2, <1>3, GraphAssumption DEF QueueAt
  <2> QED
    BY <2>1, <1>3, <1>4, <1>6, <1>7 DEF QueueAt
<1>9. ASSUME p = <<>>, w = "final" PROVE q[k].final
  <2>1. k = Len(q)
    BY <1>9, <1>2, <1>3
  <2> QED
    BY <2>1, <1>7, <1>9 DEF QueueAt
<1> QED
  BY <1>8, <1>9 DEF p

\* A node throws.
LEMMA RecordFailsStep ==
    ASSUME GraphInv, RecordFails
    PROVE  StepOK
<1> DEFINE t == FailStreamingProgress(graph)
           opens == cut = 0 /\ ~flushing
<1>1. /\ ResultOK(graph) /\ QueueAt(queue, call) /\ queue # <<>>
      /\ graph.status # "failed"
  <2>1. queue # <<>>
    BY DEF RecordFails
  <2> QED
    BY <2>1 DEF GraphInv, InvAt, EndAt
<1>2. /\ graph' = t /\ snapshot' = Published(t)
      /\ UNCHANGED <<topology, twin, call, session, reply, seen, injected>>
      /\ queue' = <<>> /\ cut' = 0 /\ flushing' = FALSE
  BY DEF RecordFails, Fail, history
<1>3. /\ ResultOK(t) /\ Grows(graph, t) /\ t.status = "failed"
      /\ t.revision = graph.revision + 1
  BY <1>1, FailOK
<1>4. opens \in BOOLEAN
  BY DEF GraphInv, InvAt, CutAt
<1> HIDE DEF t
<1>5. Advances(graph, t)
  BY <1>1, <1>3 DEF Advances, ResultOK
<1>6. Outcome(opens, TRUE, FALSE, t)
  BY <1>2, <1>3, <1>5 DEF Outcome
<1>7. QueueAt(<<>>, call) /\ CutAt(0, FALSE, <<>>)
  BY <1>1, QueueEmpty
<1>8. opens <=> cut = 0 /\ ~flushing
  OBVIOUS
<1> HIDE DEF opens
<1> QED
  BY <1>1, <1>2, <1>3, <1>4, <1>6, <1>7, <1>8, ContextStep

\* What the three contexts start from.
LEMMA RetireFacts ==
    ASSUME GraphInv, queue # <<>>
    PROVE  /\ Topological /\ ResultOK(graph) /\ QueueAt(queue, call)
           /\ CutAt(cut, flushing, queue)
           /\ QueueAt(<<>>, call) /\ CutAt(0, FALSE, <<>>)
           /\ 1 \in 1..Len(queue) /\ OperationOK(queue[1])
           /\ topology.record \in Nat /\ cut \in Nat
<1>1. Topological /\ ResultOK(graph) /\ QueueAt(queue, call) /\ CutAt(cut, flushing, queue)
  BY DEF GraphInv, InvAt
<1>2. PICK S : queue \in Seq(S)
  BY <1>1 DEF QueueAt
<1>3. 1 \in 1..Len(queue)
  BY <1>2
<1> QED
  BY <1>1, <1>3, QueueEmpty DEF QueueAt, CutAt, Topological, IsTopology

\* A record of one operation, or of several.
LEMMA RetireRecordStep ==
    ASSUME GraphInv, RetireRecord
    PROVE  StepOK
<1>1. queue # <<>> /\ flushing = FALSE
      /\ (topology.record = 0 \/ queue[1].rounds <= topology.record)
  BY DEF RetireRecord, GraphInv, InvAt, CutAt
<1>2. PICK k \in Takes :
         /\ Retire([i \in 1 .. k |-> queue[i].body], TRUE, ~queue[k].final, FALSE)
         /\ flushing' = (queue[k].final /\ ~Failed)
         /\ queue' = IF Failed THEN <<>> ELSE IF queue[k].final THEN queue
                     ELSE SubSeq(queue, k + 1, Len(queue))
  BY DEF RetireRecord
<1>3. UNCHANGED <<topology, cut, twin, call, session, reply, seen, injected>>
  BY DEF RetireRecord, history
<1>4. /\ Topological /\ ResultOK(graph) /\ QueueAt(queue, call)
      /\ CutAt(cut, flushing, queue)
      /\ QueueAt(<<>>, call) /\ CutAt(0, FALSE, <<>>)
      /\ OperationOK(queue[1]) /\ topology.record \in Nat /\ cut \in Nat
  BY <1>1, RetireFacts
<1>5. cut = 0
  BY <1>1, <1>4 DEF CutAt, OperationOK
<1>6. k \in 1..Len(queue) /\ (k > 1 => ~queue[k].final)
  <2>1. k \in 1..Len(queue) /\ (k > 1 => \A i \in 1..k : ~queue[i].final)
    BY <1>2 DEF Takes
  <2>2. k \in 1..k
    BY <2>1
  <2> QED
    BY <2>1, <2>2
<1>7. queue[k].final \in BOOLEAN /\ (queue[k].final => k = 1)
  BY <1>4, <1>6 DEF QueueAt, OperationOK
<1> DEFINE ops == [i \in 1 .. k |-> queue[i].body]
           closes == ~queue[k].final
           p == SubSeq(queue, k + 1, Len(queue))
<1>8. ops \in Seq({queue[i].body : i \in 1..k}) /\ ops # <<>>
  <2>1. k \in Nat /\ k >= 1
    BY <1>6
  <2> QED
    BY <2>1
<1>9. closes \in BOOLEAN
  BY <1>7
<1>10. Retire(ops, TRUE, closes, FALSE)
  BY <1>2
<1>11. QueueAt(p, call) /\ (p = <<>> /\ call = "final" => ~closes)
  BY <1>4, <1>6, <1>7, QueueSuffix
<1> HIDE DEF ops
<1>12. PICK t : graph' = t /\ Outcome(TRUE, closes, FALSE, t)
  BY <1>4, <1>8, <1>9, <1>10, RetireOK
<1> DEFINE q == IF t.status = "failed" THEN <<>> ELSE IF ~closes THEN queue ELSE p
           f == ~closes /\ t.status # "failed"
<1>13. queue' = q /\ flushing' = f /\ cut' = 0
  BY <1>2, <1>3, <1>5, <1>7, <1>12 DEF Failed
<1> HIDE DEF p
<1>14. QueueAt(q, call)
  BY <1>4, <1>11
<1>15. CutAt(0, f, q)
  <2>1. CASE t.status = "failed"
    BY <2>1, <1>4
  <2>2. CASE t.status # "failed" /\ closes
    BY <2>2 DEF CutAt
  <2>3. CASE t.status # "failed" /\ ~closes
    BY <2>3, <1>1, <1>7 DEF CutAt
  <2> QED
    BY <2>1, <2>2, <2>3
<1>16. /\ t.status = "failed" => q = <<>> /\ f = FALSE
       /\ t.status # "failed" /\ closes => f = FALSE
       /\ t.status # "failed" /\ ~closes => f /\ q # <<>>
       /\ ~(t.status # "failed" /\ q = <<>> /\ call = "final")
  BY <1>1, <1>9, <1>11
<1> HIDE DEF q, f, closes
<1>17. UNCHANGED <<topology, twin, call, session, reply, seen, injected>>
  BY <1>3
<1> QED
  BY ZenonT(60), <1>1, <1>5, <1>9, <1>12, <1>13, <1>14, <1>15, <1>16, <1>17, ContextStep

\* A piece of an operation longer than a record.
LEMMA RetirePieceStep ==
    ASSUME GraphInv, RetirePiece
    PROVE  StepOK
<1> DEFINE op   == queue[1]
           next == cut + topology.record
           last == next >= op.rounds
           piece == Pieces(op)[cut \div topology.record + 1]
           opens == cut = 0
           closes == last /\ ~op.final
<1>1. /\ queue # <<>> /\ flushing = FALSE /\ topology.record # 0
      /\ op.rounds > topology.record
  BY DEF RetirePiece, GraphInv, InvAt, CutAt
<1>2. /\ Retire(<<piece>>, opens, closes, FALSE)
      /\ cut' = CutAfter(last, next)
      /\ flushing' = (last /\ op.final /\ ~Failed)
      /\ queue' = IF Failed THEN <<>>
                  ELSE IF last /\ ~op.final THEN Tail(queue) ELSE queue
  BY DEF RetirePiece
<1>3. UNCHANGED <<topology, twin, call, session, reply, seen, injected>>
  BY DEF RetirePiece, history
<1>4. /\ Topological /\ ResultOK(graph) /\ QueueAt(queue, call)
      /\ QueueAt(<<>>, call) /\ CutAt(0, FALSE, <<>>)
      /\ OperationOK(queue[1]) /\ topology.record \in Nat /\ cut \in Nat
      /\ 1 \in 1..Len(queue)
  BY <1>1, RetireFacts
<1>5. next \in Nat /\ next > 0 /\ last \in BOOLEAN /\ op.final \in BOOLEAN
  BY <1>1, <1>4 DEF OperationOK
<1> HIDE DEF next, last, piece
<1>6. opens \in BOOLEAN /\ closes \in BOOLEAN
  BY <1>5
<1> DEFINE p == Tail(queue)
<1>7. QueueAt(p, call) /\ (p = <<>> /\ call = "final" => op.final)
  <2>1. PICK S : queue \in Seq(S)
    BY <1>4 DEF QueueAt
  <2>2. p = SubSeq(queue, 1 + 1, Len(queue))
    BY <2>1, <1>4
  <2> QED
    BY <2>2, <1>4, QueueSuffix
<1> DEFINE ops == <<piece>>
<1>8. ops \in Seq({piece}) /\ ops # <<>>
  OBVIOUS
<1>9. Retire(ops, opens, closes, FALSE)
  BY <1>2
<1> HIDE DEF ops, p
<1>10. PICK t : graph' = t /\ Outcome(opens, closes, FALSE, t)
  BY <1>4, <1>6, <1>8, <1>9, RetireOK
<1> DEFINE q == IF t.status = "failed" THEN <<>> ELSE IF closes THEN p ELSE queue
           c == IF last \/ t.status = "failed" THEN 0 ELSE next
           f == last /\ op.final /\ t.status # "failed"
<1>11. queue' = q /\ flushing' = f /\ cut' = c
  BY <1>2, <1>10 DEF Failed, CutAfter, p
<1>12. QueueAt(q, call)
  BY <1>4, <1>7
<1>13. CutAt(c, f, q)
  <2>1. CASE t.status = "failed"
    BY <2>1, <1>4
  <2>2. CASE t.status # "failed" /\ closes
    BY <2>2, <1>5 DEF CutAt
  <2>3. CASE t.status # "failed" /\ ~closes
    BY <2>3, <1>1, <1>5 DEF CutAt
  <2> QED
    BY <2>1, <2>2, <2>3
<1>14. /\ t.status = "failed" => q = <<>> /\ c = 0 /\ f = FALSE
       /\ t.status # "failed" /\ closes => c = 0 /\ f = FALSE
       /\ t.status # "failed" /\ ~closes => (c > 0 \/ f) /\ q # <<>>
       /\ ~(t.status # "failed" /\ q = <<>> /\ call = "final")
  BY <1>1, <1>5, <1>7
<1>15. opens <=> cut = 0 /\ ~flushing
  BY <1>1
<1> HIDE DEF q, c, f, opens, closes
<1> QED
  BY ZenonT(60), <1>1, <1>3, <1>6, <1>10, <1>11, <1>12, <1>13, <1>14, <1>15, ContextStep

\* FINAL's flush.
LEMMA RetireFlushStep ==
    ASSUME GraphInv, RetireFlush
    PROVE  StepOK
<1>1. queue # <<>> /\ flushing = TRUE /\ cut = 0
  BY DEF RetireFlush, GraphInv, InvAt, CutAt
<1>2. /\ Retire(<<queue[1].flush>>, FALSE, TRUE, TRUE)
      /\ flushing' = FALSE /\ queue' = <<>> /\ cut' = 0
  BY <1>1 DEF RetireFlush
<1>3. UNCHANGED <<topology, twin, call, session, reply, seen, injected>>
  BY DEF RetireFlush, history
<1>4. /\ Topological /\ ResultOK(graph)
      /\ QueueAt(<<>>, call) /\ CutAt(0, FALSE, <<>>)
  BY <1>1, RetireFacts
<1> DEFINE ops == <<queue[1].flush>>
<1>5. ops \in Seq({queue[1].flush}) /\ ops # <<>>
  OBVIOUS
<1>6. Retire(ops, FALSE, TRUE, TRUE)
  BY <1>2
<1> HIDE DEF ops
<1>7. PICK t : graph' = t /\ Outcome(FALSE, TRUE, TRUE, t)
  BY <1>4, <1>5, <1>6, RetireOK
<1> QED
  BY <1>1, <1>2, <1>3, <1>4, <1>7, ContextStep

-----------------------------------------------------------------------------
(* The session                                                              *)

\* The pieces of an operation are a sequence.
LEMMA PiecesOK ==
    ASSUME Topological, NEW op, OperationOK(op)
    PROVE  \E S : Pieces(op) \in Seq(S)
<1>1. CASE topology.record = 0 \/ op.rounds <= topology.record
  <2>1. Pieces(op) = <<op.body>>
    BY <1>1 DEF Pieces
  <2>2. Pieces(op) \in Seq({op.body})
    BY <2>1
  <2> QED
    BY <2>2
<1>2. CASE ~(topology.record = 0 \/ op.rounds <= topology.record)
  <2> DEFINE n == (op.rounds + topology.record - 1) \div topology.record
             part(i) == SelectSeq(op.body, LAMBDA p : (p.at - 1) \div topology.record = i - 1)
  <2>1. n \in Nat
    <3>1. topology.record \in Nat /\ op.rounds \in Nat /\ topology.record > 0
      BY <1>2 DEF Topological, IsTopology, OperationOK
    <3> QED
      BY <3>1
  <2>2. Pieces(op) = [i \in 1..n |-> part(i)]
    BY <1>2 DEF Pieces
  <2> HIDE DEF n, part
  <2>3. Pieces(op) \in Seq({part(i) : i \in 1..n})
    BY <2>1, <2>2
  <2> QED
    BY <2>3
<1> QED
  BY <1>1, <1>2

\* A synchronous graph runs an operation.
LEMMA RanOK ==
    ASSUME NEW g, ResultOK(g), Topological, NEW op, OperationOK(op)
    PROVE  LET h == Ran(g, op)
           IN  ResultOK(h) /\ (g.status # "failed" => Advances(g, h))
<1> DEFINE a == FailStreamingProgress(g)
           b == ProcessStreamingRecord(g, Pieces(op), op.final, op.flush)
<1>0. Ran(g, op) = IF op.fails THEN Compose(a) ELSE b
  BY DEF Ran
<1>1. ResultOK(Compose(a)) /\ (g.status # "failed" => Advances(g, Compose(a)))
  <2>1. /\ ResultOK(a) /\ Grows(g, a)
        /\ g.status # "failed" => a.revision = g.revision + 1
    BY FailOK
  <2> HIDE DEF a
  <2>2. /\ ResultOK(Compose(a)) /\ Progress(Compose(a)) = Progress(a)
        /\ Compose(a).completed = a.completed
    BY <2>1, ComposeOK
  <2> QED
    BY <2>1, <2>2 DEF Advances, Grows, Progress, ResultOK
<1>2. ResultOK(b) /\ Advances(g, b)
  <2>1. PICK S : Pieces(op) \in Seq(S)
    BY PiecesOK
  <2> DEFINE pieces == Pieces(op)
  <2>2. pieces \in Seq(S)
    BY <2>1
  <2> HIDE DEF pieces
  <2>3. LET h == ProcessStreamingRecord(g, pieces, op.final, op.flush)
        IN  ResultOK(h) /\ Advances(g, h)
    BY <2>2, ProcessOK
  <2> QED
    BY <2>3 DEF pieces
<1> HIDE DEF a, b
<1> QED
  BY <1>0, <1>1, <1>2

\* An operation joins the queue.
LEMMA QueueAppend ==
    ASSUME QueueAt(queue, "idle"), Len(queue) < MaxQueued, topology.async,
           CutAt(cut, flushing, queue), NEW op, OperationOK(op)
    PROVE  LET q == Append(queue, op)
           IN  /\ QueueAt(q, IF op.final THEN "final" ELSE "idle")
               /\ CutAt(cut, flushing, q) /\ q # <<>>
<1> DEFINE q == Append(queue, op)
           w == IF op.final THEN "final" ELSE "idle"
<1>1. PICK S : queue \in Seq(S)
  BY DEF QueueAt
<1>2. Len(queue) \in Nat /\ MaxQueued \in Nat
  BY <1>1, GraphAssumption
<1>3. /\ q \in Seq(S \union {op}) /\ Len(q) = Len(queue) + 1 /\ q # <<>>
      /\ \A i \in 1..Len(queue) : q[i] = queue[i]
      /\ q[Len(queue) + 1] = op
      /\ queue # <<>> => 1 \in 1..Len(queue)
  <2>1. queue \in Seq(S \union {op})
    BY <1>1
  <2>2. q \in Seq(S \union {op}) /\ Len(q) = Len(queue) + 1 /\ q # <<>>
    BY <2>1
  <2>3. (\A i \in 1..Len(queue) : q[i] = queue[i]) /\ q[Len(queue) + 1] = op
    BY <2>1
  <2>4. queue # <<>> => 1 \in 1..Len(queue)
    BY <2>1
  <2> QED
    BY <2>2, <2>3, <2>4
<1> HIDE DEF q
<1>4. q \in Seq(Range(q))
  BY <1>3, SeqRange
<1>5. op.final \in BOOLEAN
  BY DEF OperationOK
<1>6. ASSUME NEW i \in 1..Len(q)
      PROVE  OperationOK(q[i]) /\ (q[i].final => i = Len(q) /\ w = "final")
  <2>1. CASE i \in 1..Len(queue)
    BY <2>1, <1>3 DEF QueueAt
  <2>2. CASE i = Len(queue) + 1
    BY <2>2, <1>3, <1>5
  <2> QED
    BY <2>1, <2>2, <1>2, <1>3
<1>7. w \in {"idle", "final"} /\ (w = "final" => q[Len(q)].final)
  BY <1>3, <1>5
<1> HIDE DEF w
<1>8. Len(q) <= MaxQueued
  BY <1>2, <1>3
<1>9. QueueAt(q, w)
  BY <1>4, <1>6, <1>7, <1>8 DEF QueueAt
<1>10. CutAt(cut, flushing, q)
  BY <1>3 DEF CutAt
<1> QED
  BY <1>3, <1>9, <1>10 DEF q, w

\* An operation is accepted: queued, or run at once.
LEMMA AcceptStep ==
    ASSUME GraphInv, NEW op, OperationOK(op), op.fails \in BOOLEAN,
           call = "idle", Usable, Len(queue) < MaxQueued, Accept(op),
           UNCHANGED <<topology, cut, flushing, retiring, snapshot>>
    PROVE  StepOK
<1> DEFINE v == Visible
<1>1. /\ v.revision \in Nat /\ v.completed \in Nat /\ Advances(v, graph)
      /\ ResultOK(graph) /\ ResultOK(twin) /\ SessionAt(session, v)
      /\ SnapshotTyped /\ Topological /\ seen \in Nat /\ injected \in BOOLEAN
      /\ SnapshotAt(v, graph, cut, flushing, retiring.revision)
      /\ QueueAt(queue, "idle") /\ CutAt(cut, flushing, queue)
      /\ graph.status # "failed"
  BY DEF GraphInv, InvAt, SnapshotAt, QueueAt, Usable
<1>2. LatchStep
  BY <1>1 DEF LatchStep
<1>3. /\ twin' = Ran(twin, op) /\ injected' \in BOOLEAN
  BY <1>1 DEF Accept
<1>4. PICK u : twin' = u /\ ResultOK(u)
  BY <1>1, <1>3, RanOK
<1>5. SnapshotTyped'
  BY <1>1 DEF SnapshotTyped
<1> DEFINE r == retiring.revision
<1>6. SessionAt(Collecting, v)
  BY <1>1, CollectingOK
<1>7. CASE topology.async
  <2> DEFINE t == [graph EXCEPT !.shotOpen = TRUE]
             q == Append(queue, op)
             w == IF op.final THEN "final" ELSE "idle"
             s == Collecting
  <2>1. graph' = t /\ queue' = q /\ call' = w /\ session' = s /\ seen' = seen
    BY <1>7 DEF Accept
  <2>2. ResultOK(t) /\ Advances(graph, t) /\ t.revision = graph.revision
        /\ t.status = graph.status
    BY <1>1 DEF ResultOK, ResultFields, FailedWhole, Advances, Grows, Progress
  <2>3. QueueAt(q, w) /\ CutAt(cut, flushing, q) /\ q # <<>>
    BY <1>1, <1>7, QueueAppend
  <2>4. Visible' = v
    BY <1>7 DEF Visible
  <2> HIDE DEF t, q, w, s, v
  <2>5. SnapshotAt(v, t, cut, flushing, r)
    <3>1. Advances(v, t)
      BY <1>1, <2>2, AdvancesTrans DEF ResultOK
    <3> QED
      BY <3>1, <1>1, <2>2 DEF SnapshotAt
  <2>6. EndAt(v, t, q, w)
    BY <2>2, <2>3, <1>1 DEF EndAt
  <2>7. InvAt(t, u, v, q, cut, flushing, r, w, s)
    BY <1>4, <1>6, <2>2, <2>3, <2>5, <2>6 DEF InvAt, s
  <2>8. Becomes(t, u, v, q, cut, flushing, r, w, s)
    BY <1>4, <2>1, <2>4 DEF Becomes
  <2>9. GraphInv'
    BY <1>1, <1>3, <1>5, <2>1, <2>7, <2>8, Assemble
  <2>10. ReaderStep
    BY <1>1, <2>4, AdvancesSelf DEF ReaderStep, v
  <2> QED
    BY <1>2, <2>9, <2>10 DEF StepOK
<1>8. CASE ~topology.async
  <2>1. queue = <<>> /\ cut = 0 /\ flushing = FALSE
    BY <1>8, <1>1 DEF QueueAt, CutAt
  <2>2. graph' = Ran(graph, op) /\ queue' = <<>> /\ call' = "idle"
    BY <1>8, <2>1 DEF Accept
  <2>3. PICK t : graph' = t /\ ResultOK(t) /\ Advances(graph, t)
    BY <1>1, <2>2, RanOK
  <2> DEFINE w == Public(t)
  <2>4. Visible' = w
    BY <1>8, <2>3 DEF Visible, Public
  <2>5. /\ Advances(v, w) /\ SessionAt(Collecting, w) /\ SnapshotAt(w, t, 0, FALSE, 0)
        /\ w.completed \in Nat
    <3> HIDE DEF v
    <3> QED
      BY <1>1, <1>6, <2>3, ShownOK
  <2>6. PICK s : session' = s /\ SessionAt(s, w)
    <3>1. session' = Capture(Collecting, Public(graph')) \/ session' = Collecting
      BY <1>8 DEF Accept
    <3>2. Public(graph') = w
      BY <2>3
    <3> HIDE DEF w
    <3>3. SessionAt(Capture(Collecting, w), w)
      BY <2>5, CaptureOK
    <3> QED
      BY <3>1, <3>2, <3>3, <2>5
  <2>7. seen' \in Nat
    BY <1>1, <1>4, <1>8 DEF Accept, ResultOK
  <2>8. QueueAt(<<>>, "idle") /\ CutAt(0, FALSE, <<>>)
    BY <1>1, QueueEmpty
  <2>9. EndAt(w, t, <<>>, "idle")
    BY DEF EndAt
  <2> HIDE DEF w, v, r
  <2>10. InvAt(t, u, w, <<>>, 0, FALSE, r, "idle", s)
    <3>1. SnapshotAt(w, t, 0, FALSE, r)
      BY <2>5 DEF SnapshotAt
    <3> QED
      BY <3>1, <1>4, <2>3, <2>6, <2>8, <2>9 DEF InvAt
  <2>11. Becomes(t, u, w, <<>>, 0, FALSE, r, "idle", s)
    BY <1>4, <2>1, <2>2, <2>3, <2>4, <2>6 DEF Becomes, r
  <2>12. GraphInv'
    BY <1>1, <1>3, <1>5, <2>7, <2>10, <2>11, Assemble
  <2> QED
    BY <1>2, <2>4, <2>5, <2>12 DEF StepOK, ReaderStep, v
<1> QED
  BY <1>7, <1>8

\* enqueue_core()
LEMMA EnqueueStep ==
    ASSUME GraphInv, Enqueues
    PROVE  StepOK
<1>0. PICK n \in topology.sizes, final \in BOOLEAN, fails \in BOOLEAN :
         \E late, commits : Enqueue(n, final, late, commits, fails)
  BY DEF Enqueues
<1>1. PICK late, commits : Enqueue(n, final, late, commits, fails)
  BY <1>0
<1>2. PICK op : op = Operation(n, final, late, commits, fails)
  OBVIOUS
<1>3. OperationOK(op) /\ op.fails \in BOOLEAN
  <2>1. n \in Nat
    BY DEF GraphInv, Topological, IsTopology
  <2>2. op.rounds = n /\ op.final = final /\ op.fails = fails
    BY <1>2 DEF Operation
  <2> QED
    BY <2>1, <2>2 DEF OperationOK
<1>4. /\ call = "idle" /\ Usable /\ Len(queue) < MaxQueued /\ Accept(op)
      /\ UNCHANGED <<topology, cut, flushing, retiring, snapshot>>
  BY <1>1, <1>2 DEF Enqueue, dispatcher
<1> QED
  BY <1>3, <1>4, AcceptStep

\* What a reader gets is replaced by the graph's own result, with nothing queued.
LEMMA ReplaceStep ==
    ASSUME GraphInv, NEW t, NEW u, NEW s,
           topology' = topology, graph' = t, twin' = u, session' = s,
           snapshot' = Replaced(t), queue' = <<>>, cut' = 0, flushing' = FALSE,
           retiring' = retiring, call' = "idle",
           ResultOK(t), ResultOK(u), SessionAt(s, Public(t)),
           seen' \in Nat, injected' \in BOOLEAN,
           Advances(graph, t) \/ t.epoch # graph.epoch
    PROVE  GraphInv' /\ ReaderStep
<1> DEFINE v == Visible
           w == Public(t)
           r == retiring.revision
<1>1. /\ v.revision \in Nat /\ v.completed \in Nat /\ Advances(v, graph)
      /\ ResultOK(graph) /\ QueueAt(queue, call) /\ SessionAt(session, v)
      /\ SnapshotTyped /\ Topological
  BY DEF GraphInv, InvAt, SnapshotAt
<1>2. Visible' = w /\ SnapshotTyped'
  BY <1>1, VisibleReplaced
<1>3. QueueAt(<<>>, "idle") /\ CutAt(0, FALSE, <<>>)
  BY <1>1, QueueEmpty
<1>4. EndAt(w, t, <<>>, "idle")
  BY DEF EndAt
<1>5. SnapshotAt(w, t, 0, FALSE, r)
  <2>1. /\ w.revision = t.revision /\ w.completed = t.completed /\ w.epoch = t.epoch
        /\ Progress(w) = Progress(t)
    BY DEF Public, Progress
  <2> HIDE DEF w, r
  <2> QED
    BY <2>1 DEF SnapshotAt, Advances, Grows, ResultOK
<1>6. w.epoch = t.epoch
  BY DEF Public
<1>7. t.epoch = graph.epoch => Advances(v, w)
  <2> HIDE DEF v
  <2> QED
    BY <1>1, ShownOK
<1>8. v.epoch = graph.epoch
  BY <1>1 DEF Advances, Grows
<1> HIDE DEF w, r
<1>9. InvAt(t, u, w, <<>>, 0, FALSE, r, "idle", s)
  BY <1>3, <1>4, <1>5 DEF InvAt, w
<1>10. Becomes(t, u, w, <<>>, 0, FALSE, r, "idle", s)
  BY <1>2 DEF Becomes, r
<1>11. GraphInv'
  BY <1>1, <1>2, <1>9, <1>10, Assemble
<1> QED
  BY <1>2, <1>6, <1>7, <1>8, <1>11 DEF ReaderStep

\* reset_decoder() starts a clean epoch.
LEMMA ResetStep ==
    ASSUME GraphInv, Reset
    PROVE  StepOK
<1>1. ResultOK(graph) /\ ResultOK(twin)
  BY DEF GraphInv, InvAt
<1>2. PICK e, d : e = graph.epoch + 1 /\ d = twin.epoch + 1
  OBVIOUS
<1>3. e \in Nat /\ d \in Nat /\ e # graph.epoch
  BY <1>1, <1>2 DEF ResultOK
<1> DEFINE t == Clean(e)
           u == Clean(d)
           s == [state |-> "collecting", frozen |-> Public(t)]
<1>4. ResultOK(t) /\ ResultOK(u) /\ t.epoch = e
  BY <1>3, CleanOK
<1>5. /\ topology' = topology /\ graph' = t /\ twin' = u /\ session' = s
      /\ snapshot' = Replaced(t) /\ queue' = <<>> /\ cut' = 0 /\ flushing' = FALSE
      /\ retiring' = retiring /\ call' = "idle" /\ seen' = 0 /\ injected' = FALSE
  BY <1>2 DEF Reset, FrozenAfterReset
<1> HIDE DEF t, u
<1>6. SessionAt(s, Public(t))
  <2>1. Public(t).completed = t.completed
    BY DEF Public
  <2> QED
    BY <2>1, <1>4 DEF SessionAt, ResultOK
<1> HIDE DEF s
<1>7. seen' \in Nat /\ injected' \in BOOLEAN /\ t.epoch # graph.epoch
  BY <1>3, <1>4, <1>5
<1>8. GraphInv' /\ ReaderStep
  BY <1>4, <1>5, <1>6, <1>7, ReplaceStep
<1>9. LatchStep
  BY <1>5, <1>7 DEF LatchStep
<1> QED
  BY <1>8, <1>9 DEF StepOK

\* A reset that fails hides the result and leaves the graph failed.
LEMMA HiddenOK ==
    ASSUME NEW g, ResultOK(g)
    PROVE  LET h == FailStreamingProgress(HideStreamingResult(g))
           IN  ResultOK(h) /\ Advances(g, h) /\ h.status = "failed"
<1> DEFINE a == HideStreamingResult(g)
           h == FailStreamingProgress(a)
<1>1. ResultOK(a) /\ Advances(g, a) /\ a.status = "pending" /\ a.revision = g.revision + 1
  BY HideOK
<1> HIDE DEF a
<1>2. /\ ResultOK(h) /\ Grows(a, h) /\ h.status = "failed" /\ h.revision = a.revision + 1
  BY <1>1, FailOK
<1> HIDE DEF h
<1>3. Advances(g, h)
  BY <1>1, <1>2 DEF Advances, Grows, ResultOK
<1> QED
  BY <1>2, <1>3 DEF h, a

\* A node's reset throws.
LEMMA ResetFailsStep ==
    ASSUME GraphInv, ResetFails
    PROVE  StepOK
<1> DEFINE t == FailStreamingProgress(HideStreamingResult(graph))
           u == FailStreamingProgress(HideStreamingResult(twin))
           s == [session EXCEPT !.state = "failed"]
           v == Visible
<1>1. /\ v.revision \in Nat /\ v.completed \in Nat /\ Advances(v, graph)
      /\ ResultOK(graph) /\ ResultOK(twin) /\ SessionAt(session, v) /\ seen \in Nat
  BY DEF GraphInv, InvAt, SnapshotAt
<1>2. ResultOK(t) /\ ResultOK(u) /\ Advances(graph, t)
  BY <1>1, HiddenOK
<1>3. /\ topology' = topology /\ graph' = t /\ twin' = u /\ session' = s
      /\ snapshot' = Replaced(t) /\ queue' = <<>> /\ cut' = 0 /\ flushing' = FALSE
      /\ retiring' = retiring /\ call' = "idle" /\ seen' = seen /\ injected' = TRUE
      /\ graph.status # "failed"
  BY DEF ResetFails
<1> HIDE DEF t, u
<1>4. SessionAt(s, v)
  BY <1>1 DEF SessionAt
<1>5. SessionAt(s, Public(t))
  <2> HIDE DEF v, s
  <2> QED
    BY <1>1, <1>2, <1>4, ShownOK
<1> HIDE DEF s
<1>6. seen' \in Nat /\ injected' \in BOOLEAN
  BY <1>1, <1>3
<1>7. GraphInv' /\ ReaderStep
  BY <1>2, <1>3, <1>5, <1>6, ReplaceStep
<1>8. LatchStep
  BY <1>3 DEF LatchStep
<1> QED
  BY <1>7, <1>8 DEF StepOK

\* read_result_core()
LEMMA ReadStep ==
    ASSUME GraphInv, NEW request, NEW wanted, NEW reset, Read(request, wanted, reset)
    PROVE  StepOK
<1> DEFINE v == Visible
           s == Capture(session, Visible)
           failed == [session EXCEPT !.state = "failed"]
           h == ConsumeStreamingResult(graph)
           k == ConsumeStreamingResult(twin)
           fresh == [state |-> "collecting", frozen |-> Public(h)]
<1>1. /\ v.revision \in Nat /\ v.completed \in Nat /\ Advances(v, graph)
      /\ ResultOK(graph) /\ ResultOK(twin) /\ SessionAt(session, v)
      /\ SnapshotTyped /\ Topological /\ injected \in BOOLEAN
      /\ InvAt(graph, twin, v, queue, cut, flushing, retiring.revision, call, session)
      /\ EndAt(v, graph, queue, call) /\ CutAt(cut, flushing, queue)
  BY DEF GraphInv, InvAt, SnapshotAt
<1>2. /\ call = "idle" /\ queue = <<>> /\ seen' = twin.completed
      /\ UNCHANGED <<topology, queue, cut, flushing, retiring, call, injected>>
  BY DEF Read, dispatcher
<1>3. cut = 0 /\ flushing = FALSE
  BY <1>1, <1>2 DEF CutAt
<1>4. SessionAt(s, v) /\ (v.status = "failed" => s.state = "failed")
  BY <1>1, CaptureOK
<1>5. SessionAt(failed, v)
  BY <1>1 DEF SessionAt
<1>6. seen' \in Nat /\ injected' \in BOOLEAN
  BY <1>1, <1>2 DEF ResultOK
<1>7. graph.status = "failed" => v.status = "failed"
  BY <1>1 DEF EndAt, Public
<1>8. \/ /\ UNCHANGED <<graph, twin, snapshot>>
         /\ session' = s \/ session' = failed
         /\ s.state # "failed" \/ reply'.data = {}
      \/ /\ graph' = h /\ twin' = k /\ snapshot' = Replaced(graph')
         /\ session' = [state |-> "collecting", frozen |-> Public(graph')]
         /\ s.state # "failed"
  <2>1. CASE s.state = "failed"
    BY <2>1 DEF Read, Reply
  <2>2. CASE s.state # "failed"
    BY <2>2 DEF Read, Consume
  <2> QED
    BY <2>1, <2>2
<1>9. CASE /\ UNCHANGED <<graph, twin, snapshot>>
           /\ session' = s \/ session' = failed
           /\ s.state # "failed" \/ reply'.data = {}
  <2>1. Visible' = v
    BY <1>2, <1>9, VisibleSame
  <2>2. LatchStep
    BY <1>4, <1>7, <1>9 DEF LatchStep
  <2> HIDE DEF v, s, failed
  <2>3. PICK x : session' = x /\ SessionAt(x, v)
    BY <1>4, <1>5, <1>9
  <2>4. InvAt(graph, twin, v, queue, cut, flushing, retiring.revision, call, x)
    BY <1>1, <2>3 DEF InvAt
  <2>5. Becomes(graph, twin, v, queue, cut, flushing, retiring.revision, call, x)
    BY <1>2, <1>9, <2>1, <2>3 DEF Becomes
  <2>6. SnapshotTyped'
    BY <1>1, <1>9 DEF SnapshotTyped
  <2>7. GraphInv'
    BY <1>1, <1>6, <2>4, <2>5, <2>6, Assemble
  <2>8. ReaderStep
    BY <1>1, <2>1, AdvancesSelf DEF ReaderStep, v
  <2> QED
    BY <2>2, <2>7, <2>8 DEF StepOK
<1>10. CASE /\ graph' = h /\ twin' = k /\ snapshot' = Replaced(graph')
            /\ session' = [state |-> "collecting", frozen |-> Public(graph')]
            /\ s.state # "failed"
  <2>1. ResultOK(h) /\ ResultOK(k) /\ Advances(graph, h)
    BY <1>1, ConsumeOK
  <2>2. graph' = h /\ twin' = k /\ snapshot' = Replaced(h) /\ session' = fresh
    BY <1>10
  <2>3. LatchStep
    BY <1>4, <1>7, <1>10 DEF LatchStep
  <2> HIDE DEF h, k, v, s
  <2>4. SessionAt(fresh, Public(h))
    <3>1. Public(h).completed = h.completed
      BY DEF Public
    <3> QED
      BY <3>1, <2>1 DEF SessionAt, ResultOK
  <2> HIDE DEF fresh
  <2>5. GraphInv' /\ ReaderStep
    BY <1>2, <1>3, <1>6, <2>1, <2>2, <2>4, ReplaceStep
  <2> QED
    BY <2>3, <2>5 DEF StepOK
<1> QED
  BY <1>8, <1>9, <1>10

-----------------------------------------------------------------------------
(* The theorems                                                             *)

\* A session starts with nothing accepted and nothing published.
LEMMA GraphInit ==
    ASSUME Init
    PROVE  GraphInv
<1> DEFINE g == Clean(0)
           w == Public(g)
<1>1. Topological
  BY GraphAssumption DEF Init, Topological
<1>2. ResultOK(g) /\ g.epoch = 0 /\ g.status = "pending"
  BY CleanOK
<1> HIDE DEF g
<1>3. /\ w.revision = g.revision /\ w.completed = g.completed /\ w.epoch = g.epoch
      /\ Progress(w) = Progress(g)
  BY DEF Public, Progress
<1>4. /\ graph = g /\ twin = g /\ queue = <<>> /\ cut = 0 /\ flushing = FALSE
      /\ snapshot = [result |-> w, valid |-> FALSE, read |-> w] /\ call = "idle"
      /\ session = [state |-> "collecting", frozen |-> w]
      /\ seen = 0 /\ injected = FALSE
  BY DEF Init, g
<1>5. Visible = w
  BY <1>4 DEF Visible
<1> HIDE DEF w
<1>6. SnapshotTyped
  BY <1>4 DEF SnapshotTyped
<1>7. SnapshotAt(w, g, 0, FALSE, retiring.revision)
  BY <1>2, <1>3 DEF SnapshotAt, Advances, Grows, ResultOK
<1>8. EndAt(w, g, <<>>, "idle")
  BY <1>2 DEF EndAt
<1>9. SessionAt([state |-> "collecting", frozen |-> w], w)
  BY <1>2, <1>3 DEF SessionAt, ResultOK
<1>10. QueueAt(<<>>, "idle") /\ CutAt(0, FALSE, <<>>)
  <2>1. <<>> \in Seq(Range(<<>>)) /\ Len(<<>>) = 0
    OBVIOUS
  <2> QED
    BY <2>1, GraphAssumption DEF QueueAt, CutAt
<1>11. InvAt(graph, twin, Visible, queue, cut, flushing, retiring.revision, call, session)
  BY <1>2, <1>4, <1>5, <1>7, <1>8, <1>9, <1>10 DEF InvAt
<1> QED
  BY <1>1, <1>4, <1>6, <1>11 DEF GraphInv

\* Every step keeps the invariant, and what a reader has seen.
LEMMA GraphNext ==
    ASSUME GraphInv, [Next]_vars
    PROVE  StepOK
<1>1. CASE Next
  <2>1. CASE Enqueues
    BY <2>1, EnqueueStep
  <2>2. CASE EnqueueRefused \/ FinalReturns \/ \E final \in BOOLEAN : EnqueueDropped(final)
    <3>1. CASE EnqueueRefused \/ FinalReturns
      BY <3>1, IdleStep
    <3>2. ASSUME NEW final \in BOOLEAN, EnqueueDropped(final) PROVE StepOK
      BY <3>2, IdleStep, DroppedStep
    <3> QED
      BY <2>2, <3>1, <3>2
  <2>3. CASE Reads
    BY <2>3, ReadStep DEF Reads
  <2>4. CASE RetireRecord
    BY <2>4, RetireRecordStep
  <2>5. CASE RetirePiece
    BY <2>5, RetirePieceStep
  <2>6. CASE RetireFlush
    BY <2>6, RetireFlushStep
  <2>7. CASE RecordFails
    BY <2>7, RecordFailsStep
  <2>8. CASE Reset
    BY <2>8, ResetStep
  <2>9. CASE ResetFails
    BY <2>9, ResetFailsStep
  <2> QED
    BY <1>1, <2>1, <2>2, <2>3, <2>4, <2>5, <2>6, <2>7, <2>8, <2>9 DEF Next
<1>2. CASE UNCHANGED vars
  <2>1. UNCHANGED <<topology, graph, queue, cut, flushing, retiring, snapshot, call,
                    session, reply, twin, seen, injected>>
    BY <1>2 DEF vars, dispatcher, history
  <2>2. Visible' = Visible
    BY <2>1, VisibleSame
  <2>3. /\ Topological /\ SnapshotTyped /\ seen \in Nat /\ injected \in BOOLEAN
        /\ InvAt(graph, twin, Visible, queue, cut, flushing, retiring.revision, call,
                 session)
        /\ Visible.revision \in Nat /\ Visible.completed \in Nat
    BY DEF GraphInv, InvAt, SnapshotAt
  <2>4. Becomes(graph, twin, Visible, queue, cut, flushing, retiring.revision, call,
                session)
    BY <2>1, <2>2 DEF Becomes
  <2>5. SnapshotTyped' /\ seen' \in Nat /\ injected' \in BOOLEAN
    BY <2>1, <2>3 DEF SnapshotTyped
  <2>6. GraphInv'
    BY <2>3, <2>4, <2>5, Assemble
  <2>7. ReaderStep /\ LatchStep
    BY <2>1, <2>2, <2>3, AdvancesSelf DEF ReaderStep, LatchStep
  <2> QED
    BY <2>6, <2>7 DEF StepOK
<1> QED
  BY <1>1, <1>2

\* The inductive invariant of the session and the graph's dispatcher.
THEOREM GraphInvariant == Spec => []GraphInv
<1>1. Init => GraphInv
  BY GraphInit
<1>2. GraphInv /\ [Next]_vars => GraphInv'
  BY GraphNext DEF StepOK
<1> QED
  BY <1>1, <1>2, PTL DEF Spec

\* Type correctness of the session around a graph: whatever is folded, retired,
\* consumed or failed, statuses, releases, the queue and the dispatcher's
\* position stay in range.
THEOREM GraphTyped == Spec => []TypeOK
<1>1. GraphInv => TypeOK
  BY DEF GraphInv, InvAt, ResultOK, OutputsOK, QueueAt, CutAt, SessionAt, TypeOK
<1> QED
  BY <1>1, GraphInvariant, PTL

\* A failure is latched and published as one (handle_async_stream_error): a
\* failed graph has dropped its queue, and a reader gets a result without a
\* readable output and without a released measurement.
FailureShown ==
    graph.status = "failed" =>
        /\ queue = <<>> /\ Visible = Public(graph)
        /\ Visible.released = {}
        /\ \A k \in Outputs : Visible.out[k].status = "failed"

\* handle_async_stream_error() and a failing reset leave a reader nothing but the
\* failure, in every reachable state (FailureShown).
THEOREM GraphFailureShown == Spec => []FailureShown
<1>1. GraphInv => FailureShown
  BY DEF GraphInv, InvAt, EndAt, ResultOK, FailedWhole, FailureShown, Public
<1> QED
  BY <1>1, GraphInvariant, PTL

\* When FINAL's enqueue is about to return, its flush has retired or the stream
\* has failed, and what the session captures is the graph's own result.
FinalAnswered ==
    call = "final" /\ queue = <<>> =>
        Visible = Public(graph) /\ (graph.finalized \/ graph.status = "failed")

\* enqueue_syndrome_async() returns from FINAL with the flushed result or with a
\* failure, and with nothing older (FinalAnswered).
THEOREM GraphFinalAnswered == Spec => []FinalAnswered
<1>1. GraphInv => FinalAnswered
  BY DEF GraphInv, InvAt, EndAt, FinalAnswered
<1> QED
  BY <1>1, GraphInvariant, PTL

\* retire_record_context() skips a publication only if the reader already has the
\* graph's progress, for an operation cut into any number of pieces or joined
\* with others (ProgressCurrent).
THEOREM GraphProgressCurrent == Spec => []ProgressCurrent
<1>1. GraphInv => ProgressCurrent
  BY DEF GraphInv, InvAt, SnapshotAt, Advances, ProgressCurrent
<1> QED
  BY <1>1, GraphInvariant, PTL

\* The session's frozen result is of the reader's epoch, and its count of
\* completed operations is never ahead: comparing the two (decode_target.h)
\* cannot hide a newer aggregate.
FrozenBehind == session.frozen.epoch = Visible.epoch
                /\ session.frozen.completed <= Visible.completed

\* capture_result_update() never compares with a result of another epoch or one
\* ahead of the reader's (FrozenBehind).
THEOREM GraphFrozenBehind == Spec => []FrozenBehind
<1>1. GraphInv => FrozenBehind
  BY DEF GraphInv, InvAt, SessionAt, FrozenBehind
<1> QED
  BY <1>1, GraphInvariant, PTL

\* Within an epoch a reader that polls sees the revision and the completed
\* operations only grow, and the revision names the progress: two results of
\* the same revision agree in every status, generation, range and release.
THEOREM GraphReaderMonotone == Spec => [][ReaderStep]_vars
<1>1. GraphInv /\ [Next]_vars => [ReaderStep]_vars
  BY GraphNext DEF StepOK
<1> QED
  BY <1>1, GraphInvariant, PTL DEF Spec

\* A failed graph stays failed until a reset opens a new epoch, and until then
\* no request is answered with data.
THEOREM GraphFailureLatched == Spec => [][LatchStep]_vars
<1>1. GraphInv /\ [Next]_vars => [LatchStep]_vars
  BY GraphNext DEF StepOK
<1> QED
  BY <1>1, GraphInvariant, PTL DEF Spec
=============================================================================
