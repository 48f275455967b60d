-------------------------- MODULE DecodingSession --------------------------
(***************************************************************************)
(* A decoding server session around a plain decoder: the RPC handlers of   *)
(* realtime/decoding-server-cqr/DecodingSession.cpp, the decode_target     *)
(* they work through, and the realtime half of the decoder base class      *)
(* (decoder.cpp) for a decoder without a streaming layout.                 *)
(*                                                                         *)
(* A session is served inline by one dispatcher thread, so a handler is    *)
(* one action.  A measurement is its number in the stream the client sent  *)
(* (a zero filled buffer holds 0); a detector is the set of measurements   *)
(* it was reduced from, and the accumulated corrections, which every       *)
(* decode flips, are the set of measurements decoded into them.            *)
(***************************************************************************)
EXTENDS Integers, Sequences, FiniteSets

CONSTANTS
    Volume,       \* num_msyn_per_decode: measurements per decode
    Reads,        \* measurement_to_detectors, in detector_ready_order: the
                  \* columns each detector reads
    MaxChunk,     \* bound: measurements of one request
    MaxSent       \* bound: measurements of one behaviour

Columns == 0 .. Volume - 1

\* columns_needed <= available: every column a detector reads has arrived.
Ready(k, available) == \A c \in Reads[k] : c < available

\* The decoder's constructor sorts the detectors by the columns they need.
ASSUME SessionAssumption ==
    /\ Volume \in Nat \ {0} /\ MaxChunk \in Nat \ {0} /\ MaxSent \in Nat
    /\ Reads \in Seq(SUBSET Columns)
    /\ \A j, k \in DOMAIN Reads, a \in 0 .. Volume :
         j <= k /\ Ready(k, a) => Ready(j, a)

VARIABLES
    \* the session
    shot_state, accepted_syndromes,
    \* the decoder: msyn_buffer, msyn_buffer_index, detector_ready_cursor,
    \* persistent_detector_buffer and corrections
    msyn_buffer, msyn_index, cursor, detectors, corrections,
    reply,        \* the last response: to which request, its status and data
    \* history: measurements handed to the decoder, those of earlier volumes,
    \* those already answered for or reset away, and the last decode's input
    sent, base, consumed, decoded

decoder == <<msyn_buffer, msyn_index, cursor, detectors, corrections>>
history == <<sent, base, consumed, decoded>>
vars    == <<shot_state, accepted_syndromes, decoder, reply, history>>

Zeros == [c \in Columns |-> 0]

Reply(request, status, data) ==
    reply' = [request |-> request, status |-> status, data |-> data]

Init ==
    /\ shot_state = "collecting" /\ accepted_syndromes = 0
    /\ msyn_buffer = Zeros /\ msyn_index = 0 /\ cursor = 0
    /\ detectors = [k \in DOMAIN Reads |-> {}] /\ corrections = {}
    /\ reply = [request |-> "none", status |-> "OK", data |-> {}]
    /\ sent = 0 /\ base = 0 /\ consumed = 0
    /\ decoded = {}

----------------------------------------------------------------------------
(* The decoder: enqueue_syndrome, clear_corrections, reset_decoder.        *)

\* memcpy of n measurements to the write index.
Copied(n) ==
    [c \in Columns |-> IF msyn_index <= c /\ c < msyn_index + n
                          THEN sent + 1 + (c - msyn_index) ELSE msyn_buffer[c]]

\* resolve_ready_detectors: where the cursor stops, ...
StopsAt(to, available) ==
    /\ \A k \in cursor + 1 .. to : Ready(k, available)
    /\ to < Len(Reads) => ~Ready(to + 1, available)

\* ... and the detectors once those it passed are reduced.
Resolved(buffer, to) ==
    [k \in DOMAIN Reads |->
        IF cursor < k /\ k <= to THEN {buffer[c] : c \in Reads[k]}
                                 ELSE detectors[k]]

\* Every observable the decode found flips its correction.
Flipped(buffer) ==
    LET volume == {buffer[c] : c \in Columns}
    IN  (corrections \ volume) \union (volume \ corrections)

\* "Syndrome buffer overflow. Syndrome will be ignored."
Overflows(n) == msyn_index + n > Volume

Fills(n) == msyn_index + n = Volume

\* The chunk is collected and the detectors that are ready are reduced.
Collect(n) ==
    \E to \in cursor .. Len(Reads) :
        /\ StopsAt(to, msyn_index + n)
        /\ msyn_buffer' = Copied(n)
        /\ detectors' = Resolved(Copied(n), to)
        /\ msyn_index' = msyn_index + n /\ cursor' = to
        /\ UNCHANGED corrections

\* The chunk completes the volume: decode it and start over.
Decode(n) ==
    \E to \in cursor .. Len(Reads) :
        /\ StopsAt(to, Volume)
        /\ msyn_buffer' = Copied(n)
        /\ detectors' = Resolved(Copied(n), to)
        /\ corrections' = Flipped(Copied(n))
        /\ msyn_index' = 0 /\ cursor' = 0

\* Mutant: reset_decoder keeps the cursor of a half collected volume.
ResetKeepsCursor ==
    /\ msyn_index' = 0 /\ msyn_buffer' = Zeros /\ corrections' = {}
    /\ UNCHANGED <<cursor, detectors>>

ResetDecoder ==
    /\ msyn_index' = 0 /\ cursor' = 0
    /\ msyn_buffer' = Zeros /\ corrections' = {}
    /\ UNCHANGED detectors

----------------------------------------------------------------------------
(* handle_enqueue and enqueue_core.                                        *)

\* Mutant: the budget ignores what the volume already holds.
FreshBudget(n) == n > Volume

\* chunk_limit against the measurements already accepted.
OverBudget(n) ==
    accepted_syndromes > Volume \/ n > Volume - accepted_syndromes

\* A request that does not parse, or whose syndrome mapping id is unknown.
RejectEnqueue ==
    /\ shot_state' = "failed"
    /\ Reply("enqueue", "BAD_REQUEST", {})
    /\ UNCHANGED <<accepted_syndromes, decoder, history>>

\* The device cannot be pinned, or the capture hook throws: the failure is
\* latched and the response is still OK.
EnqueueUnserved ==
    /\ shot_state' = "failed"
    /\ Reply("enqueue", "OK", {})
    /\ UNCHANGED <<accepted_syndromes, decoder, history>>

\* A failed shot takes nothing more.
EnqueueAfterFailure ==
    /\ shot_state = "failed"
    /\ Reply("enqueue", "OK", {})
    /\ UNCHANGED <<shot_state, accepted_syndromes, decoder, history>>

EnqueueOverBudget(n) ==
    /\ shot_state # "failed" /\ OverBudget(n)
    /\ shot_state' = "failed"
    /\ Reply("enqueue", "OK", {})
    /\ UNCHANGED <<accepted_syndromes, decoder, history>>

\* The chunk is collected; a chunk the decoder cannot hold, it ignores.
EnqueueCollected(n) ==
    /\ shot_state # "failed" /\ ~OverBudget(n) /\ ~Fills(n)
    /\ IF Overflows(n) THEN UNCHANGED decoder ELSE Collect(n)
    /\ shot_state' = "collecting"
    /\ accepted_syndromes' = accepted_syndromes + n
    /\ sent' = sent + n
    /\ Reply("enqueue", "OK", {})
    /\ UNCHANGED <<base, consumed, decoded>>

\* Mutant: a completed decode leaves the accepted count.
CountKept(n) == accepted_syndromes + n

\* A completed decode starts the count of the next volume.
CountAfterDecode(n) == 0

EnqueueDecoded(n) ==
    /\ shot_state # "failed" /\ ~OverBudget(n) /\ Fills(n)
    /\ Decode(n)
    /\ shot_state' = "result_ready"
    /\ accepted_syndromes' = CountAfterDecode(n)
    /\ sent' = sent + n /\ base' = sent + n
    /\ decoded' = {[base |-> base, input |-> detectors']}
    /\ Reply("enqueue", "OK", {})
    /\ UNCHANGED consumed

\* The decode throws: its volume stays in the buffers, the shot has failed.
EnqueueThrows(n) ==
    /\ shot_state # "failed" /\ ~OverBudget(n) /\ Fills(n)
    /\ Collect(n)
    /\ shot_state' = "failed"
    /\ accepted_syndromes' = accepted_syndromes + n
    /\ sent' = sent + n
    /\ decoded' = {[base |-> base, input |-> detectors']}
    /\ Reply("enqueue", "OK", {})
    /\ UNCHANGED <<base, consumed>>

HandleEnqueue(n) ==
    \/ EnqueueOverBudget(n)
    \/ sent + n <= MaxSent /\ EnqueueCollected(n)
    \/ sent + n <= MaxSent /\ EnqueueDecoded(n)
    \/ sent + n <= MaxSent /\ EnqueueThrows(n)

----------------------------------------------------------------------------
(* handle_get_corrections, handle_get_logical_measurements and             *)
(* read_result_core.                                                       *)

ResultRequests == {"get_corrections", "get_logical_measurements"}

Refuse(request, status) ==
    /\ Reply(request, status, {})
    /\ UNCHANGED <<shot_state, accepted_syndromes, decoder, history>>

\* A request that does not parse or asks for the wrong size; a plain decoder
\* has no logical measurements, so a request for them always does.
ReadRejected(request) == Refuse(request, "BAD_REQUEST")

ReadUnserved(request) ==
    /\ shot_state' = "failed"
    /\ Reply(request, "INTERNAL_ERROR", {})
    /\ UNCHANGED <<accepted_syndromes, decoder, history>>

ReadFailed(request) ==
    /\ shot_state = "failed"
    /\ Refuse(request, "INTERNAL_ERROR")

ReadNotReady ==
    /\ shot_state = "collecting"
    /\ Refuse("get_corrections", "NOT_READY")

\* The response slot is too small for the result: nothing is consumed.
ReadTooLarge ==
    /\ shot_state = "result_ready"
    /\ Refuse("get_corrections", "INTERNAL_ERROR")

\* Mutant: an accepted measurement leaves the old result readable.
ReadyAnyway == shot_state # "failed" /\ corrections # {}

ReadReady == shot_state = "result_ready"

\* The corrections are packed, then consumed when the request says reset.
ReadCorrections(reset) ==
    /\ ReadReady
    /\ Reply("get_corrections", "OK", corrections)
    /\ IF reset THEN /\ corrections' = {}
                     /\ shot_state' = "collecting"
                     /\ consumed' = sent
                ELSE UNCHANGED <<corrections, shot_state, consumed>>
    /\ UNCHANGED <<accepted_syndromes, msyn_buffer, msyn_index, cursor,
                   detectors, sent, base, decoded>>

----------------------------------------------------------------------------
(* handle_reset and reset_core.                                            *)

HandleReset ==
    /\ ResetDecoder
    /\ accepted_syndromes' = 0 /\ shot_state' = "collecting"
    /\ base' = sent /\ consumed' = sent
    /\ Reply("reset", "OK", {})
    /\ UNCHANGED <<sent, decoded>>

\* The device cannot be pinned: the decoder is not touched.
ResetUnserved ==
    /\ shot_state' = "failed"
    /\ Reply("reset", "INTERNAL_ERROR", {})
    /\ UNCHANGED <<accepted_syndromes, decoder, history>>

ResetRejected == Refuse("reset", "BAD_REQUEST")

----------------------------------------------------------------------------
Next ==
    \/ RejectEnqueue \/ EnqueueUnserved \/ EnqueueAfterFailure
    \/ \E n \in 1 .. MaxChunk : HandleEnqueue(n)
    \/ \E r \in ResultRequests : ReadRejected(r) \/ ReadUnserved(r) \/ ReadFailed(r)
    \/ ReadNotReady \/ ReadTooLarge
    \/ \E reset \in BOOLEAN : ReadCorrections(reset)
    \/ HandleReset \/ ResetUnserved \/ ResetRejected

Spec == Init /\ [][Next]_vars

----------------------------------------------------------------------------
(* Properties.                                                             *)

\* Type correctness; neither count exceeds a volume.
TypeOK ==
    /\ shot_state \in {"collecting", "result_ready", "failed"}
    /\ accepted_syndromes \in 0 .. Volume /\ msyn_index \in 0 .. Volume
    /\ cursor \in 0 .. Len(Reads)
    /\ msyn_buffer \in [Columns -> Nat]
    /\ detectors \in [DOMAIN Reads -> SUBSET Nat]
    /\ corrections \in SUBSET Nat
    /\ reply \in [request : {"none", "enqueue", "get_corrections",
                             "get_logical_measurements", "reset"},
                  status : {"OK", "BAD_REQUEST", "NOT_READY", "INTERNAL_ERROR"},
                  data : SUBSET Nat]
    /\ sent \in Nat /\ base \in Nat /\ consumed \in Nat
    /\ decoded \in SUBSET [base : Nat, input : [DOMAIN Reads -> SUBSET Nat]]

\* Nothing is dropped in silence: while the shot has not failed, the session's
\* count, the decoder's write index and what the client sent of this volume
\* agree, so the budget check of enqueue_core fires before the decoder's own
\* "Syndrome will be ignored", and never refuses a chunk that fits.
CountsAgree ==
    shot_state # "failed" =>
        accepted_syndromes = msyn_index /\ msyn_index = sent - base

\* The detectors of the volume that starts after measurement `start'.
Own(start) == [k \in DOMAIN Reads |-> {start + 1 + c : c \in Reads[k]}]

\* However a volume is chunked, and whatever failed or was reset half way
\* before it, a decode sees the detectors of its own volume and no "stale
\* values left over from the previous shot" (decoder.cpp, lines 518-519),
\* although reset_decoder leaves the detector buffer as it is.
DecodesOwnVolume == \A d \in decoded : d.input = Own(d.base)

\* Corrections that are handed out cover exactly what the client sent since it
\* last consumed or reset them: no volume is missing, none is counted twice or
\* left from before, and none is answered for while the next one has begun
\* ("the old correction vector must not be reported as the result of that
\* volume", enqueue_core).
ReadIsWhole ==
    [][reply'.request = "get_corrections" /\ reply'.status = "OK" =>
         reply'.data = consumed + 1 .. sent]_vars
============================================================================
