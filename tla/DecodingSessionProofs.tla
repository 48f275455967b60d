----------------------- MODULE DecodingSessionProofs -----------------------
(***************************************************************************)
(* The invariants of a decoder session, for every volume size, every       *)
(* measurement-to-detector map and every chunking of the stream.           *)
(***************************************************************************)
EXTENDS DecodingSession, TLAPS

\* While the shot has not failed: the buffer holds this volume's measurements
\* up to the write index, ...
BufferIsOwn ==
    \A c \in Columns : c < msyn_index => msyn_buffer[c] = base + 1 + c

\* ... the detectors behind the cursor are reduced from them, ...
ReducedAreOwn ==
    \A k \in DOMAIN Reads :
        k <= cursor => detectors[k] = {base + 1 + c : c \in Reads[k]}

\* ... and the corrections hold every volume since the last consumption.
CorrectionsCover == consumed <= base /\ corrections = consumed + 1 .. base

\* The inductive invariant: the counts agree, the volume is open (or just
\* decoded), and the decoder's buffers belong to it.
Live ==
    /\ accepted_syndromes = msyn_index /\ msyn_index = sent - base
    /\ msyn_index < Volume
    /\ shot_state = "result_ready" => msyn_index = 0
    /\ BufferIsOwn /\ ReducedAreOwn /\ CorrectionsCover

SessionInv ==
    /\ TypeOK
    /\ shot_state # "failed" => Live
    /\ DecodesOwnVolume

-----------------------------------------------------------------------------
\* What the memcpy leaves in the buffer: this volume's measurements up to the
\* new write index.
LEMMA CopiedIsOwn ==
    ASSUME TypeOK, Live, NEW n \in Nat \ {0}, msyn_index + n <= Volume
    PROVE  /\ Copied(n) \in [Columns -> Nat]
           /\ \A c \in Columns : c < msyn_index + n => Copied(n)[c] = base + 1 + c
  BY SessionAssumption DEF TypeOK, Live, BufferIsOwn, Copied, Columns

\* The detectors reduced so far, once the cursor has passed those that are
\* ready: all of this volume.
LEMMA ResolvedIsOwn ==
    ASSUME TypeOK, Live, NEW n \in Nat \ {0}, msyn_index + n <= Volume,
           NEW to \in cursor .. Len(Reads), StopsAt(to, msyn_index + n)
    PROVE  /\ Resolved(Copied(n), to) \in [DOMAIN Reads -> SUBSET Nat]
           /\ \A k \in DOMAIN Reads : k <= to =>
                Resolved(Copied(n), to)[k] = {base + 1 + c : c \in Reads[k]}
<1> DEFINE B == Copied(n)
<1>1. /\ B \in [Columns -> Nat]
      /\ \A c \in Columns : c < msyn_index + n => B[c] = base + 1 + c
  BY CopiedIsOwn
<1>2. \A k \in DOMAIN Reads : Reads[k] \subseteq Columns
  BY SessionAssumption
<1>3. DOMAIN Reads = 1 .. Len(Reads) /\ Len(Reads) \in Nat
  BY SessionAssumption
<1> HIDE DEF B
<1>4. Resolved(B, to) \in [DOMAIN Reads -> SUBSET Nat]
  BY <1>1, <1>2 DEF Resolved, TypeOK
<1>5. ASSUME NEW k \in DOMAIN Reads, k <= to
      PROVE  Resolved(B, to)[k] = {base + 1 + c : c \in Reads[k]}
  <2>1. CASE k <= cursor
    BY <2>1, <1>3 DEF Resolved, Live, ReducedAreOwn, TypeOK
  <2>2. CASE cursor < k
    <3>1. \A c \in Reads[k] : c < msyn_index + n
      BY <2>2, <1>3, <1>5 DEF StopsAt, Ready, TypeOK
    <3>2. \A c \in Reads[k] : B[c] = base + 1 + c
      BY <3>1, <1>1, <1>2
    <3>3. Resolved(B, to)[k] = {B[c] : c \in Reads[k]}
      BY <2>2, <1>5 DEF Resolved
    <3> QED BY <3>2, <3>3
  <2> QED BY <2>1, <2>2, <1>3 DEF TypeOK
<1> QED BY <1>4, <1>5 DEF B

\* At a full volume the cursor stops only behind the last detector.
LEMMA FullVolumeResolvesAll ==
    ASSUME TypeOK, NEW to \in cursor .. Len(Reads), StopsAt(to, Volume)
    PROVE  to = Len(Reads)
<1>1. DOMAIN Reads = 1 .. Len(Reads) /\ Len(Reads) \in Nat
  BY SessionAssumption
<1>2. \A k \in DOMAIN Reads : Ready(k, Volume)
  BY SessionAssumption DEF Ready, Columns
<1>3. cursor \in 0 .. Len(Reads)
  BY DEF TypeOK
<1>4. to < Len(Reads) => to + 1 \in DOMAIN Reads
  BY <1>1, <1>3
<1>5. ~(to < Len(Reads))
  BY <1>2, <1>4 DEF StopsAt
<1>6. Len(Reads) \in Nat /\ cursor \in Nat
  BY <1>1, <1>3
<1>7. to \in Int /\ to <= Len(Reads)
  BY <1>6
<1> QED BY <1>5, <1>6, <1>7

\* The input of a decode that completes the volume is the volume's own.
LEMMA DecodeInputIsOwn ==
    ASSUME TypeOK, Live, NEW n \in Nat \ {0}, Fills(n),
           NEW to \in cursor .. Len(Reads), StopsAt(to, Volume)
    PROVE  Resolved(Copied(n), to) = Own(base)
<1>0. msyn_index + n = Volume
  BY DEF Fills
<1>1. /\ Resolved(Copied(n), to) \in [DOMAIN Reads -> SUBSET Nat]
      /\ \A k \in DOMAIN Reads : k <= to =>
           Resolved(Copied(n), to)[k] = {base + 1 + c : c \in Reads[k]}
  BY ResolvedIsOwn, <1>0, SessionAssumption
<1>2. to = Len(Reads)
  BY FullVolumeResolvesAll
<1>3. \A k \in DOMAIN Reads : k <= to
  BY <1>2, SessionAssumption
<1> QED BY <1>1, <1>3 DEF Own

\* A decode folds its volume into the corrections once.
LEMMA DecodeExtends ==
    ASSUME TypeOK, Live, NEW n \in Nat \ {0}, Fills(n)
    PROVE  Flipped(Copied(n)) = consumed + 1 .. sent + n /\ consumed <= sent + n
<1> DEFINE B == Copied(n)
           V == {B[c] : c \in Columns}
<1>1. msyn_index + n = Volume /\ sent + n = base + Volume
  BY SessionAssumption DEF Fills, Live, TypeOK
<1>2. \A c \in Columns : B[c] = base + 1 + c
  BY <1>1, CopiedIsOwn, SessionAssumption DEF Columns
<1> HIDE DEF B
<1>3. V = base + 1 .. base + Volume
  <2>1. \A m \in base + 1 .. base + Volume :
           m - base - 1 \in Columns /\ m = base + 1 + (m - base - 1)
    BY SessionAssumption DEF Columns, TypeOK
  <2>2. \A c \in Columns : base + 1 + c \in base + 1 .. base + Volume
    BY SessionAssumption DEF Columns, TypeOK
  <2> QED BY <2>1, <2>2, <1>2
<1>4. Flipped(B) = (corrections \ V) \union (V \ corrections)
  BY DEF Flipped
<1> HIDE DEF V
<1>5. corrections = consumed + 1 .. base /\ consumed <= base
  BY DEF Live, CorrectionsCover
<1>6. (corrections \ V) \union (V \ corrections) = consumed + 1 .. base + Volume
  BY <1>3, <1>5, SessionAssumption DEF TypeOK
<1> QED BY <1>1, <1>4, <1>5, <1>6, SessionAssumption DEF B, TypeOK

-----------------------------------------------------------------------------
\* A session that has just been created satisfies the invariant.
LEMMA InitEstablishes == Init => SessionInv
<1> SUFFICES ASSUME Init PROVE SessionInv
  OBVIOUS
<1>1. TypeOK
  BY SessionAssumption DEF Init, TypeOK, Zeros
<1>2. Live
  BY SessionAssumption DEF Init, Live, BufferIsOwn, ReducedAreOwn,
     CorrectionsCover, Columns
<1>3. DecodesOwnVolume
  BY DEF Init, DecodesOwnVolume
<1> QED BY <1>1, <1>2, <1>3 DEF SessionInv

\* A chunk that does not fill the volume: it fits, and is collected.
LEMMA CollectedPreserves ==
    ASSUME SessionInv, NEW n \in Nat \ {0}, EnqueueCollected(n)
    PROVE  SessionInv'
<1>1. TypeOK /\ Live /\ DecodesOwnVolume
  BY DEF SessionInv, EnqueueCollected
<1>2. msyn_index + n < Volume
  BY <1>1, SessionAssumption DEF EnqueueCollected, OverBudget, Fills, Live, TypeOK
<1>3. Collect(n)
  BY <1>1, <1>2, SessionAssumption DEF EnqueueCollected, Overflows, TypeOK
<1>4. PICK to \in cursor .. Len(Reads) :
        /\ StopsAt(to, msyn_index + n)
        /\ msyn_buffer' = Copied(n)
        /\ detectors' = Resolved(Copied(n), to)
        /\ msyn_index' = msyn_index + n /\ cursor' = to
        /\ UNCHANGED corrections
  BY <1>3 DEF Collect
<1>5. /\ Copied(n) \in [Columns -> Nat]
      /\ \A c \in Columns : c < msyn_index + n => Copied(n)[c] = base + 1 + c
  BY <1>1, <1>2, CopiedIsOwn, SessionAssumption DEF TypeOK
<1>6. /\ Resolved(Copied(n), to) \in [DOMAIN Reads -> SUBSET Nat]
      /\ \A k \in DOMAIN Reads : k <= to =>
           Resolved(Copied(n), to)[k] = {base + 1 + c : c \in Reads[k]}
  BY <1>1, <1>2, <1>4, ResolvedIsOwn, SessionAssumption DEF TypeOK
<1>7. /\ sent' = sent + n /\ accepted_syndromes' = accepted_syndromes + n
      /\ shot_state' = "collecting"
      /\ UNCHANGED <<base, consumed, decoded, corrections>>
      /\ reply' = [request |-> "enqueue", status |-> "OK", data |-> {}]
  BY <1>4 DEF EnqueueCollected, Reply
<1>8. TypeOK'
  <2>1. cursor' \in 0 .. Len(Reads) /\ msyn_index' \in 0 .. Volume
        /\ accepted_syndromes' \in 0 .. Volume /\ sent' \in Nat
    BY <1>1, <1>2, <1>4, <1>7, SessionAssumption DEF TypeOK, Live
  <2> QED BY <1>1, <1>4, <1>5, <1>6, <1>7, <2>1 DEF TypeOK
<1>9. Live'
  <2>1. BufferIsOwn'
    BY <1>4, <1>5, <1>7 DEF BufferIsOwn
  <2>2. ReducedAreOwn'
    BY <1>4, <1>6, <1>7 DEF ReducedAreOwn
  <2>3. CorrectionsCover'
    BY <1>1, <1>7 DEF CorrectionsCover, Live
  <2>4. /\ accepted_syndromes' = msyn_index' /\ msyn_index' = sent' - base'
        /\ msyn_index' < Volume
    BY <1>1, <1>2, <1>4, <1>7, SessionAssumption DEF Live, TypeOK
  <2> QED BY <1>7, <2>1, <2>2, <2>3, <2>4 DEF Live
<1>10. DecodesOwnVolume'
  BY <1>1, <1>7 DEF DecodesOwnVolume, Own
<1> QED BY <1>8, <1>9, <1>10 DEF SessionInv

\* A chunk that completes the volume, decoded.
LEMMA DecodedPreserves ==
    ASSUME SessionInv, NEW n \in Nat \ {0}, EnqueueDecoded(n)
    PROVE  SessionInv'
<1>1. TypeOK /\ Live /\ DecodesOwnVolume /\ Fills(n)
  BY DEF SessionInv, EnqueueDecoded
<1>2. msyn_index + n = Volume /\ Decode(n)
  BY DEF EnqueueDecoded, Fills
<1>3. PICK to \in cursor .. Len(Reads) :
        /\ StopsAt(to, Volume)
        /\ msyn_buffer' = Copied(n)
        /\ detectors' = Resolved(Copied(n), to)
        /\ corrections' = Flipped(Copied(n))
        /\ msyn_index' = 0 /\ cursor' = 0
  BY <1>2 DEF Decode
<1>4. Copied(n) \in [Columns -> Nat]
  BY <1>1, <1>2, CopiedIsOwn, SessionAssumption
<1>5. Resolved(Copied(n), to) = Own(base)
  BY <1>1, <1>3, DecodeInputIsOwn
<1>6. Flipped(Copied(n)) = consumed + 1 .. sent + n /\ consumed <= sent + n
  BY <1>1, DecodeExtends
<1>7. /\ sent' = sent + n /\ base' = sent + n /\ accepted_syndromes' = 0
      /\ shot_state' = "result_ready"
      /\ decoded' = {[base |-> base, input |-> detectors']}
      /\ UNCHANGED consumed
      /\ reply' = [request |-> "enqueue", status |-> "OK", data |-> {}]
  BY DEF EnqueueDecoded, Reply, CountAfterDecode
<1>8. Own(base) \in [DOMAIN Reads -> SUBSET Nat]
  BY <1>1, SessionAssumption DEF Own, TypeOK, Columns
<1>9. TypeOK'
  <2>1. sent' \in Nat /\ base' \in Nat /\ corrections' \in SUBSET Nat
        /\ Len(Reads) \in Nat
    BY <1>1, <1>3, <1>6, <1>7, SessionAssumption DEF TypeOK
  <2> QED BY <1>1, <1>3, <1>4, <1>5, <1>7, <1>8, <2>1, SessionAssumption DEF TypeOK
<1>10. Live'
  <2>1. BufferIsOwn'
    BY <1>3, SessionAssumption DEF BufferIsOwn, Columns
  <2>2. ReducedAreOwn'
    BY <1>3, SessionAssumption DEF ReducedAreOwn
  <2>3. CorrectionsCover'
    BY <1>3, <1>6, <1>7 DEF CorrectionsCover
  <2> QED BY <1>1, <1>3, <1>7, <2>1, <2>2, <2>3, SessionAssumption DEF Live, TypeOK
<1>11. DecodesOwnVolume'
  BY <1>3, <1>5, <1>7 DEF DecodesOwnVolume, Own
<1> QED BY <1>9, <1>10, <1>11 DEF SessionInv

\* A chunk that completes the volume, whose decode throws.
LEMMA ThrowPreserves ==
    ASSUME SessionInv, NEW n \in Nat \ {0}, EnqueueThrows(n)
    PROVE  SessionInv'
<1>1. TypeOK /\ Live /\ DecodesOwnVolume /\ Fills(n) /\ Collect(n)
  BY DEF SessionInv, EnqueueThrows
<1>2. msyn_index + n = Volume
  BY <1>1 DEF Fills
<1>3. PICK to \in cursor .. Len(Reads) :
        /\ StopsAt(to, msyn_index + n)
        /\ msyn_buffer' = Copied(n)
        /\ detectors' = Resolved(Copied(n), to)
        /\ msyn_index' = msyn_index + n /\ cursor' = to
        /\ UNCHANGED corrections
  BY <1>1 DEF Collect
<1>4. Copied(n) \in [Columns -> Nat]
  BY <1>1, <1>2, CopiedIsOwn, SessionAssumption
<1>5. Resolved(Copied(n), to) = Own(base)
  BY <1>1, <1>2, <1>3, DecodeInputIsOwn
<1>6. /\ sent' = sent + n /\ accepted_syndromes' = accepted_syndromes + n
      /\ shot_state' = "failed"
      /\ decoded' = {[base |-> base, input |-> detectors']}
      /\ UNCHANGED <<base, consumed, corrections>>
      /\ reply' = [request |-> "enqueue", status |-> "OK", data |-> {}]
  BY <1>3 DEF EnqueueThrows, Reply
<1>7. Own(base) \in [DOMAIN Reads -> SUBSET Nat]
  BY <1>1, SessionAssumption DEF Own, TypeOK, Columns
<1>8. TypeOK'
  <2>1. cursor' \in 0 .. Len(Reads) /\ msyn_index' \in 0 .. Volume
        /\ accepted_syndromes' \in 0 .. Volume /\ sent' \in Nat
    BY <1>1, <1>2, <1>3, <1>6, SessionAssumption DEF TypeOK, Live
  <2> QED BY <1>1, <1>3, <1>4, <1>5, <1>6, <1>7, <2>1 DEF TypeOK
<1>9. DecodesOwnVolume'
  BY <1>3, <1>5, <1>6 DEF DecodesOwnVolume, Own
<1> QED BY <1>6, <1>8, <1>9 DEF SessionInv

\* Nothing but the response, or a latched failure.
LEMMA RefusalPreserves ==
    ASSUME SessionInv,
           UNCHANGED <<accepted_syndromes, decoder, history>>,
           shot_state' \in {shot_state, "failed"},
           reply' \in [request : {"enqueue", "get_corrections",
                                 "get_logical_measurements", "reset"},
                      status : {"OK", "BAD_REQUEST", "NOT_READY", "INTERNAL_ERROR"},
                      data : SUBSET Nat]
    PROVE  SessionInv'
<1> USE DEF decoder, history
<1>1. TypeOK'
  BY DEF SessionInv, TypeOK
<1>2. shot_state' # "failed" => Live'
  BY DEF SessionInv, Live, BufferIsOwn, ReducedAreOwn, CorrectionsCover
<1>3. DecodesOwnVolume'
  BY DEF SessionInv, DecodesOwnVolume, Own
<1> QED BY <1>1, <1>2, <1>3 DEF SessionInv

\* A get_corrections call, consuming or not, keeps the invariant.
LEMMA ReadPreserves ==
    ASSUME SessionInv, NEW reset \in BOOLEAN, ReadCorrections(reset)
    PROVE  SessionInv'
<1>1. TypeOK /\ Live /\ DecodesOwnVolume /\ shot_state = "result_ready"
  BY DEF SessionInv, ReadCorrections, ReadReady
<1>2. UNCHANGED <<accepted_syndromes, msyn_buffer, msyn_index, cursor, detectors,
                  sent, base, decoded>>
  BY DEF ReadCorrections
<1>3. /\ reply' = [request |-> "get_corrections", status |-> "OK",
                   data |-> corrections]
      /\ \/ /\ corrections' = {} /\ shot_state' = "collecting" /\ consumed' = sent
         \/ UNCHANGED <<corrections, shot_state, consumed>>
  BY DEF ReadCorrections, Reply
<1>4. TypeOK'
  BY <1>1, <1>2, <1>3 DEF TypeOK
<1>5. BufferIsOwn' /\ ReducedAreOwn'
  BY <1>1, <1>2 DEF Live, BufferIsOwn, ReducedAreOwn
<1>6. sent = base
  BY <1>1, SessionAssumption DEF Live, TypeOK
<1>7. CorrectionsCover'
  <2>1. CASE UNCHANGED <<corrections, shot_state, consumed>>
    BY <1>1, <1>2, <2>1 DEF Live, CorrectionsCover
  <2>2. CASE corrections' = {} /\ consumed' = sent
    <3>1. sent \in Nat /\ base' = sent
      BY <1>1, <1>2, <1>6 DEF TypeOK
    <3>2. sent + 1 .. sent = {}
      BY <3>1
    <3> QED BY <2>2, <3>1, <3>2 DEF CorrectionsCover
  <2> QED BY <1>3, <2>1, <2>2
<1>8. Live'
  BY <1>1, <1>2, <1>3, <1>5, <1>7 DEF Live
<1>9. DecodesOwnVolume'
  BY <1>1, <1>2 DEF DecodesOwnVolume, Own
<1> QED BY <1>4, <1>8, <1>9 DEF SessionInv

\* reset_decoder keeps the invariant.
LEMMA ResetPreserves ==
    ASSUME SessionInv, HandleReset PROVE SessionInv'
<1>1. TypeOK /\ DecodesOwnVolume
  BY DEF SessionInv
<1>2. /\ msyn_index' = 0 /\ cursor' = 0 /\ msyn_buffer' = Zeros
      /\ corrections' = {} /\ accepted_syndromes' = 0
      /\ shot_state' = "collecting" /\ base' = sent /\ consumed' = sent
      /\ reply' = [request |-> "reset", status |-> "OK", data |-> {}]
      /\ UNCHANGED <<detectors, sent, decoded>>
  BY DEF HandleReset, ResetDecoder, Reply
<1>3. TypeOK'
  BY <1>1, <1>2, SessionAssumption DEF TypeOK, Zeros
<1>4. Live'
  BY <1>1, <1>2, SessionAssumption DEF Live, BufferIsOwn, ReducedAreOwn,
     CorrectionsCover, Columns, TypeOK
<1>5. DecodesOwnVolume'
  BY <1>1, <1>2 DEF DecodesOwnVolume, Own
<1> QED BY <1>3, <1>4, <1>5 DEF SessionInv

\* Every request keeps the invariant.
LEMMA NextPreserves == SessionInv /\ [Next]_vars => SessionInv'
<1> SUFFICES ASSUME SessionInv, [Next]_vars PROVE SessionInv'
  OBVIOUS
<1>1. CASE \E n \in 1 .. MaxChunk : HandleEnqueue(n)
  <2> PICK n \in 1 .. MaxChunk : HandleEnqueue(n)
    BY <1>1
  <2> n \in Nat \ {0}
    BY SessionAssumption
  <2>1. CASE EnqueueOverBudget(n)
    BY <2>1, RefusalPreserves DEF EnqueueOverBudget, Reply
  <2>2. CASE EnqueueCollected(n)
    BY <2>2, CollectedPreserves
  <2>3. CASE EnqueueDecoded(n)
    BY <2>3, DecodedPreserves
  <2>4. CASE EnqueueThrows(n)
    BY <2>4, ThrowPreserves
  <2> QED BY <2>1, <2>2, <2>3, <2>4 DEF HandleEnqueue
<1>2. CASE RejectEnqueue \/ EnqueueUnserved \/ EnqueueAfterFailure
  BY <1>2, RefusalPreserves DEF RejectEnqueue, EnqueueUnserved,
     EnqueueAfterFailure, Reply
<1>3. CASE \/ \E r \in ResultRequests :
                  ReadRejected(r) \/ ReadUnserved(r) \/ ReadFailed(r)
           \/ ReadNotReady \/ ReadTooLarge
  BY <1>3, RefusalPreserves DEF ResultRequests, ReadRejected, ReadUnserved,
     ReadFailed, ReadNotReady, ReadTooLarge, Refuse, Reply
<1>4. CASE \E reset \in BOOLEAN : ReadCorrections(reset)
  BY <1>4, ReadPreserves
<1>5. CASE ResetUnserved \/ ResetRejected
  BY <1>5, RefusalPreserves DEF ResetUnserved, ResetRejected, Refuse, Reply
<1>6. CASE HandleReset
  BY <1>6, ResetPreserves
<1>7. CASE UNCHANGED vars
  <2>1. UNCHANGED <<shot_state, accepted_syndromes, msyn_buffer, msyn_index,
                    cursor, detectors, corrections, reply, sent, base, consumed,
                    decoded>>
    BY <1>7 DEF vars, decoder, history
  <2>2. TypeOK'
    BY <2>1 DEF SessionInv, TypeOK
  <2>3. shot_state' # "failed" => Live'
    BY <2>1 DEF SessionInv, Live, BufferIsOwn, ReducedAreOwn, CorrectionsCover
  <2>4. DecodesOwnVolume'
    BY <2>1 DEF SessionInv, DecodesOwnVolume, Own
  <2> QED BY <2>2, <2>3, <2>4 DEF SessionInv
<1> QED BY <1>1, <1>2, <1>3, <1>4, <1>5, <1>6, <1>7 DEF Next

\* The inductive invariant holds in every reachable state of the session.
THEOREM SessionInvariant == Spec => []SessionInv
  BY InitEstablishes, NextPreserves, PTL DEF Spec

\* Every variable keeps its type; neither count ever exceeds the volume that
\* the decoder's buffer holds (enqueue_core's budget check).
THEOREM SessionTypeCorrect == Spec => []TypeOK
<1>1. SessionInv => TypeOK
  BY DEF SessionInv
<1> QED BY <1>1, SessionInvariant, PTL

\* The session's count, the decoder's write index and the client's stream
\* agree until a failure is latched: no chunk is ignored in silence.
THEOREM SessionCountsAgree == Spec => []CountsAgree
<1>1. SessionInv => CountsAgree
  BY DEF SessionInv, CountsAgree, Live
<1> QED BY <1>1, SessionInvariant, PTL

\* Every decode, whatever came before it, reads the detectors of its own
\* volume (resolve_ready_detectors with a cursor that survives nothing).
THEOREM SessionDecodesOwnVolume == Spec => []DecodesOwnVolume
<1>1. SessionInv => DecodesOwnVolume
  BY DEF SessionInv
<1> QED BY <1>1, SessionInvariant, PTL

\* Corrections answered with OK cover exactly the measurements sent since they
\* were last consumed or reset (read_result_core).
THEOREM SessionReadIsWhole == Spec => ReadIsWhole
<1> DEFINE Answer == reply'.request = "get_corrections" /\ reply'.status = "OK"
                       => reply'.data = consumed + 1 .. sent
<1>1. ASSUME SessionInv, [Next]_vars PROVE [Answer]_vars
  <2>1. CASE \E reset \in BOOLEAN : ReadCorrections(reset)
    <3>1. Live /\ shot_state = "result_ready" /\ TypeOK
      BY <1>1, <2>1 DEF SessionInv, ReadCorrections, ReadReady
    <3>2. reply' = [request |-> "get_corrections", status |-> "OK",
                    data |-> corrections]
      BY <2>1 DEF ReadCorrections, Reply
    <3>3. corrections = consumed + 1 .. sent
      BY <3>1, SessionAssumption DEF Live, CorrectionsCover, TypeOK
    <3> QED BY <3>2, <3>3
  <2>2. CASE \/ \E r \in ResultRequests :
                    ReadRejected(r) \/ ReadUnserved(r) \/ ReadFailed(r)
             \/ ReadNotReady \/ ReadTooLarge
    BY <2>2 DEF ReadRejected, ReadUnserved, ReadFailed, ReadNotReady,
       ReadTooLarge, Refuse, Reply
  <2>3. CASE RejectEnqueue \/ EnqueueUnserved \/ EnqueueAfterFailure
             \/ HandleReset \/ ResetUnserved \/ ResetRejected
    BY <2>3 DEF RejectEnqueue, EnqueueUnserved, EnqueueAfterFailure,
       HandleReset, ResetUnserved, ResetRejected, Refuse, Reply
  <2>4. CASE \E n \in 1 .. MaxChunk : HandleEnqueue(n)
    BY <2>4 DEF HandleEnqueue, EnqueueOverBudget, EnqueueCollected,
       EnqueueDecoded, EnqueueThrows, Reply
  <2>5. CASE UNCHANGED vars
    BY <2>5
  <2> QED BY <1>1, <2>1, <2>2, <2>3, <2>4, <2>5 DEF Next
<1> QED BY <1>1, SessionInvariant, PTL DEF Spec, ReadIsWhole
=============================================================================
