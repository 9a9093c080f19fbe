--------------------------- MODULE StreamsProofs ----------------------------
(*****************************************************************************)
(* Proofs about the streams of the data access layer and about the event     *)
(* bus, for any requests, events, capacities, readers and handlers.  The     *)
(* modules of MCStreams share no state, so each has invariants of its own.   *)
(*****************************************************************************)
EXTENDS MCStreams, SequenceTheorems, FiniteSetTheorems, TLAPS

-----------------------------------------------------------------------------
(***************************************************************************)
(* How a request moves from one sequence to the next.                      *)
(***************************************************************************)

\* Taking the head of one sequence to the end of the one before it changes
\* nothing of the two together.
LEMMA HeadMoves ==
  ASSUME NEW S, NEW s \in Seq(S), NEW t \in Seq(S), t # <<>>
  PROVE  Append(s, Head(t)) \o Tail(t) = s \o t
<1>1. /\ Head(t) \in S
      /\ Tail(t) \in Seq(S)
      /\ Head(t) = t[1]
      /\ Len(Tail(t)) = Len(t) - 1
      /\ \A i \in 1 .. Len(Tail(t)) : Tail(t)[i] = t[i + 1]
  BY HeadTailProperties
<1>2. /\ Append(s, Head(t)) \in Seq(S)
      /\ Len(Append(s, Head(t))) = Len(s) + 1
      /\ \A i \in 1 .. Len(s) : Append(s, Head(t))[i] = s[i]
      /\ Append(s, Head(t))[Len(s) + 1] = Head(t)
  BY <1>1, AppendProperties
<1>3. /\ s \o t \in Seq(S)
      /\ Append(s, Head(t)) \o Tail(t) \in Seq(S)
      /\ Len(Append(s, Head(t)) \o Tail(t)) = Len(s \o t)
  BY <1>1, <1>2, ConcatProperties, LenProperties
<1>4. ASSUME NEW i \in 1 .. Len(s \o t)
      PROVE  (Append(s, Head(t)) \o Tail(t))[i] = (s \o t)[i]
  <2>1. Len(s) \in Nat /\ Len(t) \in Nat /\ i \in 1 .. Len(s) + Len(t)
    BY LenProperties, ConcatProperties
  <2>2. CASE i <= Len(s)
    BY <1>1, <1>2, <2>1, <2>2, ConcatProperties
  <2>3. CASE i = Len(s) + 1
    BY <1>1, <1>2, <2>1, <2>3, ConcatProperties
  <2>4. CASE i > Len(s) + 1
    BY <1>1, <1>2, <2>1, <2>4, ConcatProperties
  <2> QED BY <2>1, <2>2, <2>3, <2>4
<1> QED BY <1>3, <1>4, SeqEqual

\* What is appended to a concatenation is appended to its last part.
LEMMA AppendToLast ==
  ASSUME NEW S, NEW s \in Seq(S), NEW t \in Seq(S), NEW e \in S
  PROVE  Append(s \o t, e) = s \o Append(t, e)
<1>1. <<e>> \in Seq(S) /\ s \o t \in Seq(S)
  BY ConcatProperties
<1>2. Append(s \o t, e) = (s \o t) \o <<e>> /\ Append(t, e) = t \o <<e>>
  BY <1>1, AppendIsConcat
<1> QED BY <1>1, <1>2, ConcatAssociative

\* The first elements of a concatenation are those of its first part.
LEMMA SubSeqOfFirst ==
  ASSUME NEW S, NEW s \in Seq(S), NEW t \in Seq(S), NEW n \in 0 .. Len(s)
  PROVE  SubSeq(s \o t, 1, n) = SubSeq(s, 1, n)
<1>1. CASE n = 0
  BY <1>1, SubSeqEmpty
<1>2. CASE n \in 1 .. Len(s)
  BY <1>2, SubSeqOfConcat1, LenProperties
<1> QED BY <1>1, <1>2, LenProperties

-----------------------------------------------------------------------------
(***************************************************************************)
(* Type correctness: the handler is back in its select only with room in   *)
(* its buffer, and the receiver takes a request only with its hands empty. *)
(***************************************************************************)
PlacesOK ==
  /\ handler = "none" => buffer = <<>>
  /\ handler = "select" => Len(buffer) < BufferSize
  /\ receiver # "put" => held = <<>>
  /\ handler # "none" <=> receiver # "none"

IInv == IngestTypeOK /\ PlacesOK

LEMMA IngestInvariant == IngestSpec => []IInv
<1> USE IngestAssumption DEF IngestAssumption
<1>1. IngestInit => IInv
  BY DEF IngestInit, IInv, IngestTypeOK, PlacesOK
<1>2. IInv /\ [IngestNext]_ingestVars => IInv'
  <2> SUFFICES ASSUME IInv, [IngestNext]_ingestVars
               PROVE  IInv'
    OBVIOUS
  <2> USE DEF IInv, IngestTypeOK, PlacesOK
  <2>1. CASE OpenStream
    BY <2>1 DEF OpenStream
  <2>2. ASSUME NEW r \in Requests, ClientSend(r)
        PROVE  IInv'
    BY <2>2 DEF ClientSend
  <2>3. CASE ClientEnds
    BY <2>3 DEF ClientEnds
  <2>4. CASE Recv
    <3>1. held' \in Seq(Requests) /\ Len(held') = 1 /\ wire' \in Seq(Requests)
      BY <2>4, HeadTailProperties DEF Recv
    <3> QED BY <2>4, <3>1 DEF Recv
  <2>5. CASE RecvError
    BY <2>5 DEF RecvError
  <2>6. CASE Put
    <3>1. /\ recvCh' \in Seq(Requests)
          /\ Len(recvCh') = Len(recvCh) + Len(held)
          /\ Len(recvCh) \in Nat /\ Len(held) \in Nat
      BY <2>6, ConcatProperties, LenProperties DEF Put
    <3> QED BY <2>6, <3>1 DEF Put
  <2>7. CASE TakeRequest
    <3>1. /\ recvCh' \in Seq(Requests)
          /\ Len(recvCh') = Len(recvCh) - 1
          /\ Len(recvCh) \in Nat
      BY <2>7, HeadTailProperties, LenProperties DEF TakeRequest
    <3>2. /\ buffer' \in Seq(Requests)
          /\ Len(buffer') = Len(buffer) + 1
          /\ Len(buffer) \in Nat
      BY <2>7, HeadTailProperties, AppendProperties, LenProperties
      DEF TakeRequest, Buffered
    <3> QED BY <2>7, <3>1, <3>2 DEF TakeRequest, FlushNeeded, FlushThen
  <2>8. CASE TickerFires
    BY <2>8 DEF TickerFires, FlushThen
  <2>9. CASE TakeError
    BY <2>9 DEF TakeError, FlushThen, Outcomes
  <2>10. CASE ContextEnds
    BY <2>10 DEF ContextEnds, FlushThen, Outcomes
  <2>11. ASSUME NEW r \in Requests, NEW success \in BOOLEAN,
                FlushRequest(r, success)
         PROVE  IInv'
    <3>1. /\ buffer' \in Seq(Requests)
          /\ Len(buffer') = Len(buffer) - 1
          /\ Len(buffer) \in Nat
      BY <2>11, HeadTailProperties, LenProperties DEF FlushRequest
    <3>2. processed' \in Seq(Requests)
      BY <2>11, AppendProperties DEF FlushRequest
    <3>3. responses' \in Seq(Requests)
      <4>1. Append(responses, r) \in Seq(Requests)
        BY AppendProperties, Zenon
      <4>2. responses' = Append(responses, r) \/ responses' = responses
        BY <2>11 DEF FlushRequest
      <4> QED BY <4>1, <4>2
    <3> QED BY <2>11, <3>1, <3>2, <3>3 DEF FlushRequest
  <2>12. CASE FlushEnds
    BY <2>12, EmptySeq DEF FlushEnds, Outcomes
  <2>13. CASE UNCHANGED ingestVars
    BY <2>13 DEF ingestVars
  <2> QED BY <2>1, <2>2, <2>3, <2>4, <2>5, <2>6, <2>7, <2>8, <2>9, <2>10,
             <2>11, <2>12, <2>13 DEF IngestNext
<1> QED BY <1>1, <1>2, PTL DEF IngestSpec

\* The variables of IngestStream keep their types, with the buffer and the
\* channel within their capacities.
THEOREM IngestTypeCorrect == IngestSpec => []IngestTypeOK
<1>1. IInv => IngestTypeOK
  BY DEF IInv
<1> QED BY <1>1, IngestInvariant, PTL

-----------------------------------------------------------------------------
(***************************************************************************)
(* No request of a stream is lost, duplicated or reordered.                *)
(***************************************************************************)

\* What was sent is, in order, what was processed and what is still on its
\* way through the buffer, the channel, the receiver and the wire.
THEOREM SentStaysInOrder == IngestSpec => []SentInOrder
<1> USE IngestAssumption DEF IngestAssumption
<1>1. IngestInit => SentInOrder
  BY DEF IngestInit, SentInOrder
<1>2. IInv /\ SentInOrder /\ [IngestNext]_ingestVars => SentInOrder'
  <2> SUFFICES ASSUME IInv, SentInOrder, [IngestNext]_ingestVars
               PROVE  SentInOrder'
    OBVIOUS
  <2> DEFINE front == ((processed \o buffer) \o recvCh) \o held
  <2>1. /\ processed \in Seq(Requests) /\ buffer \in Seq(Requests)
        /\ recvCh \in Seq(Requests) /\ held \in Seq(Requests)
        /\ wire \in Seq(Requests) /\ <<>> \in Seq(Requests)
    BY EmptySeq DEF IInv, IngestTypeOK
  <2>2. /\ processed \o buffer \in Seq(Requests)
        /\ (processed \o buffer) \o recvCh \in Seq(Requests)
        /\ front \in Seq(Requests)
    BY <2>1, ConcatProperties
  <2>3. sent = front \o wire
    BY DEF SentInOrder
  <2>4. ASSUME NEW r \in Requests, ClientSend(r)
        PROVE  SentInOrder'
    <3> HIDE DEF front
    <3>0. front \in Seq(Requests) /\ wire \in Seq(Requests)
      BY <2>1, <2>2
    <3>1. front \o Append(wire, r) = Append(front \o wire, r)
      BY <3>0, <2>4, AppendToLast
    <3>2. /\ sent' = Append(front \o wire, r)
          /\ wire' = Append(wire, r)
          /\ UNCHANGED <<processed, buffer, recvCh, held>>
      BY <2>3, <2>4 DEF ClientSend
    <3> QED BY <3>1, <3>2 DEF front, SentInOrder
  <2>5. CASE Recv
    <3>1. held = <<>>
      BY <2>5 DEF Recv, IInv, PlacesOK
    <3> DEFINE taken == (processed \o buffer) \o recvCh
    <3>2. front = taken
      BY <2>2, <3>1, ConcatEmptySeq
    <3>3. Head(wire) \in Requests /\ wire # <<>>
      BY <2>1, <2>5, HeadTailProperties DEF Recv
    <3>4. Append(taken, Head(wire)) = taken \o <<Head(wire)>>
      BY <2>2, <3>3, AppendIsConcat
    <3>5. Append(taken, Head(wire)) \o Tail(wire) = taken \o wire
      BY <2>1, <2>2, <3>3, HeadMoves
    <3>6. sent = (taken \o <<Head(wire)>>) \o Tail(wire)
      BY <2>3, <3>2, <3>4, <3>5
    <3> QED BY <2>5, <3>6 DEF Recv, SentInOrder
  <2>6. CASE Put
    <3>1. (processed \o buffer) \o (recvCh \o held) = front
      <4> DEFINE done == processed \o buffer
      <4>1. done \in Seq(Requests)
        BY <2>2
      <4> HIDE DEF done
      <4>2. recvCh \in Seq(Requests) /\ held \in Seq(Requests)
        BY <2>1
      <4>3. (done \o recvCh) \o held = done \o (recvCh \o held)
        BY ONLY <4>1, <4>2, ConcatAssociative
      <4> QED BY <4>3 DEF done
    <3>2. front \o <<>> = front
      BY <2>2, ConcatEmptySeq
    <3>3. sent = (((processed \o buffer) \o (recvCh \o held)) \o <<>>) \o wire
      BY <2>3, <3>1, <3>2
    <3> QED BY <2>6, <3>3 DEF Put, SentInOrder
  <2>7. CASE TakeRequest
    <3>1. recvCh # <<>> /\ Head(recvCh) \in Requests
      BY <2>1, <2>7, HeadTailProperties DEF TakeRequest
    <3>2. processed \o Append(buffer, Head(recvCh))
            = Append(processed \o buffer, Head(recvCh))
      <4>1. processed \in Seq(Requests) /\ buffer \in Seq(Requests)
        BY <2>1
      <4>2. Head(recvCh) \in Requests
        BY <3>1
      <4> QED BY ONLY <4>1, <4>2, AppendToLast
    <3>3. (processed \o Append(buffer, Head(recvCh))) \o Tail(recvCh)
            = (processed \o buffer) \o recvCh
      BY <2>1, <2>2, <3>1, <3>2, HeadMoves
    <3>4. /\ buffer' = Append(buffer, Head(recvCh))
          /\ recvCh' = Tail(recvCh)
          /\ UNCHANGED <<sent, processed, held, wire>>
      BY <2>7 DEF TakeRequest, Buffered
    <3> QED BY <2>3, <3>3, <3>4 DEF SentInOrder
  <2>8. ASSUME NEW r \in Requests, NEW success \in BOOLEAN,
               FlushRequest(r, success)
        PROVE  SentInOrder'
    <3>1. Append(processed, Head(buffer)) \o Tail(buffer) = processed \o buffer
      BY <2>1, <2>8, HeadMoves DEF FlushRequest
    <3>2. /\ processed' = Append(processed, Head(buffer))
          /\ buffer' = Tail(buffer)
          /\ UNCHANGED <<sent, recvCh, held, wire>>
      BY <2>8 DEF FlushRequest
    <3> QED BY <2>3, <3>1, <3>2 DEF SentInOrder
  <2>9. CASE UNCHANGED <<sent, processed, buffer, recvCh, held, wire>>
    BY <2>9 DEF SentInOrder
  <2>10. \/ OpenStream \/ ClientEnds \/ RecvError \/ TickerFires \/ TakeError
         \/ ContextEnds \/ FlushEnds \/ UNCHANGED ingestVars
         => UNCHANGED <<sent, processed, buffer, recvCh, held, wire>>
    BY DEF OpenStream, ClientEnds, RecvError, TickerFires, TakeError,
           ContextEnds, FlushEnds, FlushThen, ingestVars
  <2> QED BY <2>4, <2>5, <2>6, <2>7, <2>8, <2>9, <2>10 DEF IngestNext
<1> QED BY <1>1, <1>2, IngestInvariant, PTL DEF IngestSpec

-----------------------------------------------------------------------------
\* Until the client goes away the requests answered are the ones processed.
AnsweredAll == client # "cancelled" => responses = processed

\* The n-th response answers the n-th request, as long as the client is there.
THEOREM AnswersInOrder == IngestSpec => []AnsweredInOrder
<1>1. IngestInit => AnsweredAll
  BY DEF IngestInit, AnsweredAll
<1>2. AnsweredAll /\ [IngestNext]_ingestVars => AnsweredAll'
  BY DEF AnsweredAll, IngestNext, ingestVars, OpenStream, ClientSend,
         ClientEnds, Recv, RecvError, Put, TakeRequest, TickerFires, TakeError,
         ContextEnds, FlushRequest, FlushEnds, FlushThen
<1>3. IInv /\ SentInOrder /\ AnsweredAll => AnsweredInOrder
  <2> SUFFICES ASSUME IInv, SentInOrder
               PROVE  processed = SubSeq(sent, 1, Len(processed))
    BY DEF AnsweredAll, AnsweredInOrder
  <2> DEFINE n == Len(processed)
             pb == processed \o buffer
             pbr == pb \o recvCh
             pbrh == pbr \o held
  <2>1. /\ processed \in Seq(Requests) /\ buffer \in Seq(Requests)
        /\ recvCh \in Seq(Requests) /\ held \in Seq(Requests)
        /\ wire \in Seq(Requests)
    BY DEF IInv, IngestTypeOK
  <2>2. pb \in Seq(Requests) /\ n \in 0 .. Len(processed) /\ n \in 0 .. Len(pb)
    BY <2>1, ConcatProperties, LenProperties
  <2>3. pbr \in Seq(Requests) /\ n \in 0 .. Len(pbr)
    BY <2>1, <2>2, ConcatProperties, LenProperties
  <2>4. pbrh \in Seq(Requests) /\ n \in 0 .. Len(pbrh)
    BY <2>1, <2>3, ConcatProperties, LenProperties
  <2>5. sent = pbrh \o wire
    BY DEF SentInOrder
  <2> HIDE DEF n, pbrh
  <2>6. SubSeq(sent, 1, n) = SubSeq(pbrh, 1, n)
    BY <2>1, <2>4, <2>5, SubSeqOfFirst
  <2> HIDE DEF pbr
  <2>7. SubSeq(pbrh, 1, n) = SubSeq(pbr, 1, n)
    BY <2>1, <2>3, SubSeqOfFirst DEF pbrh
  <2> HIDE DEF pb
  <2>8. SubSeq(pbr, 1, n) = SubSeq(pb, 1, n)
    BY <2>1, <2>2, SubSeqOfFirst DEF pbr
  <2>9. SubSeq(pb, 1, n) = SubSeq(processed, 1, n)
    BY <2>1, <2>2, SubSeqOfFirst DEF pb
  <2>10. SubSeq(processed, 1, n) = processed
    BY <2>1, SubSeqFull DEF n
  <2> QED BY <2>6, <2>7, <2>8, <2>9, <2>10 DEF n
<1> QED BY <1>1, <1>2, <1>3, IngestInvariant, SentStaysInOrder, PTL
     DEF IngestSpec

-----------------------------------------------------------------------------
\* Neither a request nor its response is lost, duplicated or reordered between
\* the client's stream and WriteService, in any interleaving.
THEOREM RequestsStayInOrder == IngestSpec => []RequestsInOrder
<1>1. SentInOrder /\ AnsweredInOrder => RequestsInOrder
  BY DEF RequestsInOrder
<1> QED BY <1>1, SentStaysInOrder, AnswersInOrder, PTL

-----------------------------------------------------------------------------
(*****************************************************************************)
(* The event pipeline: its two sinks do not hide each other's events.        *)
(*****************************************************************************)

\* What the place of a write's goroutine says of its event: it is not in the
\* stream before XADD unless an answer was lost, and after it unless Redis has
\* had its troubles.
PlaceOK(w) ==
  /\ emitter[w] = "none" => w \notin Range(stream)
  /\ emitter[w] = "redis" => w \notin Range(stream) \/ "unanswered" \in causes[w]
  /\ emitter[w] = "kafka" /\ w \notin Malformed =>
       w \in Range(stream) \/ KeptFromRedis(w)

EmissionInv ==
  /\ EmissionTypeOK
  /\ \A w \in Writes : PlaceOK(w)
  /\ SinksAreIndependent

-----------------------------------------------------------------------------
\* The stream after XADD holds one event more; two of its entries are equal if
\* they were before, or if the event was there already.
LEMMA OneAdded ==
  ASSUME NEW s \in Seq(Writes), NEW w \in Writes
  PROVE  /\ Append(s, w) \in Seq(Writes)
         /\ Range(Append(s, w)) = Range(s) \union {w}
         /\ \A i, j \in DOMAIN Append(s, w) :
              i # j /\ Append(s, w)[i] = Append(s, w)[j] =>
                \/ Append(s, w)[i] = w /\ w \in Range(s)
                \/ /\ i \in DOMAIN s /\ j \in DOMAIN s
                   /\ s[i] = Append(s, w)[i] /\ s[j] = Append(s, w)[j]
<1> DEFINE t == Append(s, w)
<1>1. /\ t \in Seq(Writes) /\ Len(t) = Len(s) + 1 /\ Len(s) \in Nat
      /\ t[Len(s) + 1] = w
      /\ \A i \in 1 .. Len(s) : t[i] = s[i]
  BY AppendProperties, LenProperties
<1>2. DOMAIN s = 1 .. Len(s) /\ DOMAIN t = (1 .. Len(s)) \union {Len(s) + 1}
  BY <1>1, LenProperties
<1> HIDE DEF t
<1>3. Range(t) = Range(s) \union {w}
  BY <1>1, <1>2 DEF Range
<1>4. ASSUME NEW i \in DOMAIN t, NEW j \in DOMAIN t, i # j, t[i] = t[j]
      PROVE  \/ t[i] = w /\ w \in Range(s)
             \/ i \in DOMAIN s /\ j \in DOMAIN s /\ s[i] = t[i] /\ s[j] = t[j]
  <2>1. CASE i \in DOMAIN s /\ j \in DOMAIN s
    BY <1>1, <1>2, <2>1
  <2>2. CASE i \notin DOMAIN s \/ j \notin DOMAIN s
    <3>1. t[i] = w /\ (i \in DOMAIN s \/ j \in DOMAIN s)
      BY <1>1, <1>2, <1>4, <2>2
    <3>2. w \in Range(s)
      BY <1>1, <1>2, <1>4, <3>1 DEF Range
    <3> QED BY <3>1, <3>2
  <2> QED BY <2>1, <2>2
<1> QED BY <1>1, <1>3, <1>4 DEF t

\* A trouble adds to the causes of its event and changes no others.
LEMMA CausesGrow ==
  ASSUME EmissionTypeOK, NEW w \in Writes, NEW trouble \in Troubles, Because(w, trouble)
  PROVE  /\ causes' \in [Writes -> SUBSET Troubles]
         /\ trouble \in causes'[w]
         /\ \A v \in Writes : causes[v] \subseteq causes'[v]
BY DEF EmissionTypeOK, Because

\* So does each way in which a call may fail.
LEMMA FailuresAreCounted ==
  ASSUME EmissionTypeOK, NEW w \in Writes
  PROVE  /\ \A trouble \in Troubles : Fails(w, trouble) =>
              /\ losses' \in 0 .. MaxLosses
              /\ causes' \in [Writes -> SUBSET Troubles]
              /\ trouble \in causes'[w]
              /\ \A v \in Writes : causes[v] \subseteq causes'[v]
         /\ NotAdded(w) =>
              /\ losses' \in 0 .. MaxLosses
              /\ causes' \in [Writes -> SUBSET Troubles]
              /\ KeptFromRedis(w)'
              /\ \A v \in Writes : causes[v] \subseteq causes'[v]
         /\ NotProduced(w) =>
              /\ losses' \in 0 .. MaxLosses
              /\ causes' \in [Writes -> SUBSET Troubles]
              /\ KeptFromKafka(w)'
              /\ \A v \in Writes : causes[v] \subseteq causes'[v]
<1>1. losses \in 0 .. MaxLosses /\ causes \in [Writes -> SUBSET Troubles] /\ MaxLosses \in Nat
  BY EmissionAssumption DEF EmissionAssumption, EmissionTypeOK
<1>2. ASSUME NEW trouble \in Troubles, Fails(w, trouble)
      PROVE  /\ losses' \in 0 .. MaxLosses
             /\ causes' \in [Writes -> SUBSET Troubles]
             /\ trouble \in causes'[w]
             /\ \A v \in Writes : causes[v] \subseteq causes'[v]
  BY <1>1, <1>2, CausesGrow DEF Fails
<1>3. {"redis", "hung", "unanswered", "kafka", "shutdown"} \subseteq Troubles
  BY DEF Troubles
<1>4. ASSUME NotAdded(w)
      PROVE  /\ losses' \in 0 .. MaxLosses
             /\ causes' \in [Writes -> SUBSET Troubles]
             /\ KeptFromRedis(w)'
             /\ \A v \in Writes : causes[v] \subseteq causes'[v]
  <2>1. CASE Fails(w, "redis") \/ Fails(w, "hung")
    BY <1>2, <1>3, <2>1 DEF KeptFromRedis
  <2>2. CASE Because(w, "shutdown") /\ UNCHANGED losses
    BY <1>1, <1>3, <2>2, CausesGrow DEF KeptFromRedis
  <2> QED BY <1>4, <2>1, <2>2 DEF NotAdded
<1>5. ASSUME NotProduced(w)
      PROVE  /\ losses' \in 0 .. MaxLosses
             /\ causes' \in [Writes -> SUBSET Troubles]
             /\ KeptFromKafka(w)'
             /\ \A v \in Writes : causes[v] \subseteq causes'[v]
  <2>1. CASE "hung" \in causes[w] /\ UNCHANGED <<losses, causes>>
    BY <1>1, <2>1 DEF KeptFromKafka
  <2>2. CASE Because(w, "shutdown") /\ UNCHANGED losses
    BY <1>1, <1>3, <2>2, CausesGrow DEF KeptFromKafka
  <2>3. CASE Fails(w, "kafka")
    BY <1>2, <1>3, <2>3 DEF KeptFromKafka
  <2> QED BY <1>5, <2>1, <2>2, <2>3 DEF NotProduced
<1> QED BY <1>2, <1>4, <1>5

\* What Kept... and PlaceOK say of the causes stays true when the causes grow.
LEMMA TroublesStay ==
  ASSUME NEW w, causes[w] \subseteq causes'[w]
  PROVE  (KeptFromRedis(w) => KeptFromRedis(w)') /\ (KeptFromKafka(w) => KeptFromKafka(w)')
BY DEF KeptFromRedis, KeptFromKafka

-----------------------------------------------------------------------------
LEMMA EmissionInvariant == EmissionSpec => []EmissionInv
<1>1. EmissionInit => EmissionInv
  <2> SUFFICES ASSUME EmissionInit
               PROVE  EmissionInv
    OBVIOUS
  <2>1. stream \in Seq(Writes) /\ Range(stream) = {} /\ DOMAIN stream = {}
    BY DEF EmissionInit, Range
  <2>2. EmissionTypeOK
    BY <2>1, EmissionAssumption DEF EmissionAssumption, EmissionInit, EmissionTypeOK
  <2> QED BY <2>1, <2>2
          DEF EmissionInit, EmissionInv, PlaceOK, SinksAreIndependent, EmittedToBoth,
              AddedOnce
<1>2. EmissionInv /\ [EmissionNext]_emissionVars => EmissionInv'
  <2> SUFFICES ASSUME EmissionInv, [EmissionNext]_emissionVars
               PROVE  EmissionInv'
    OBVIOUS
  <2>1. /\ EmissionTypeOK /\ stream \in Seq(Writes)
        /\ emitter \in [Writes -> {"none", "redis", "kafka", "done"}]
        /\ queue \in SUBSET Writes /\ topic \in SUBSET Writes
        /\ losses \in 0 .. MaxLosses /\ causes \in [Writes -> SUBSET Troubles]
        /\ \A v \in Writes : PlaceOK(v)
        /\ EmittedToBoth /\ AddedOnce
    BY DEF EmissionInv, EmissionTypeOK, SinksAreIndependent
  <2>2. CASE UNCHANGED emissionVars
    BY <2>2 DEF EmissionInv, EmissionTypeOK, PlaceOK, SinksAreIndependent, KeptFromRedis,
                KeptFromKafka, EmittedToBoth, AddedOnce, emissionVars
  \* An entry is added, or none is, and the causes only grow.
  <2>3. ASSUME NEW w \in Writes, stream' = Append(stream, w),
               emitter[w] = "redis", "unanswered" \in causes'[w] \/ causes' = causes,
               \A v \in Writes : causes[v] \subseteq causes'[v]
        PROVE  /\ stream' \in Seq(Writes)
               /\ Range(stream') = Range(stream) \union {w}
               /\ AddedOnce'
    <3>1. /\ stream' \in Seq(Writes)
          /\ Range(stream') = Range(stream) \union {w}
          /\ \A i, j \in DOMAIN stream' :
               i # j /\ stream'[i] = stream'[j] =>
                 \/ stream'[i] = w /\ w \in Range(stream)
                 \/ /\ i \in DOMAIN stream /\ j \in DOMAIN stream
                    /\ stream[i] = stream'[i] /\ stream[j] = stream'[j]
      BY <2>1, <2>3, OneAdded
    <3>2. w \in Range(stream) => "unanswered" \in causes'[w]
      BY <2>1, <2>3 DEF PlaceOK
    <3>3. \A k \in DOMAIN stream : stream[k] \in Writes
      BY <2>1
    <3> QED BY <2>1, <2>3, <3>1, <3>2, <3>3 DEF AddedOnce
  <2>4. ASSUME UNCHANGED stream, \A v \in Writes : causes[v] \subseteq causes'[v]
        PROVE  AddedOnce'
    <3>1. \A k \in DOMAIN stream : stream[k] \in Writes
      BY <2>1
    <3> QED BY <2>1, <2>4, <3>1 DEF AddedOnce
  <2>5. CASE EmissionNext
    <3>1. ASSUME NEW w \in Writes, StartEmit(w)
          PROVE  EmissionInv'
      BY <2>1, <3>1
         DEF StartEmit, EmissionInv, EmissionTypeOK, PlaceOK, SinksAreIndependent,
             KeptFromRedis, KeptFromKafka, EmittedToBoth, AddedOnce
    <3>2. ASSUME NEW w \in Writes, AddUnanswered(w)
          PROVE  EmissionInv'
      <4>1. /\ emitter[w] = "redis" /\ stream' = Append(stream, w)
            /\ UNCHANGED <<emitter, queue, topic, server>>
            /\ Fails(w, "unanswered") /\ "unanswered" \in Troubles
        BY <3>2 DEF AddUnanswered, Troubles
      <4>2. /\ losses' \in 0 .. MaxLosses /\ causes' \in [Writes -> SUBSET Troubles]
            /\ "unanswered" \in causes'[w]
            /\ \A v \in Writes : causes[v] \subseteq causes'[v]
        BY <2>1, <4>1, FailuresAreCounted
      <4>3. /\ stream' \in Seq(Writes) /\ Range(stream') = Range(stream) \union {w}
            /\ AddedOnce'
        BY <2>3, <4>1, <4>2
      <4>4. EmissionTypeOK'
        BY <2>1, <4>1, <4>2, <4>3 DEF EmissionTypeOK
      <4>5. \A v \in Writes : PlaceOK(v)'
        BY <2>1, <4>1, <4>2, <4>3, TroublesStay DEF PlaceOK
      <4>6. EmittedToBoth'
        BY <2>1, <4>1, <4>2, <4>3, TroublesStay DEF EmittedToBoth
      <4> QED BY <4>3, <4>4, <4>5, <4>6 DEF EmissionInv, SinksAreIndependent
    <3>3. ASSUME NEW w \in Writes, Publish(w)
          PROVE  EmissionInv'
      <4>1. /\ emitter[w] = "redis" /\ emitter' = [emitter EXCEPT ![w] = "kafka"]
            /\ UNCHANGED <<queue, topic, server>>
        BY <3>3 DEF Publish
      <4>2. \A v \in Writes : emitter'[v] = IF v = w THEN "kafka" ELSE emitter[v]
        BY <2>1, <4>1
      <4>3. /\ losses' \in 0 .. MaxLosses /\ causes' \in [Writes -> SUBSET Troubles]
            /\ \A v \in Writes : causes[v] \subseteq causes'[v]
            /\ \/ stream' = Append(stream, w) /\ causes' = causes
               \/ KeptFromRedis(w)' /\ UNCHANGED stream
               \/ w \in Malformed /\ UNCHANGED stream
        BY <2>1, <3>3, FailuresAreCounted DEF Publish
      <4>4. /\ stream' \in Seq(Writes) /\ Range(stream) \subseteq Range(stream')
            /\ \A v \in Writes : v # w => (v \in Range(stream') => v \in Range(stream))
            /\ w \in Malformed \/ w \in Range(stream') \/ KeptFromRedis(w)'
            /\ AddedOnce'
        <5>1. CASE stream' = Append(stream, w) /\ causes' = causes
          BY <2>3, <4>1, <4>3, <5>1
        <5>2. CASE UNCHANGED stream
          BY <2>1, <2>4, <4>3, <5>2
        <5> QED BY <4>3, <5>1, <5>2
      <4>5. EmissionTypeOK'
        BY <2>1, <4>1, <4>3, <4>4 DEF EmissionTypeOK
      <4>6. \A v \in Writes : PlaceOK(v)'
        BY <2>1, <4>1, <4>2, <4>3, <4>4, TroublesStay DEF PlaceOK
      <4>7. EmittedToBoth'
        BY <2>1, <4>1, <4>2, <4>3, <4>4, TroublesStay DEF EmittedToBoth
      <4> QED BY <4>4, <4>5, <4>6, <4>7 DEF EmissionInv, SinksAreIndependent
    <3>4. ASSUME NEW w \in Writes, Produce(w)
          PROVE  EmissionInv'
      <4>1. /\ emitter[w] = "kafka" /\ emitter' = [emitter EXCEPT ![w] = "done"]
            /\ UNCHANGED <<stream, topic, server>>
        BY <3>4 DEF Produce
      <4>2. \A v \in Writes : emitter'[v] = IF v = w THEN "done" ELSE emitter[v]
        BY <2>1, <4>1
      <4>3. /\ losses' \in 0 .. MaxLosses /\ causes' \in [Writes -> SUBSET Troubles]
            /\ \A v \in Writes : causes[v] \subseteq causes'[v]
            /\ queue' \in SUBSET Writes /\ queue \subseteq queue'
            /\ w \in Malformed \/ w \in queue' \/ KeptFromKafka(w)'
        BY <2>1, <3>4, FailuresAreCounted DEF Produce
      <4>4. AddedOnce'
        BY <2>4, <4>1, <4>3
      <4>5. EmissionTypeOK'
        BY <2>1, <4>1, <4>3 DEF EmissionTypeOK
      <4>6. \A v \in Writes : PlaceOK(v)'
        BY <2>1, <4>1, <4>2, <4>3, TroublesStay DEF PlaceOK
      <4>7. EmittedToBoth'
        <5>1. w \in Malformed \/ w \in Range(stream) \/ KeptFromRedis(w)
          BY <2>1, <4>1 DEF PlaceOK
        <5> QED BY <2>1, <4>1, <4>2, <4>3, <5>1, TroublesStay DEF EmittedToBoth
      <4> QED BY <4>4, <4>5, <4>6, <4>7 DEF EmissionInv, SinksAreIndependent
    <3>5. ASSUME NEW w \in Writes, KafkaSends(w)
          PROVE  EmissionInv'
      <4>1. /\ w \in queue /\ queue' = queue \ {w}
            /\ UNCHANGED <<emitter, stream, server>>
        BY <3>5 DEF KafkaSends
      <4>2. /\ losses' \in 0 .. MaxLosses /\ causes' \in [Writes -> SUBSET Troubles]
            /\ \A v \in Writes : causes[v] \subseteq causes'[v]
            /\ topic' \in SUBSET Writes /\ topic \subseteq topic'
            /\ w \in topic' \/ KeptFromKafka(w)'
        <5>1. CASE topic' = topic \union {w} /\ UNCHANGED <<losses, causes>>
          BY <2>1, <5>1
        <5>2. CASE Fails(w, "kafka") /\ UNCHANGED topic
          <6>1. "kafka" \in Troubles
            BY DEF Troubles
          <6> QED BY <2>1, <5>2, <6>1, FailuresAreCounted DEF KeptFromKafka
        <5> QED BY <3>5, <5>1, <5>2 DEF KafkaSends
      <4>3. AddedOnce'
        BY <2>4, <4>1, <4>2
      <4>4. EmissionTypeOK'
        BY <2>1, <4>1, <4>2 DEF EmissionTypeOK
      <4>5. \A v \in Writes : PlaceOK(v)'
        BY <2>1, <4>1, <4>2, TroublesStay DEF PlaceOK
      <4>6. EmittedToBoth'
        BY <2>1, <4>1, <4>2, TroublesStay DEF EmittedToBoth
      <4> QED BY <4>3, <4>4, <4>5, <4>6 DEF EmissionInv, SinksAreIndependent
    <3>6. CASE GracefulStop \/ ClosePipeline
      BY <2>1, <3>6
         DEF GracefulStop, ClosePipeline, EmissionInv, EmissionTypeOK, PlaceOK,
             SinksAreIndependent, KeptFromRedis, KeptFromKafka, EmittedToBoth, AddedOnce
    <3>7. CASE Exit
      <4>1. /\ UNCHANGED <<emitter, stream, queue, topic, losses>> /\ server' = "exited"
            /\ causes' = [v \in Writes |-> IF emitter[v] \in {"redis", "kafka"}
                                         THEN causes[v] \union {"shutdown"} ELSE causes[v]]
        BY <3>7 DEF Exit
      <4>2. /\ causes' \in [Writes -> SUBSET Troubles]
            /\ \A v \in Writes : causes[v] \subseteq causes'[v]
        BY <2>1, <4>1 DEF Troubles
      <4>3. AddedOnce'
        BY <2>4, <4>1, <4>2
      <4>4. EmissionTypeOK'
        BY <2>1, <4>1, <4>2 DEF EmissionTypeOK
      <4>5. \A v \in Writes : PlaceOK(v)'
        BY <2>1, <4>1, <4>2, TroublesStay DEF PlaceOK
      <4>6. EmittedToBoth'
        BY <2>1, <4>1, <4>2, TroublesStay DEF EmittedToBoth
      <4> QED BY <4>3, <4>4, <4>5, <4>6 DEF EmissionInv, SinksAreIndependent
    <3> QED BY <2>5, <3>1, <3>2, <3>3, <3>4, <3>5, <3>6, <3>7 DEF EmissionNext
  <2> QED BY <2>2, <2>5
<1> QED BY <1>1, <1>2, PTL DEF EmissionSpec

\* Every event is in each of the two sinks when its goroutine has ended, once,
\* but for the troubles of that sink and those the two share.
THEOREM SinksStayIndependent == EmissionSpec => []SinksAreIndependent
<1>1. EmissionInv => SinksAreIndependent
  BY DEF EmissionInv
<1> QED BY <1>1, EmissionInvariant, PTL

-----------------------------------------------------------------------------
(***************************************************************************)
(* The Subscribe RPC: the client is given the entries of the stream in     *)
(* order and without a gap.                                                *)
(***************************************************************************)

\* What has left the hands of the reading goroutine.
Sent == delivered \o ch

\* Where the reader is, against what it has passed on: it takes entries only
\* with its hands empty, its last one is the last it has passed on, and an
\* XREAD waits beyond that one as soon as there is one.
ReaderOK ==
  /\ sub \in {"none", "start", "loop", "xread"} => got = <<>>
  /\ sub = "xread" => lastID \in {0, from}
  /\ IF Sent = <<>> THEN lastID = 0 ELSE lastID = Sent[Len(Sent)]

SubscriptionInv == SubscriptionTypeOK /\ ReaderOK /\ NoGapAfterFirst

LEMMA MaxOfTwo ==
  ASSUME NEW a \in Int, NEW b \in Int
  PROVE  Max({a, b}) = IF a >= b THEN a ELSE b
BY DEF Max

LEMMA MinOfTwo ==
  ASSUME NEW a \in Int, NEW b \in Int
  PROVE  Min({a, b}) = IF a <= b THEN a ELSE b
BY DEF Min

LEMMA MinOfInterval ==
  ASSUME NEW a \in Int, NEW b \in Int, a <= b
  PROVE  Min(a .. b) = a
BY DEF Min

\* One XREAD returns a run of the stream that begins with the first entry there
\* is beyond the position it waited at.
LEMMA ReadIsARun ==
  ASSUME SubscriptionTypeOK, Available # {}
  PROVE  \E a \in Positions, n \in Nat \ {0} :
           /\ a > from /\ a + n - 1 <= newest
           /\ \A p \in from + 1 .. a - 1 : p <= trimmed
           /\ FirstOf(Available) = [i \in 1 .. n |-> a + i - 1]
<1> USE SubscriptionAssumption DEF SubscriptionAssumption
<1> DEFINE m == Max({from, trimmed})
           c == Cardinality(Available)
           n == Min({c, ReadCount})
<1>1. /\ newest \in Nat /\ from \in 0 .. newest /\ trimmed \in 0 .. newest
      /\ from \in Int /\ trimmed \in Int
  BY DEF SubscriptionTypeOK
<1>2. m = IF from >= trimmed THEN from ELSE trimmed
  BY ONLY <1>1, MaxOfTwo
<1>3. Available = m + 1 .. newest
  BY DEF Available
<1> HIDE DEF m
<1>4. m \in Nat /\ m + 1 <= newest /\ m >= from
  BY <1>1, <1>2, <1>3
<1>5. Min(Available) = m + 1
  BY <1>1, <1>3, <1>4, MinOfInterval
<1>6. c = newest - m /\ c \in Nat \ {0}
  <2>1. m + 1 \in Int /\ newest \in Int
    BY <1>1, <1>4
  <2>2. Cardinality(m + 1 .. newest) =
          IF m + 1 > newest THEN 0 ELSE newest - (m + 1) + 1
    BY ONLY <2>1, FS_Interval
  <2> QED BY <1>1, <1>3, <1>4, <2>2
<1> HIDE DEF c
<1>7. n \in Nat \ {0} /\ n <= c
  <2>1. c \in Int /\ ReadCount \in Int
    BY <1>6
  <2>2. n = IF c <= ReadCount THEN c ELSE ReadCount
    BY ONLY <2>1, MinOfTwo
  <2> QED BY <1>6, <2>2
<1> DEFINE a == m + 1
<1>8. FirstOf(Available) = [i \in 1 .. n |-> a + i - 1]
  BY <1>5 DEF FirstOf, c
<1> HIDE DEF n
<1>9. /\ a \in Positions /\ a > from /\ a + n - 1 <= newest
      /\ \A p \in from + 1 .. a - 1 : p <= trimmed
  BY <1>1, <1>2, <1>4, <1>6, <1>7 DEF Positions
<1> HIDE DEF a
<1> QED BY <1>7, <1>8, <1>9

\* A run that begins beyond the end of a sequence without gaps, but for what
\* was trimmed, continues it without a gap.
Gapless(s, t) ==
  /\ \A i, j \in DOMAIN s : i < j => s[i] < s[j]
  /\ s # <<>> => \A p \in s[1] .. s[Len(s)] : p \in Range(s) \/ p <= t

LEMMA RunContinues ==
  ASSUME NEW s \in Seq(Nat), NEW t \in Nat, Gapless(s, t),
         NEW a \in Nat, NEW n \in Nat \ {0}, NEW r \in Seq(Nat),
         r = [i \in 1 .. n |-> a + i - 1],
         s # <<>> => /\ s[Len(s)] < a
                     /\ \A p \in s[Len(s)] + 1 .. a - 1 : p <= t
  PROVE  Gapless(s \o r, t)
<1> DEFINE f == s \o r
           k == Len(s)
<1>1. /\ Len(r) = n /\ DOMAIN r = 1 .. n
      /\ \A i \in 1 .. n : r[i] = a + i - 1
  BY LenProperties
<1>2. /\ f \in Seq(Nat) /\ k \in Nat /\ Len(f) = k + n /\ DOMAIN f = 1 .. k + n
      /\ DOMAIN s = 1 .. k
      /\ \A i \in 1 .. k : f[i] = s[i] /\ s[i] \in Nat
      /\ \A i \in k + 1 .. k + n : f[i] = a + (i - k) - 1
  <2>1. k \in Nat /\ DOMAIN s = 1 .. k /\ \A i \in 1 .. k : s[i] \in Nat
    BY LenProperties, ElementOfSeq
  <2>2. /\ f \in Seq(Nat) /\ Len(f) = k + n
        /\ \A i \in 1 .. k : f[i] = s[i]
        /\ \A i \in k + 1 .. k + n : f[i] = r[i - k]
    BY <1>1, ConcatProperties
  <2>3. DOMAIN f = 1 .. k + n
    BY <2>2, LenProperties
  <2> HIDE DEF f, k
  <2>4. \A i \in k + 1 .. k + n : f[i] = a + (i - k) - 1
    <3> SUFFICES ASSUME NEW i \in k + 1 .. k + n
                 PROVE  f[i] = a + (i - k) - 1
      OBVIOUS
    <3>1. i - k \in 1 .. n
      BY <2>1
    <3> QED BY <1>1, <2>2, <3>1
  <2> QED BY <2>1, <2>2, <2>3, <2>4
<1>3. s # <<>> => k >= 1
  BY <1>2, EmptySeq
<1>4. s = <<>> => k = 0
  OBVIOUS
<1> HIDE DEF f, k
<1>5. \A i, j \in 1 .. k : i < j => s[i] < s[j]
  BY <1>2 DEF Gapless
<1>6. \A i \in 1 .. k : s[i] < a
  <2> SUFFICES ASSUME NEW i \in 1 .. k
               PROVE  s[i] < a
    OBVIOUS
  <2>1. s # <<>> /\ s[k] < a
    BY <1>2, <1>4 DEF k
  <2>2. i = k \/ s[i] < s[k]
    BY <1>2, <1>5
  <2> QED BY <1>2, <2>1, <2>2
<1>7. \A i, j \in DOMAIN f : i < j => f[i] < f[j]
  <2> SUFFICES ASSUME NEW i \in 1 .. k + n, NEW j \in 1 .. k + n, i < j
               PROVE  f[i] < f[j]
    BY <1>2
  <2>1. CASE j <= k
    BY <1>2, <1>5, <2>1
  <2>2. CASE i <= k /\ j > k
    BY <1>2, <1>6, <2>2
  <2>3. CASE i > k
    <3>1. f[i] = a + (i - k) - 1 /\ f[j] = a + (j - k) - 1
      <4>1. i \in k + 1 .. k + n /\ j \in k + 1 .. k + n
        BY <1>2, <2>3
      <4> QED BY ONLY <1>2, <4>1
    <3> QED BY <1>2, <3>1
  <2> QED BY <1>2, <2>1, <2>2, <2>3
<1>8. ASSUME NEW p \in f[1] .. f[Len(f)]
      PROVE  p \in Range(f) \/ p <= t
  <2>1. f[Len(f)] = a + n - 1
    BY <1>2
  <2>2. CASE p >= a
    <3>1. k + (p - a + 1) \in DOMAIN f /\ f[k + (p - a + 1)] = p
      BY <1>2, <2>1, <2>2
    <3> QED BY <3>1 DEF Range
  <2>3. CASE p < a
    <3>1. s # <<>> /\ k >= 1
      BY <1>2, <1>3, <1>4, <2>3
    <3>2. f[1] = s[1] /\ s[k] \in Nat
      BY <1>2, <3>1
    <3>3. CASE p <= s[k]
      <4>1. p \in Range(s) \/ p <= t
        BY <3>1, <3>2, <3>3 DEF Gapless, k
      <4>2. Range(s) \subseteq Range(f)
        <5>1. \A i \in DOMAIN s : i \in DOMAIN f /\ f[i] = s[i]
          BY <1>2
        <5> QED BY <5>1 DEF Range
      <4> QED BY <4>1, <4>2
    <3>4. CASE p > s[k]
      BY <2>3, <3>1, <3>2, <3>4 DEF k
    <3> QED BY <3>2, <3>3, <3>4
  <2> QED BY <2>2, <2>3
<1> QED BY <1>7, <1>8 DEF Gapless, f

LEMMA SubscriptionTypesKept ==
  ASSUME SubscriptionTypeOK, SubscriptionNext
  PROVE  SubscriptionTypeOK'
<1> USE SubscriptionAssumption
    DEF SubscriptionAssumption, SubscriptionTypeOK, redis
<1>1. CASE AddEntry
  <2>1. newest' = newest + 1 /\ newest' \in 0 .. MaxEntries
    BY <1>1 DEF AddEntry
  <2>2. trimmed' \in 0 .. newest'
    <3>1. trimmed \in Int /\ newest' - StreamMax \in Int
      BY <2>1
    <3>2. Max({trimmed, newest' - StreamMax}) <= newest'
      BY <2>1, <3>1, MaxOfTwo
    <3>3. trimmed' \in trimmed .. Max({trimmed, newest' - StreamMax})
      BY <1>1 DEF AddEntry
    <3>4. Max({trimmed, newest' - StreamMax}) \in Int
      BY <3>1, MaxOfTwo
    <3> QED BY <2>1, <3>2, <3>3, <3>4
  <2>3. Positions \subseteq Positions'
    BY <2>1 DEF Positions
  <2>4. /\ got' \in Seq(Positions') /\ ch' \in Seq(Positions')
        /\ delivered' \in Seq(Positions') /\ Len(ch') <= ChanCap
    BY <1>1, <2>3, SeqMonotonic DEF AddEntry
  <2> QED BY <1>1, <2>1, <2>2, <2>4 DEF AddEntry
<1>2. CASE Subscribe \/ Unsubscribe
  BY <1>2 DEF Subscribe, Unsubscribe, Positions
<1>3. CASE ReadStream
  <2>1. Beyond \in 0 .. newest
    BY DEF Beyond
  <2> QED BY <1>3, <2>1 DEF ReadStream, Positions
<1>4. CASE XReadReturns
  <2>1. Available # {} /\ got' = FirstOf(Available)
    BY <1>4 DEF XReadReturns
  <2>2. PICK a \in Positions, n \in Nat \ {0} :
          /\ a > from /\ a + n - 1 <= newest
          /\ FirstOf(Available) = [i \in 1 .. n |-> a + i - 1]
    BY <2>1, ReadIsARun
  <2>3. got' \in Seq(Positions)
    <3>1. \A i \in 1 .. n : a + i - 1 \in Positions
      BY <2>2 DEF Positions
    <3>2. [i \in 1 .. n |-> a + i - 1] \in Seq(Positions)
      BY <3>1
    <3> QED BY <2>1, <2>2, <3>2
  <2> QED BY <1>4, <2>3 DEF XReadReturns, Positions
<1>5. CASE XReadFails
  BY <1>5 DEF XReadFails, Positions
<1>6. CASE Push
  <2>1. CASE got # <<>> /\ Len(ch) < ChanCap /\ ch' = Append(ch, Head(got))
             /\ got' = Tail(got) /\ lastID' = Head(got)
    <3>1. Head(got) \in Positions /\ got' \in Seq(Positions)
      BY <2>1, HeadTailProperties
    <3>2. ch' \in Seq(Positions) /\ Len(ch') = Len(ch) + 1 /\ Len(ch) \in Nat
      BY <2>1, <3>1, AppendProperties, LenProperties
    <3>3. lastID' \in 0 .. newest
      BY <2>1, <3>1 DEF Positions
    <3> QED BY <1>6, <2>1, <3>1, <3>2, <3>3 DEF Push, Positions
  <2>2. CASE UNCHANGED <<lastID, got, ch>>
    BY <1>6, <2>2 DEF Push, Positions
  <2> QED BY <1>6, <2>1, <2>2 DEF Push
<1>7. CASE Deliver
  <2>1. Head(ch) \in Positions /\ ch' \in Seq(Positions) /\ Len(ch') <= ChanCap
    BY <1>7, HeadTailProperties, LenProperties DEF Deliver
  <2>2. delivered' \in Seq(Positions)
    BY <1>7, <2>1, AppendProperties DEF Deliver
  <2> QED BY <1>7, <2>1, <2>2 DEF Deliver, Positions
<1> QED BY <1>1, <1>2, <1>3, <1>4, <1>5, <1>6, <1>7 DEF SubscriptionNext

LEMMA ReaderKept ==
  ASSUME SubscriptionInv, SubscriptionNext
  PROVE  ReaderOK' /\ NoGapAfterFirst'
<1> USE SubscriptionAssumption DEF SubscriptionAssumption
<1>a. /\ delivered \in Seq(Nat) /\ ch \in Seq(Nat) /\ got \in Seq(Nat)
      /\ newest \in Nat /\ trimmed \in Nat /\ lastID \in Nat /\ from \in Nat
      /\ Sent \in Seq(Nat)
  <2>1. Positions \subseteq Nat
    BY DEF Positions, SubscriptionInv, SubscriptionTypeOK
  <2>2. delivered \in Seq(Nat) /\ ch \in Seq(Nat) /\ got \in Seq(Nat)
    BY <2>1, SeqMonotonic DEF SubscriptionInv, SubscriptionTypeOK
  <2> QED BY <2>2, ConcatProperties
          DEF SubscriptionInv, SubscriptionTypeOK, Sent
<1>b. ReaderOK /\ Gapless(Flow, trimmed)
  BY DEF SubscriptionInv, NoGapAfterFirst, Gapless
<1>c. Gapless(Flow, trimmed)' => NoGapAfterFirst'
  BY DEF NoGapAfterFirst, Gapless
<1>1. ASSUME Flow' = Flow, trimmed' = trimmed
      PROVE  NoGapAfterFirst'
  BY <1>1, <1>b, <1>c DEF Gapless
<1>2. CASE AddEntry
  <2>1. /\ UNCHANGED <<sub, lastID, from, got, ch, delivered>>
        /\ Flow' = Flow /\ Sent' = Sent
    BY <1>2 DEF AddEntry, Flow, Sent
  <2>2. trimmed' \in Nat /\ trimmed' >= trimmed
    <3>1. SubscriptionTypeOK'
      BY SubscriptionTypesKept DEF SubscriptionInv
    <3>2. newest' \in Nat /\ trimmed' \in 0 .. newest'
      BY <3>1 DEF SubscriptionTypeOK
    <3>3. trimmed' \in trimmed .. Max({trimmed, newest' - StreamMax})
      BY <1>2 DEF AddEntry
    <3> QED BY <1>a, <3>2, <3>3
  <2>3. Flow \in Seq(Nat)
    BY <1>a, ConcatProperties DEF Flow, Sent
  <2>4. Gapless(Flow, trimmed)'
    <3>1. ASSUME Flow # <<>>, NEW p \in Flow[1] .. Flow[Len(Flow)]
          PROVE  p \in Range(Flow) \/ p <= trimmed'
      <4>1. Flow[1] \in Nat /\ Flow[Len(Flow)] \in Nat
        BY <2>3, <3>1, EmptySeq, ElementOfSeq
      <4>2. p \in Range(Flow) \/ p <= trimmed
        BY <1>b, <3>1 DEF Gapless
      <4> QED BY <1>a, <2>2, <4>1, <4>2
    <3> QED BY <1>b, <2>1, <3>1 DEF Gapless
  <2> QED BY <1>b, <1>c, <2>1, <2>4 DEF ReaderOK
<1>3. CASE Subscribe \/ Unsubscribe
  <2>1. UNCHANGED <<lastID, from, got, ch, delivered, trimmed>>
    BY <1>3 DEF Subscribe, Unsubscribe, redis
  <2>2. Flow' = Flow /\ Sent' = Sent
    BY <2>1 DEF Flow, Sent
  <2>3. ReaderOK'
    BY <1>3, <1>b, <2>1, <2>2 DEF Subscribe, Unsubscribe, ReaderOK
  <2> QED BY <1>1, <2>1, <2>2, <2>3
<1>4. CASE ReadStream
  <2>1. UNCHANGED <<lastID, got, ch, delivered, trimmed>>
    BY <1>4 DEF ReadStream, redis
  <2>2. Flow' = Flow /\ Sent' = Sent
    BY <2>1 DEF Flow, Sent
  <2>3. /\ sub' = "xread" => from' = Beyond
        /\ sub \in {"start", "loop"}
    BY <1>4 DEF ReadStream
  <2>4. ReaderOK'
    BY <1>b, <2>1, <2>2, <2>3 DEF ReaderOK, Beyond
  <2> QED BY <1>1, <2>1, <2>2, <2>4
<1>5. CASE XReadReturns
  <2>1. /\ UNCHANGED <<lastID, from, ch, delivered, trimmed>>
        /\ sub = "xread" /\ sub' = "push"
        /\ Available # {} /\ got' = FirstOf(Available)
    BY <1>5 DEF XReadReturns, redis
  <2>2. PICK a \in Positions, n \in Nat \ {0} :
          /\ a > from /\ a + n - 1 <= newest
          /\ \A p \in from + 1 .. a - 1 : p <= trimmed
          /\ FirstOf(Available) = [i \in 1 .. n |-> a + i - 1]
    BY <2>1, ReadIsARun DEF SubscriptionInv
  <2>3. a \in Nat
    BY <1>a, <2>2 DEF Positions
  <2>4. got' = [i \in 1 .. n |-> a + i - 1] /\ got' \in Seq(Nat)
    <3>1. \A i \in 1 .. n : a + i - 1 \in Nat
      BY <2>2, <2>3
    <3>2. [i \in 1 .. n |-> a + i - 1] \in Seq(Nat)
      BY <3>1
    <3> QED BY <2>1, <2>2, <3>2
  <2>5. Sent' = Sent /\ Flow = Sent /\ Flow' = Sent \o got'
    <3>1. Sent' = Sent /\ Flow' = Sent \o got' /\ got = <<>>
      BY <1>b, <2>1 DEF ReaderOK, Flow, Sent
    <3>2. Sent \o <<>> = Sent
      BY ONLY <1>a, ConcatEmptySeq
    <3> QED BY <3>1, <3>2 DEF Flow, Sent
  <2>6. ASSUME Sent # <<>>
        PROVE  /\ Sent[Len(Sent)] < a
               /\ \A p \in Sent[Len(Sent)] + 1 .. a - 1 : p <= trimmed
    <3>1. Sent[Len(Sent)] \in Nat
      BY <1>a, <2>6, EmptySeq, ElementOfSeq
    <3>2. lastID = Sent[Len(Sent)] /\ lastID \in {0, from}
      BY <1>b, <2>1, <2>6 DEF ReaderOK
    <3>3. lastID \in Positions \union {0} /\ (lastID = from \/ lastID = 0)
      BY <3>2 DEF SubscriptionInv, SubscriptionTypeOK, Positions
    <3>4. lastID # 0
      <4>1. Sent \in Seq(Positions)
        BY ConcatProperties DEF SubscriptionInv, SubscriptionTypeOK, Sent
      <4>2. Sent[Len(Sent)] \in Positions
        BY <2>6, <4>1, EmptySeq, ElementOfSeq
      <4> QED BY <3>2, <4>2, <1>a DEF Positions
    <3>5. Sent[Len(Sent)] = from
      BY <3>2, <3>3, <3>4
    <3> QED BY <1>a, <2>2, <2>3, <3>5
  <2>7. Gapless(Sent \o got', trimmed)
    BY <1>a, <1>b, <2>2, <2>3, <2>4, <2>5, <2>6, RunContinues
  <2>8. ReaderOK'
    BY <1>b, <2>1, <2>5 DEF ReaderOK
  <2> QED BY <1>c, <2>1, <2>5, <2>7, <2>8 DEF Gapless
<1>6. CASE XReadFails
  <2>1. /\ UNCHANGED <<lastID, from, got, ch, delivered, trimmed>>
        /\ sub = "xread" /\ sub' = "loop"
    BY <1>6 DEF XReadFails, redis
  <2>2. Flow' = Flow /\ Sent' = Sent
    BY <2>1 DEF Flow, Sent
  <2> QED BY <1>1, <1>b, <2>1, <2>2 DEF ReaderOK
<1>7. CASE Push
  <2>1. CASE got # <<>> /\ ch' = Append(ch, Head(got))
             /\ got' = Tail(got) /\ lastID' = Head(got) /\ UNCHANGED sub
    <3>1. Head(got) \in Nat /\ Tail(got) \in Seq(Nat)
      BY <1>a, <2>1, HeadTailProperties
    <3>2. Sent' = Append(Sent, Head(got))
      <4>1. delivered \o Append(ch, Head(got)) = Append(delivered \o ch, Head(got))
        <5> DEFINE N == Nat
        <5>1. delivered \in Seq(N) /\ ch \in Seq(N) /\ Head(got) \in N
          BY <1>a, <3>1
        <5> HIDE DEF N
        <5> QED BY ONLY <5>1, AppendToLast
      <4>2. delivered' = delivered
        BY <1>7 DEF Push
      <4> QED BY <2>1, <4>1, <4>2 DEF Sent
    <3>3. Flow' = Flow
      <4>1. Append(Sent, Head(got)) \o Tail(got) = Sent \o got
        BY ONLY <1>a, <2>1, HeadMoves
      <4> QED BY <2>1, <3>2, <4>1 DEF Flow, Sent
    <3>4. /\ Sent' # <<>> /\ Len(Sent') = Len(Sent) + 1
          /\ Sent'[Len(Sent')] = Head(got)
      <4> DEFINE e == Head(got)
      <4>1. e \in Nat /\ Sent' = Append(Sent, e) /\ Sent \in Seq(Nat)
        BY <1>a, <3>1, <3>2
      <4> HIDE DEF e
      <4>2. /\ Append(Sent, e) # <<>> /\ Len(Append(Sent, e)) = Len(Sent) + 1
            /\ Append(Sent, e)[Len(Sent) + 1] = e
        BY ONLY <4>1, AppendProperties
      <4> QED BY <4>1, <4>2 DEF e
    <3>5. ReaderOK'
      BY <1>7, <2>1, <3>4 DEF Push, ReaderOK
    <3> QED BY <1>1, <1>7, <3>3, <3>5 DEF Push, redis
  <2>2. CASE UNCHANGED <<lastID, got, ch>>
    <3>1. /\ UNCHANGED <<delivered, trimmed>>
          /\ sub' \in {"loop", "exited"} /\ (sub' = "loop" => got = <<>>)
      BY <1>7, <2>2 DEF Push, redis
    <3>2. Flow' = Flow /\ Sent' = Sent
      BY <2>2, <3>1 DEF Flow, Sent
    <3> QED BY <1>1, <1>b, <2>2, <3>1, <3>2 DEF ReaderOK
  <2> QED BY <1>7, <2>1, <2>2 DEF Push
<1>8. CASE Deliver
  <2>1. /\ ch # <<>> /\ delivered' = Append(delivered, Head(ch))
        /\ ch' = Tail(ch) /\ UNCHANGED <<trimmed, sub, lastID, from, got>>
    BY <1>8 DEF Deliver, redis
  <2>2. Sent' = Sent
    <3>1. Append(delivered, Head(ch)) \o Tail(ch) = delivered \o ch
      BY ONLY <1>a, <2>1, HeadMoves
    <3> QED BY <2>1, <3>1 DEF Sent
  <2>3. Flow' = Flow
    BY <2>1, <2>2 DEF Flow, Sent
  <2> QED BY <1>1, <1>b, <2>1, <2>2, <2>3 DEF ReaderOK
<1> QED
  BY <1>2, <1>3, <1>4, <1>5, <1>6, <1>7, <1>8 DEF SubscriptionNext

LEMMA SubscriptionInvariant == SubscriptionSpec => []SubscriptionInv
<1>1. SubscriptionInit => SubscriptionInv
  <2> SUFFICES ASSUME SubscriptionInit
               PROVE  SubscriptionInv
    OBVIOUS
  <2>1. SubscriptionTypeOK
    <3>1. /\ got \in Seq(Positions) /\ ch \in Seq(Positions)
          /\ delivered \in Seq(Positions) /\ Len(ch) = 0
      BY EmptySeq DEF SubscriptionInit
    <3>2. Len(ch) <= ChanCap /\ readErrors \in 0 .. MaxReadErrors
      BY SubscriptionAssumption, <3>1
         DEF SubscriptionAssumption, SubscriptionInit
    <3>3. /\ newest \in 0 .. MaxEntries /\ trimmed \in 0 .. newest
          /\ lastID \in 0 .. newest /\ from \in 0 .. newest
          /\ since \in 0 .. newest
      BY SubscriptionAssumption DEF SubscriptionAssumption, SubscriptionInit
    <3> QED BY <3>1, <3>2, <3>3 DEF SubscriptionInit, SubscriptionTypeOK
  <2>2. Sent = <<>> /\ Flow = <<>>
    BY DEF SubscriptionInit, Sent, Flow
  <2>3. ReaderOK /\ NoGapAfterFirst
    BY <2>2 DEF SubscriptionInit, ReaderOK, NoGapAfterFirst
  <2> QED BY <2>1, <2>3 DEF SubscriptionInv
<1>2. SubscriptionInv /\ [SubscriptionNext]_subscriptionVars => SubscriptionInv'
  <2>1. SubscriptionInv /\ SubscriptionNext => SubscriptionInv'
    BY SubscriptionTypesKept, ReaderKept DEF SubscriptionInv
  <2>2. SubscriptionInv /\ UNCHANGED subscriptionVars => SubscriptionInv'
    BY DEF SubscriptionInv, SubscriptionTypeOK, ReaderOK, NoGapAfterFirst,
           Sent, Flow, Positions, subscriptionVars, redis
  <2> QED BY <2>1, <2>2
<1> QED BY <1>1, <1>2, PTL DEF SubscriptionSpec

\* A subscriber is given the entries of the stream in order, none twice, and
\* from its first one on it misses only what Redis trimmed before it was read,
\* whatever the sizes of stream, reads and channel and however often XREAD
\* fails.
THEOREM NoEntryIsSkipped == SubscriptionSpec => []NoGapAfterFirst
<1>1. SubscriptionInv => NoGapAfterFirst
  BY DEF SubscriptionInv
<1> QED BY <1>1, SubscriptionInvariant, PTL

-----------------------------------------------------------------------------
(***************************************************************************)
(* The event bus.                                                          *)
(***************************************************************************)

\* Handler h is registered for the type of event e.
Wants(h, e) == \E t \in Types : h \in Range(handlers[t]) /\ busLog[e] = t

\* Every event before position n was handed to who wanted it when it came.
ToldUpTo(n) ==
  \A h \in Handlers : \A e \in start .. n - 1 :
    registeredAt[h] < e /\ Wants(h, e) => <<h, e>> \in told

\* The handlers whose turn it was have the message the consumer is at.
TurnOK ==
  turn > 0 =>
    /\ consumer = "running"
    /\ position \in DOMAIN busLog /\ busLog[position] \in Types
    /\ turn <= Len(handlers[busLog[position]]) + 1
    /\ \A i \in DOMAIN handlers[busLog[position]] :
         i < turn => <<handlers[busLog[position]][i], position>> \in told

\* A position is never beyond the end of the topic, and Kafka remembers none
\* before which an event was missed.
PositionsOK ==
  /\ position <= Len(busLog) + 1 /\ remembered <= Len(busLog) + 1
  /\ consumer = "running" \/ remembered > 0 => start > 0
  /\ start > 0 => ToldUpTo(position)
  /\ remembered > 0 => ToldUpTo(remembered)
  /\ consumer # "running" => position = 1

BusInv ==
  /\ EventBusTypeOK
  /\ \A h \in Handlers :
       Registered(h) => \E t \in Types : h \in Range(handlers[t])
  /\ TurnOK
  /\ PositionsOK

\* An event that is added to the topic changes none of those before it.
LEMMA LogGrows ==
  ASSUME BusInv, NEW type \in Types \union {NoJSON}, Len(busLog) < MaxEvents,
         busLog' = Append(busLog, type), UNCHANGED consumerVars,
         producer' \in BOOLEAN
  PROVE  BusInv'
<1> USE EventBusAssumption DEF EventBusAssumption
<1>1. EventBusTypeOK /\ TurnOK /\ PositionsOK
  BY DEF BusInv
<1>2. /\ busLog \in Seq(Types \union {NoJSON}) /\ Len(busLog) \in Nat
      /\ position \in Nat /\ remembered \in Nat /\ start \in Nat
  BY <1>1 DEF EventBusTypeOK, Never
<1>3. /\ busLog' \in Seq(Types \union {NoJSON}) /\ Len(busLog') = Len(busLog) + 1
      /\ \A e \in 1 .. Len(busLog) : busLog'[e] = busLog[e]
  BY <1>2
<1>4. UNCHANGED <<consumer, handlers, position, remembered, turn, restarts, told,
                  registeredAt, start>>
  BY DEF consumerVars
<1>5. EventBusTypeOK'
  BY <1>1, <1>2, <1>3, <1>4 DEF EventBusTypeOK, Never, Places
<1>6. TurnOK'
  BY <1>1, <1>2, <1>3, <1>4 DEF TurnOK
<1>7. ASSUME NEW n \in Nat, n <= Len(busLog) + 1, start > 0, ToldUpTo(n)
      PROVE  ToldUpTo(n)'
  <2>1. \A e \in start .. n - 1 : busLog'[e] = busLog[e]
    BY <1>2, <1>3, <1>7
  <2> QED BY <1>4, <1>7, <2>1 DEF ToldUpTo, Wants
<1>8. PositionsOK'
  BY <1>1, <1>2, <1>3, <1>4, <1>7 DEF PositionsOK
<1> QED BY <1>4, <1>5, <1>6, <1>8 DEF BusInv, Registered, Never

\* A handler is registered for the events to come.
LEMMA OnKeeps ==
  ASSUME BusInv, NEW h \in Handlers, NEW type \in Types, On(h, type)
  PROVE  BusInv'
<1> USE EventBusAssumption DEF EventBusAssumption
<1>1. /\ EventBusTypeOK /\ TurnOK /\ PositionsOK
      /\ \A g \in Handlers :
           Registered(g) => \E t \in Types : g \in Range(handlers[t])
  BY DEF BusInv
<1>2. /\ busLog \in Seq(Types \union {NoJSON}) /\ Len(busLog) \in Nat
      /\ Len(busLog) <= MaxEvents
      /\ position \in Nat /\ remembered \in Nat /\ start \in Nat
      /\ handlers \in [Types -> Seq(Handlers)]
      /\ registeredAt \in [Handlers -> 0 .. Never]
  BY <1>1 DEF EventBusTypeOK, Never
<1>3. /\ handlers' = [handlers EXCEPT ![type] = Append(@, h)]
      /\ registeredAt' = [registeredAt EXCEPT ![h] = Len(busLog)]
      /\ UNCHANGED <<busLog, producer, consumer, position, remembered, turn,
                     restarts, told, start>>
  BY DEF On, producerVars
<1>4. /\ handlers' \in [Types -> Seq(Handlers)]
      /\ \A t \in Types : \A i \in DOMAIN handlers[t] :
           i \in DOMAIN handlers'[t] /\ handlers'[t][i] = handlers[t][i]
      /\ \A t \in Types : \A i \in DOMAIN handlers'[t] :
           i \in DOMAIN handlers[t] \/ (t = type /\ i = Len(handlers[t]) + 1
                                        /\ handlers'[t][i] = h)
  BY <1>2, <1>3
<1>5. \A t \in Types : /\ Range(handlers[t]) \subseteq Range(handlers'[t])
                       /\ Range(handlers'[t]) \subseteq Range(handlers[t]) \union {h}
  BY <1>4 DEF Range
<1>6. h \in Range(handlers'[type])
  <2>1. /\ Len(handlers[type]) + 1 \in DOMAIN handlers'[type]
        /\ handlers'[type][Len(handlers[type]) + 1] = h
    BY <1>2, <1>3
  <2> QED BY <2>1 DEF Range
<1>7. /\ registeredAt' \in [Handlers -> 0 .. Never]
      /\ registeredAt'[h] = Len(busLog)
      /\ \A g \in Handlers \ {h} : registeredAt'[g] = registeredAt[g]
  BY <1>2, <1>3 DEF Never
<1>8. EventBusTypeOK'
  BY <1>1, <1>3, <1>4, <1>7 DEF EventBusTypeOK, Never, Places
<1>9. TurnOK'
  <2> SUFFICES ASSUME turn > 0
               PROVE  /\ consumer = "running"
                      /\ position \in DOMAIN busLog /\ busLog[position] \in Types
                      /\ turn <= Len(handlers'[busLog[position]]) + 1
                      /\ \A i \in DOMAIN handlers'[busLog[position]] :
                           i < turn =>
                             <<handlers'[busLog[position]][i], position>> \in told
    BY <1>3 DEF TurnOK
  <2> DEFINE t == busLog[position]
  <2>1. /\ consumer = "running" /\ position \in DOMAIN busLog /\ t \in Types
        /\ turn <= Len(handlers[t]) + 1
        /\ \A i \in DOMAIN handlers[t] :
             i < turn => <<handlers[t][i], position>> \in told
    BY <1>1 DEF TurnOK
  <2> HIDE DEF t
  <2>2. Len(handlers[t]) \in Nat /\ Len(handlers'[t]) \in Nat /\ turn \in Nat
        /\ Len(handlers[t]) <= Len(handlers'[t])
    BY <1>1, <1>2, <1>3, <2>1 DEF EventBusTypeOK
  <2>3. \A i \in DOMAIN handlers'[t] :
          i < turn => <<handlers'[t][i], position>> \in told
    BY <1>4, <2>1, <2>2
  <2> QED BY <2>1, <2>2, <2>3 DEF t
<1>10. ASSUME NEW n \in Nat, n <= Len(busLog) + 1, ToldUpTo(n)
       PROVE  ToldUpTo(n)'
  <2> SUFFICES ASSUME NEW g \in Handlers, NEW e \in start .. n - 1,
                      registeredAt'[g] < e, Wants(g, e)'
               PROVE  <<g, e>> \in told
    BY <1>3 DEF ToldUpTo
  <2>1. g # h
    BY <1>2, <1>7, <1>10
  <2>2. Wants(g, e)
    BY <1>3, <1>5, <2>1 DEF Wants
  <2> QED BY <1>7, <1>10, <2>1, <2>2 DEF ToldUpTo
<1>11. PositionsOK'
  BY <1>1, <1>2, <1>3, <1>10 DEF PositionsOK
<1>12. \A g \in Handlers :
         Registered(g)' => \E t \in Types : g \in Range(handlers'[t])
  BY <1>1, <1>5, <1>6, <1>7 DEF Registered, Never
<1> QED BY <1>8, <1>9, <1>11, <1>12 DEF BusInv

\* The consumer: it begins, takes a message through its handlers, and has Kafka
\* remember where it is.
LEMMA ConsumerKeeps ==
  ASSUME BusInv,
         \/ ConnectConsumer \/ SubscribeTopic \/ EachMessage \/ CallHandler
         \/ MessageDone \/ Remember \/ Restart
  PROVE  BusInv'
<1> USE EventBusAssumption DEF EventBusAssumption
<1>1. /\ EventBusTypeOK /\ TurnOK /\ PositionsOK
      /\ \A g \in Handlers :
           Registered(g) => \E t \in Types : g \in Range(handlers[t])
  BY DEF BusInv
<1>2. /\ busLog \in Seq(Types \union {NoJSON}) /\ Len(busLog) \in Nat
      /\ Len(busLog) <= MaxEvents /\ turn \in Nat /\ restarts \in 0 .. MaxRestarts
      /\ position \in 1 .. Never /\ remembered \in 0 .. Never
      /\ start \in 0 .. Never
      /\ handlers \in [Types -> Seq(Handlers)]
      /\ told \subseteq Handlers \X Places
  BY <1>1 DEF EventBusTypeOK
<1>3. UNCHANGED <<busLog, producer, handlers, registeredAt>>
  BY DEF ConnectConsumer, SubscribeTopic, EachMessage, CallHandler, MessageDone,
         Remember, Restart, producerVars
<1>4. \A g \in Handlers :
        Registered(g)' => \E t \in Types : g \in Range(handlers'[t])
  BY <1>1, <1>3 DEF Registered, Never
<1>5. ASSUME start' = start, told \subseteq told', NEW n, ToldUpTo(n)
      PROVE  ToldUpTo(n)'
  BY <1>3, <1>5 DEF ToldUpTo, Wants
<1>6. turn > 0 => /\ busLog[position] \in Types /\ position \in DOMAIN busLog
                  /\ consumer = "running"
                  /\ turn <= Len(handlers[busLog[position]]) + 1
                  /\ Len(handlers[busLog[position]]) \in Nat
  BY <1>1, <1>2 DEF TurnOK
<1>7. CASE ConnectConsumer
  <2>1. /\ consumer = "none" /\ consumer' = "connected"
        /\ UNCHANGED <<position, remembered, turn, restarts, told, start>>
    BY <1>7 DEF ConnectConsumer
  <2>2. EventBusTypeOK'
    BY <1>1, <1>3, <2>1 DEF EventBusTypeOK, Never, Places
  <2>3. TurnOK'
    BY <1>2, <1>6, <2>1 DEF TurnOK
  <2>4. PositionsOK'
    BY <1>1, <1>2, <1>3, <1>5, <2>1 DEF PositionsOK
  <2> QED BY <1>4, <2>2, <2>3, <2>4 DEF BusInv
<1>8. CASE SubscribeTopic
  <2>1. /\ consumer = "connected" /\ consumer' = "running"
        /\ position' = IF remembered = 0 THEN Len(busLog) + 1 ELSE remembered
        /\ start' = IF remembered = 0 THEN position' ELSE start
        /\ UNCHANGED <<remembered, turn, restarts, told>>
    BY <1>8 DEF SubscribeTopic
  <2>2. EventBusTypeOK'
    <3>1. position' \in 1 .. Never /\ start' \in 0 .. Never
      BY <1>2, <2>1 DEF Never
    <3> QED BY <1>1, <1>3, <2>1, <3>1 DEF EventBusTypeOK, Never, Places
  <2>3. TurnOK'
    BY <1>2, <1>6, <2>1 DEF TurnOK
  <2>4. PositionsOK'
    <3>1. CASE remembered = 0
      <4>1. /\ start' = Len(busLog) + 1 /\ position' = Len(busLog) + 1
            /\ start' .. (position' - 1) = {}
        BY <1>2, <2>1, <3>1
      <4>2. ToldUpTo(position)'
        BY <4>1 DEF ToldUpTo
      <4> QED BY <1>1, <1>2, <1>3, <2>1, <3>1, <4>1, <4>2 DEF PositionsOK
    <3>2. CASE remembered # 0
      <4>1. remembered > 0 /\ start' = start /\ position' = remembered
        BY <1>2, <2>1, <3>2
      <4>2. ToldUpTo(remembered)'
        BY <1>1, <1>5, <2>1, <4>1 DEF PositionsOK
      <4>3. ToldUpTo(position)'
        BY <2>1, <4>1, <4>2 DEF ToldUpTo
      <4> QED BY <1>1, <1>2, <1>3, <2>1, <4>1, <4>2, <4>3 DEF PositionsOK
    <3> QED BY <3>1, <3>2
  <2> QED BY <1>4, <2>2, <2>3, <2>4 DEF BusInv
<1>9. CASE EachMessage
  <2>1. /\ consumer = "running" /\ turn' = 1
        /\ position \in DOMAIN busLog /\ busLog[position] # NoJSON
        /\ UNCHANGED <<consumer, position, remembered, restarts, told, start>>
    BY <1>9 DEF EachMessage
  <2>2. EventBusTypeOK'
    BY <1>1, <1>3, <2>1 DEF EventBusTypeOK, Never, Places
  <2>3. busLog[position] \in Types /\ Len(handlers[busLog[position]]) \in Nat
    BY <1>2, <2>1
  <2>4. TurnOK'
    BY <1>2, <1>3, <2>1, <2>3 DEF TurnOK
  <2>5. PositionsOK'
    BY <1>1, <1>2, <1>3, <1>5, <2>1 DEF PositionsOK
  <2> QED BY <1>4, <2>2, <2>4, <2>5 DEF BusInv
<1>10. CASE CallHandler
  <2> DEFINE t == busLog[position]
  <2>1. /\ turn > 0 /\ turn <= Len(handlers[t])
        /\ told' = told \union {<<handlers[t][turn], position>>}
        /\ turn' = turn + 1
        /\ UNCHANGED <<consumer, position, remembered, restarts, start>>
    BY <1>10 DEF CallHandler
  <2>2. /\ consumer = "running" /\ position \in DOMAIN busLog /\ t \in Types
        /\ \A i \in DOMAIN handlers[t] :
             i < turn => <<handlers[t][i], position>> \in told
    BY <1>1, <2>1 DEF TurnOK
  <2>3. handlers[t][turn] \in Handlers /\ position \in Places
        /\ DOMAIN handlers[t] = 1 .. Len(handlers[t]) /\ Len(handlers[t]) \in Nat
    BY <1>2, <2>1, <2>2 DEF Places
  <2>4. EventBusTypeOK'
    BY <1>1, <1>2, <1>3, <2>1, <2>3 DEF EventBusTypeOK, Never, Places
  <2>5. TurnOK'
    <3>1. \A i \in DOMAIN handlers[t] :
            i < turn + 1 => <<handlers[t][i], position>> \in told'
      BY <1>2, <2>1, <2>2, <2>3
    <3>2. turn + 1 <= Len(handlers[t]) + 1
      BY <1>2, <2>1, <2>3
    <3> QED BY <1>3, <2>1, <2>2, <3>1, <3>2 DEF TurnOK
  <2>6. PositionsOK'
    BY <1>1, <1>2, <1>3, <1>5, <2>1 DEF PositionsOK
  <2> QED BY <1>4, <2>4, <2>5, <2>6 DEF BusInv
<1>11. CASE MessageDone
  <2> DEFINE t == busLog[position]
  <2>1. /\ turn > 0 /\ turn > Len(handlers[t]) /\ turn' = 0
        /\ position' = position + 1
        /\ UNCHANGED <<consumer, remembered, restarts, told, start>>
    BY <1>11 DEF MessageDone
  <2>2. /\ consumer = "running" /\ position \in DOMAIN busLog /\ t \in Types
        /\ \A i \in DOMAIN handlers[t] :
             i < turn => <<handlers[t][i], position>> \in told
    BY <1>1, <2>1 DEF TurnOK
  <2>3. \A h \in Range(handlers[t]) : <<h, position>> \in told
    <3>1. DOMAIN handlers[t] = 1 .. Len(handlers[t]) /\ Len(handlers[t]) \in Nat
      BY <1>2, <2>2
    <3>2. \A i \in DOMAIN handlers[t] : i < turn
      BY <1>2, <2>1, <3>1
    <3> QED BY <2>2, <3>2 DEF Range
  <2>4. EventBusTypeOK'
    <3>1. position' \in 1 .. Never
      BY <1>2, <2>1, <2>2 DEF Never
    <3> QED BY <1>1, <1>3, <2>1, <3>1 DEF EventBusTypeOK, Never, Places
  <2>5. TurnOK'
    BY <2>1 DEF TurnOK
  <2>6. start > 0 /\ ToldUpTo(position)
    BY <1>1, <2>2 DEF PositionsOK
  <2>7. ToldUpTo(position + 1)
    <3> SUFFICES ASSUME NEW h \in Handlers, NEW e \in start .. (position + 1) - 1,
                        registeredAt[h] < e, Wants(h, e)
                 PROVE  <<h, e>> \in told
      BY DEF ToldUpTo
    <3>1. CASE e = position
      BY <2>3, <3>1 DEF Wants
    <3>2. CASE e # position
      <4>1. e \in start .. position - 1
        BY <1>2, <3>2
      <4> QED BY <2>6, <4>1 DEF ToldUpTo
    <3> QED BY <3>1, <3>2
  <2>8. ToldUpTo(position)'
    BY <1>3, <2>1, <2>7 DEF ToldUpTo, Wants
  <2>9. remembered > 0 => ToldUpTo(remembered)'
    BY <1>1, <1>3, <2>1 DEF PositionsOK, ToldUpTo, Wants
  <2>10. position' <= Len(busLog) + 1
    BY <1>2, <2>1, <2>2
  <2>11. PositionsOK'
    BY <1>1, <1>3, <2>1, <2>2, <2>8, <2>9, <2>10 DEF PositionsOK
  <2> QED BY <1>4, <2>4, <2>5, <2>11 DEF BusInv
<1>12. CASE Remember
  <2>1. /\ consumer = "running" /\ turn = 0 /\ remembered' = position
        /\ UNCHANGED <<consumer, position, turn, restarts, told, start>>
    BY <1>12 DEF Remember
  <2>2. EventBusTypeOK'
    BY <1>1, <1>2, <1>3, <2>1 DEF EventBusTypeOK, Never, Places
  <2>3. TurnOK'
    BY <2>1 DEF TurnOK
  <2>4. start > 0 /\ ToldUpTo(position)' /\ position <= Len(busLog) + 1
    BY <1>1, <1>5, <2>1 DEF PositionsOK
  <2>5. ToldUpTo(remembered)'
    BY <2>1, <2>4 DEF ToldUpTo
  <2>6. PositionsOK'
    BY <1>3, <2>1, <2>4, <2>5 DEF PositionsOK
  <2> QED BY <1>4, <2>2, <2>3, <2>6 DEF BusInv
<1>13. CASE Restart
  <2>1. /\ consumer # "none" /\ restarts < MaxRestarts
        /\ consumer' = "none" /\ turn' = 0 /\ restarts' = restarts + 1
        /\ position' = 1 /\ start' = IF remembered = 0 THEN 0 ELSE start
        /\ UNCHANGED <<remembered, told>>
    BY <1>13 DEF Restart
  <2>2. EventBusTypeOK'
    <3>1. /\ position' \in 1 .. Never /\ start' \in 0 .. Never
          /\ restarts' \in 0 .. MaxRestarts /\ turn' \in Nat
      BY <1>2, <2>1 DEF Never
    <3> QED BY <1>1, <1>3, <2>1, <3>1 DEF EventBusTypeOK, Never, Places
  <2>3. TurnOK'
    BY <2>1 DEF TurnOK
  <2>4. start' > 0 => ToldUpTo(position)'
    <3>1. start' > 0 => start' .. (position' - 1) = {}
      BY <1>2, <2>1
    <3> QED BY <3>1 DEF ToldUpTo
  <2>5. remembered > 0 => start' = start /\ start > 0 /\ ToldUpTo(remembered)'
    BY <1>1, <1>2, <1>5, <2>1 DEF PositionsOK
  <2>6. PositionsOK'
    BY <1>1, <1>2, <1>3, <2>1, <2>4, <2>5 DEF PositionsOK
  <2> QED BY <1>4, <2>2, <2>3, <2>6 DEF BusInv
<1> QED BY <1>7, <1>8, <1>9, <1>10, <1>11, <1>12, <1>13

LEMMA BusInductive == EventBusSpec => []BusInv
<1>1. EventBusInit => BusInv
  <2> SUFFICES ASSUME EventBusInit PROVE BusInv
    OBVIOUS
  <2>1. /\ busLog = <<>> /\ producer = FALSE /\ consumer = "none"
        /\ handlers = [t \in Types |-> <<>>]
        /\ position = 1 /\ remembered = 0 /\ turn = 0 /\ restarts = 0
        /\ told = {} /\ registeredAt = [h \in Handlers |-> Never] /\ start = 0
    BY DEF EventBusInit
  <2>2. EventBusTypeOK
    <3>1. busLog \in Seq(Types \union {NoJSON}) /\ Len(busLog) <= MaxEvents
      BY <2>1, EventBusAssumption DEF EventBusAssumption
    <3>2. /\ position \in 1 .. Never /\ remembered \in 0 .. Never
          /\ start \in 0 .. Never /\ restarts \in 0 .. MaxRestarts
          /\ Never \in 0 .. Never /\ turn \in Nat
      BY <2>1, EventBusAssumption DEF EventBusAssumption, Never
    <3>3. /\ handlers \in [Types -> Seq(Handlers)]
          /\ registeredAt \in [Handlers -> 0 .. Never]
      BY <2>1, <3>2
    <3>4. producer \in BOOLEAN
      BY <2>1
    <3> QED BY <2>1, <3>1, <3>2, <3>3, <3>4 DEF EventBusTypeOK
  <2>3. TurnOK
    BY <2>1 DEF TurnOK
  <2>4. PositionsOK
    BY <2>1 DEF PositionsOK
  <2>5. \A h \in Handlers : ~Registered(h)
    BY <2>1 DEF Registered
  <2> QED BY <2>2, <2>3, <2>4, <2>5 DEF BusInv
<1>2. BusInv /\ [EventBusNext]_busVars => BusInv'
  <2> SUFFICES ASSUME BusInv, [EventBusNext]_busVars PROVE BusInv'
    OBVIOUS
  <2>1. CASE ConnectProducer \/ Disconnect \/ UNCHANGED busVars
    <3>1. /\ UNCHANGED <<busLog, consumer, handlers, position, remembered, turn,
                         restarts, told, registeredAt, start>>
          /\ producer' \in BOOLEAN
      BY <2>1 DEF ConnectProducer, Disconnect, consumerVars, busVars, BusInv,
                  EventBusTypeOK
    <3>2. EventBusTypeOK'
      BY <3>1 DEF BusInv, EventBusTypeOK, Never, Places
    <3>3. TurnOK' /\ PositionsOK'
      BY <3>1 DEF BusInv, TurnOK, PositionsOK, ToldUpTo, Wants
    <3> QED BY <3>1, <3>2, <3>3 DEF BusInv, Registered, Never
  <2>2. CASE OthersPublish \/ \E type \in Types : PublishEvent(type)
    <3>1. PICK type \in Types \union {NoJSON} :
            Len(busLog) < MaxEvents /\ busLog' = Append(busLog, type)
      BY <2>2 DEF OthersPublish, PublishEvent
    <3>2. UNCHANGED consumerVars /\ producer' \in BOOLEAN
      BY <2>2 DEF OthersPublish, PublishEvent, BusInv, EventBusTypeOK
    <3> QED BY <3>1, <3>2, LogGrows
  <2> QED BY <2>1, <2>2, OnKeeps, ConsumerKeeps DEF EventBusNext
<1> QED BY <1>1, <1>2, PTL DEF EventBusSpec

\* Behind the consumer's position no event lacks a handler that was registered
\* for its type before it was published, whichever handlers throw or are added
\* meanwhile and wherever the consumer has stopped: for any number of handlers,
\* events and restarts.
THEOREM NobodyMissesAnEvent == EventBusSpec => []HandlersAreTold
<1>1. BusInv => HandlersAreTold
  <2> SUFFICES ASSUME BusInv, start > 0, NEW h \in Handlers,
                      NEW e \in start .. position - 1, Registered(h),
                      registeredAt[h] < e, busLog[e] = TypeOf(h)
               PROVE  <<h, e>> \in told
    BY DEF HandlersAreTold
  <2>1. TypeOf(h) \in Types /\ h \in Range(handlers[TypeOf(h)])
    BY DEF BusInv, TypeOf
  <2>2. Wants(h, e)
    BY <2>1 DEF Wants
  <2> QED BY <2>2 DEF BusInv, PositionsOK, ToldUpTo
<1> QED BY <1>1, BusInductive, PTL

-----------------------------------------------------------------------------
(***************************************************************************)
(* The customer view.                                                      *)
(***************************************************************************)

\* What a query may show of a part.
Showable(p) == during[p] \union {0 : h \in holes \intersect {p}}

\* While the queries run everything there is to see was there since they
\* began: in the engines, in the list cache, and, where a query has returned,
\* in the view.  No view is ever cached.
ViewInv ==
  /\ CustomerViewTypeOK
  /\ cachedView = Unanswered
  /\ source["session_presence"] = 0
  /\ fanOut = "running" =>
       /\ \A p \in Parts : source[p] \in during[p]
       /\ listed # NotThere => listed \in during["profile"]
       /\ \A p \in Parts : view[p] # NotThere => view[p] \in Showable(p)
  /\ ViewTellsItsSources

LEMMA PartNames ==
  /\ "profile" \in Parts /\ "session_presence" \in Parts
  /\ "session_presence" \notin Engines
  /\ MaxVersion \in Nat /\ 0 \in Versions /\ NotThere \notin Versions
BY CustomerViewAssumption
DEF CustomerViewAssumption, Parts, Versions, NotThere

LEMMA ViewKept ==
  ASSUME ViewInv, [CustomerViewNext]_viewVars
  PROVE  ViewInv'
<1>1. /\ CustomerViewTypeOK /\ cachedView = Unanswered
      /\ source["session_presence"] = 0 /\ ViewTellsItsSources
      /\ fanOut = "running" =>
           /\ \A p \in Parts : source[p] \in during[p]
           /\ listed # NotThere => listed \in during["profile"]
           /\ \A p \in Parts : view[p] # NotThere => view[p] \in Showable(p)
  BY DEF ViewInv
<1>2. /\ source \in [Parts -> Versions]
      /\ listed \in Versions \union {NotThere}
      /\ cachedView \in [Parts -> Versions \union {NotThere}]
      /\ view \in [Parts -> Versions \union {NotThere}]
      /\ fanOut \in {"idle", "running", "answered"}
      /\ during \in [Parts -> SUBSET Versions] /\ holes \subseteq Parts
  BY <1>1 DEF CustomerViewTypeOK
<1>3. ASSUME NEW p \in Parts, NEW version \in Versions, Pending(p),
             Shows(p, version), version \in during[p] \/ (p \in holes' /\ version = 0),
             holes \subseteq holes', holes' \subseteq Parts,
             \/ listed' = listed
             \/ listed' = version /\ p = "profile" /\ version \in during[p],
             UNCHANGED <<source, cachedView, fanOut, during>>
      PROVE  ViewInv'
  <2>1. /\ view' = [view EXCEPT ![p] = version] /\ fanOut = "running"
    BY <1>3 DEF Pending, Shows
  <2>2. CustomerViewTypeOK'
    BY <1>2, <1>3, <2>1 DEF CustomerViewTypeOK
  <2>3. \A q \in Parts : view'[q] # NotThere => view'[q] \in Showable(q)'
    BY <1>1, <1>2, <1>3, <2>1 DEF Showable
  <2>4. listed' # NotThere => listed' \in during["profile"]
    BY <1>1, <1>3, <2>1
  <2>5. ViewTellsItsSources'
    BY <1>3, <2>1 DEF ViewTellsItsSources
  <2>6. Unanswered' = Unanswered
    BY DEF Unanswered, NotThere, Parts
  <2> QED BY <1>1, <1>3, <2>1, <2>2, <2>3, <2>4, <2>5, <2>6 DEF ViewInv, NotThere
<1>4. ASSUME NEW p \in Parts, Changes(p) PROVE ViewInv'
  <2>1. /\ p # "session_presence" /\ source[p] < MaxVersion
        /\ source' = [source EXCEPT ![p] = @ + 1]
        /\ during' = [during EXCEPT ![p] =
             @ \union IF fanOut = "running" THEN {source'[p]} ELSE {}]
        /\ UNCHANGED <<listed, cachedView, view, fanOut, holes>>
    BY <1>4 DEF Changes
  <2>2. source[p] + 1 \in Versions
    BY <1>2, <2>1, PartNames DEF Versions
  <2>3. /\ source' \in [Parts -> Versions] /\ during' \in [Parts -> SUBSET Versions]
        /\ \A q \in Parts :
             /\ during[q] \subseteq during'[q]
             /\ fanOut = "running" => source'[q] = source[q] \/ source'[q] \in during'[q]
        /\ source'["session_presence"] = 0
    BY <1>1, <1>2, <2>1, <2>2, PartNames
  <2>4. CustomerViewTypeOK'
    BY <1>2, <2>1, <2>3 DEF CustomerViewTypeOK
  <2>5. \A q \in Parts : Showable(q) \subseteq Showable(q)'
    BY <2>1, <2>3 DEF Showable
  <2>6. ViewTellsItsSources'
    BY <1>1, <2>1, <2>3 DEF ViewTellsItsSources
  <2> QED BY <1>1, <2>1, <2>3, <2>4, <2>5, <2>6, PartNames
          DEF ViewInv, Unanswered, NotThere
<1>5. CASE ListGoes
  BY <1>1, <1>2, <1>5 DEF ListGoes, ViewInv, CustomerViewTypeOK, Showable,
                          ViewTellsItsSources, Unanswered, NotThere
<1>6. CASE GetFullView
  <2>1. /\ view' = cachedView /\ fanOut' = "running"
        /\ during' = [p \in Parts |->
             {source[p]} \union IF p = "profile" THEN {listed} \ {NotThere} ELSE {}]
        /\ holes' = {} /\ UNCHANGED <<source, listed, cachedView>>
    BY <1>1, <1>6 DEF GetFullView, Seen
  <2>2. /\ during' \in [Parts -> SUBSET Versions]
        /\ \A p \in Parts : source[p] \in during'[p]
        /\ listed # NotThere => listed \in during'["profile"]
    BY <1>2, <2>1, PartNames
  <2>3. CustomerViewTypeOK'
    BY <1>2, <2>1, <2>2 DEF CustomerViewTypeOK
  <2>4. \A p \in Parts : view'[p] = NotThere
    BY <1>1, <2>1 DEF Unanswered
  <2> QED BY <1>1, <2>1, <2>2, <2>3, <2>4
          DEF ViewInv, ViewTellsItsSources, Unanswered, NotThere
<1>7. CASE QueryProfile
  <2>1. Pending("profile") /\ fanOut = "running"
    BY <1>7 DEF QueryProfile, Pending
  <2>2. PICK version \in {source["profile"], listed} \ {NotThere} :
          /\ Shows("profile", version)
          /\ listed' \in {listed, IF version = 0 THEN listed ELSE version}
    BY <1>7 DEF QueryProfile
  <2>3. version \in Versions /\ version \in during["profile"]
    BY <1>1, <1>2, <2>1, <2>2, PartNames
  <2>4. UNCHANGED <<source, cachedView, fanOut, during, holes>>
    BY <1>7 DEF QueryProfile
  <2>5. /\ listed' = listed \/ listed' = version
        /\ holes' = holes
        /\ holes \subseteq Parts /\ "profile" \in Parts
    BY <1>2, <2>2, <2>4, PartNames
  <2> QED BY <1>3, <2>1, <2>2, <2>3, <2>4, <2>5
<1>8. CASE ReadPresence
  BY <1>1, <1>2, <1>3, <1>8, PartNames DEF ReadPresence, Pending
<1>9. ASSUME NEW p \in Parts, QueryEngine(p) PROVE ViewInv'
  <2>1. /\ Pending(p) /\ fanOut = "running" /\ Shows(p, source[p])
        /\ UNCHANGED <<source, listed, cachedView, fanOut, during, holes>>
    BY <1>9 DEF QueryEngine, Pending
  <2>2. /\ source[p] \in Versions /\ source[p] \in during[p]
        /\ listed' = listed /\ holes' = holes /\ holes \subseteq Parts
    BY <1>1, <1>2, <2>1
  <2> QED BY <1>3, <2>1, <2>2
<1>10. ASSUME NEW p \in Parts, QueryFails(p) PROVE ViewInv'
  <2>1. /\ Pending(p) /\ Shows(p, 0) /\ holes' = holes \union {p}
        /\ UNCHANGED <<source, listed, cachedView, fanOut, during>>
    BY <1>10 DEF QueryFails
  <2> QED BY <1>2, <1>3, <2>1, PartNames
<1>11. CASE Answer
  <2>1. /\ fanOut = "running" /\ fanOut' = "answered"
        /\ NotThere \notin {view[p] : p \in Parts}
        /\ UNCHANGED <<cachedView, source, listed, view, during, holes>>
    BY <1>11 DEF Answer, Configured
  <2>2. CustomerViewTypeOK'
    BY <1>2, <2>1 DEF CustomerViewTypeOK
  <2>3. ViewTellsItsSources'
    BY <1>1, <2>1 DEF ViewTellsItsSources, Showable
  <2> QED BY <1>1, <2>1, <2>2, <2>3 DEF ViewInv, Unanswered, NotThere
<1>12. CASE UNCHANGED viewVars
  BY <1>1, <1>2, <1>12 DEF viewVars, ViewInv, CustomerViewTypeOK, Showable,
                           ViewTellsItsSources, Unanswered, NotThere
<1> QED BY <1>4, <1>5, <1>6, <1>7, <1>8, <1>9, <1>10, <1>11, <1>12
        DEF CustomerViewNext

LEMMA ViewInvariant == CustomerViewSpec => []ViewInv
<1>1. CustomerViewInit => ViewInv
  <2> SUFFICES ASSUME CustomerViewInit PROVE ViewInv
    OBVIOUS
  <2>1. /\ source = [p \in Parts |-> 0] /\ listed = NotThere
        /\ cachedView = Unanswered /\ view = Unanswered
        /\ fanOut = "idle" /\ during = [p \in Parts |-> {}] /\ holes = {}
    BY DEF CustomerViewInit
  <2>2. CustomerViewTypeOK
    BY <2>1, PartNames DEF CustomerViewTypeOK, Unanswered
  <2>3. source["session_presence"] = 0
    BY <2>1, PartNames
  <2> QED BY <2>1, <2>2, <2>3 DEF ViewInv, ViewTellsItsSources
<1> QED BY <1>1, ViewKept, PTL DEF CustomerViewSpec

\* Each part of an answered view is what its engine, or the list cache, had
\* while the view was put together, or empty because its own query failed: for
\* any engines, versions and order of the queries.
THEOREM ViewIsOfItsTime == CustomerViewSpec => []ViewTellsItsSources
<1>1. ViewInv => ViewTellsItsSources
  BY DEF ViewInv
<1> QED BY <1>1, ViewInvariant, PTL

-----------------------------------------------------------------------------
(***************************************************************************)
(* The composition that the runs check: a behaviour of it is one of each   *)
(* component, so that what is proved of a component holds of it.           *)
(***************************************************************************)

\* The streams and the bus, run one at a time, each do what they do alone.
THEOREM StreamsRunTheirParts ==
  Spec => /\ IngestSpec /\ EmissionSpec /\ SubscriptionSpec
          /\ EventBusSpec /\ CustomerViewSpec
<1>1. Init => /\ IngestInit /\ EmissionInit /\ SubscriptionInit
              /\ EventBusInit /\ CustomerViewInit
  BY DEF Init
<1>2. [Next]_vars => /\ [IngestNext]_ingestVars
                     /\ [EmissionNext]_emissionVars
                     /\ [SubscriptionNext]_subscriptionVars
                     /\ [EventBusNext]_busVars
                     /\ [CustomerViewNext]_viewVars
  BY DEF Next, Rests, vars
<1> QED BY <1>1, <1>2, PTL
        DEF Spec, IngestSpec, EmissionSpec, SubscriptionSpec, EventBusSpec,
            CustomerViewSpec

\* In every state of that composition the variables of every component, the
\* four that rest included, have their types.
THEOREM StreamsTypeCorrect == Spec => []StreamsTypeOK
<1>1. /\ IInv => IngestTypeOK
      /\ EmissionInv => EmissionTypeOK
      /\ SubscriptionInv => SubscriptionTypeOK
      /\ BusInv => EventBusTypeOK
      /\ ViewInv => CustomerViewTypeOK
  BY DEF IInv, EmissionInv, SubscriptionInv, BusInv, ViewInv
<1>2. IngestTypeOK /\ EmissionTypeOK /\ SubscriptionTypeOK /\ EventBusTypeOK
        /\ CustomerViewTypeOK => StreamsTypeOK
  BY DEF StreamsTypeOK
<1> QED BY <1>1, <1>2, StreamsRunTheirParts, IngestInvariant, EmissionInvariant,
           SubscriptionInvariant, BusInductive, ViewInvariant, PTL

=============================================================================
