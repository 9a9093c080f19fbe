----------------------- MODULE WriteBehindOnceProofs -----------------------
(***************************************************************************)
(* While flushFn returns no error, a write is tried at most once, in order *)
(* unless two flushes overlap, and the buffer is bounded; with the         *)
(* program's own, which never does, the buffer implements WriteQueue.      *)
(***************************************************************************)
EXTENDS WriteBehindProofs, SequenceTheorems, FiniteSetTheorems

LEMMA InjectiveAppend ==
  ASSUME NEW S, NEW s \in Seq(S), NEW e \in S,
         IsInjective(s), e \notin Range(s)
  PROVE  IsInjective(Append(s, e))
<1>1. \A k \in DOMAIN s : s[k] # e
  BY DEF Range
<1>2. /\ DOMAIN Append(s, e) = 1 .. Len(s) + 1
      /\ \A k \in DOMAIN s : Append(s, e)[k] = s[k]
      /\ Append(s, e)[Len(s) + 1] = e
      /\ DOMAIN s = 1 .. Len(s)
  OBVIOUS
<1> SUFFICES ASSUME NEW a \in 1 .. Len(s) + 1, NEW b \in 1 .. Len(s) + 1,
                    Append(s, e)[a] = Append(s, e)[b]
             PROVE  a = b
  BY <1>2 DEF IsInjective
<1>3. CASE a \in DOMAIN s /\ b \in DOMAIN s
  BY <1>2, <1>3 DEF IsInjective
<1>4. CASE a = Len(s) + 1 \/ b = Len(s) + 1
  BY <1>1, <1>2, <1>4
<1> QED BY <1>2, <1>3, <1>4

LEMMA InjectiveEmpty == IsInjective(<<>>)
BY DEF IsInjective

(***************************************************************************)
(* The places a write can be in do not overlap until a batch is requeued.  *)
(***************************************************************************)
PlacesDisjoint ==
  /\ IsInjective(items)
  /\ \A f \in Flushers : IsInjective(batch[f])
  /\ \A f \in Flushers : Range(items) \intersect Rest(f) = {}
  /\ \A f, g \in Flushers : f # g => Rest(f) \intersect Rest(g) = {}
  /\ IsInjective(tried)
  /\ Range(tried) \intersect Range(items) = {}
  /\ \A f \in Flushers : Range(tried) \intersect Rest(f) = {}

THEOREM PlacesAreDisjoint ==
  Spec => [](errs = 0 => PlacesDisjoint)
<1> USE WriteBehindAssumption DEF WriteBehindAssumption
<1>1. Init => (errs = 0 => PlacesDisjoint)
  BY RangeEmpty, InjectiveEmpty DEF Init, PlacesDisjoint, Rest
<1>2. /\ TypeOK /\ ControlOK /\ NoLostWrite /\ (errs = 0 => PlacesDisjoint)
      /\ [Next]_vars
      => (errs = 0 => PlacesDisjoint)'
  <2> SUFFICES ASSUME TypeOK, ControlOK, NoLostWrite,
                      errs = 0 => PlacesDisjoint, [Next]_vars, errs' = 0
               PROVE  PlacesDisjoint'
    OBVIOUS
  <2>0. errs = 0 /\ \A f \in Flushers : ~Requeue(f)
    <3>1. errs \in Nat
      BY DEF TypeOK
    <3>2. \A f \in Flushers : ~Requeue(f)
      BY <3>1 DEF Requeue
    <3>3. errs' = errs
      BY <3>2 DEF Next, vars, Handler, Flush, MainStep, StartRPC, EndRPC, Add,
                  AddTo, Swap, WriteItem, FlushDone, Tick, LoopReturns, Sigterm,
                  GracefulStopReturns, CloseManager, LoopJoined, ClosePools,
                  Terminated, histories
    <3> QED BY <3>2, <3>3
  <2> PlacesDisjoint
    BY <2>0
  <2>1. ASSUME UNCHANGED <<buffer, tried>>
        PROVE  PlacesDisjoint'
    <3>1. /\ items' = items /\ batch' = batch /\ tried' = tried
          /\ \A f \in Flushers : Rest(f)' = Rest(f)
      BY <2>1 DEF Rest, buffer
    <3> QED BY <3>1 DEF PlacesDisjoint
  <2>2. ASSUME NEW h \in Handlers, NEW w \in Writes, Add(h, w)
        PROVE  PlacesDisjoint'
    <3>1. /\ items' = Append(items, w) /\ UNCHANGED <<batch, at, tried>>
          /\ w \notin Range(log)
      BY <2>2 DEF Add, AddTo
    <3>2. \A f \in Flushers : Rest(f)' = Rest(f)
      BY <3>1 DEF Rest
    <3>3. /\ w \notin Range(items) /\ w \notin Range(tried)
          /\ \A f \in Flushers : w \notin Rest(f)
      BY <3>1 DEF NoLostWrite, Pending
    <3>4. Range(items') = Range(items) \union {w}
      BY <3>1, RangeAppend DEF TypeOK
    <3>5. IsInjective(items')
      BY <3>1, <3>3, InjectiveAppend DEF TypeOK, PlacesDisjoint
    <3> QED BY <3>1, <3>2, <3>3, <3>4, <3>5 DEF PlacesDisjoint
  <2>3. ASSUME NEW f \in Flushers, Swap(f)
        PROVE  PlacesDisjoint'
    <3>1. CASE items = <<>>
      BY <2>1, <2>3, <3>1 DEF Swap, First
    <3>2. CASE items # <<>>
      <4>1. /\ items' = <<>> /\ tried' = tried
            /\ batch' = [batch EXCEPT ![f] = items]
            /\ at' = [at EXCEPT ![f] = 1]
            /\ pc[f] = "swap"
        BY <2>3, <3>2 DEF Swap, First
      <4>2. Rest(f)' = Range(items)
        <5>1. batch'[f] = items /\ at'[f] = 1 /\ DOMAIN items = 1 .. Len(items)
          BY <4>1 DEF TypeOK
        <5> QED BY <5>1 DEF Rest, Range
      <4>3. \A g \in Flushers \ {f} : Rest(g)' = Rest(g)
        BY <4>1, RestFrame DEF TypeOK
      <4>4. Range(items') = {} /\ IsInjective(items')
        BY <4>1, RangeEmpty, InjectiveEmpty
      <4>5. \A g \in Flushers : IsInjective(batch'[g])
        BY <4>1 DEF TypeOK, PlacesDisjoint
      <4> QED BY <4>1, <4>2, <4>3, <4>4, <4>5 DEF PlacesDisjoint
    <3> QED BY <3>1, <3>2
  <2>4. ASSUME NEW f \in Flushers, WriteItem(f)
        PROVE  PlacesDisjoint'
    <3> DEFINE w == batch[f][at[f]]
    <3>1. /\ UNCHANGED <<items, batch>> /\ at[f] <= Len(batch[f])
          /\ at' = [at EXCEPT ![f] = @ + 1]
          /\ tried' = Append(tried, w)
      BY <2>4 DEF WriteItem
    <3>2. w \in Writes /\ w \in Rest(f)
      BY <3>1 DEF TypeOK, Rest
    <3>3. Range(tried') = Range(tried) \union {w}
      BY <3>1, <3>2, RangeAppend DEF TypeOK
    <3>4. IsInjective(tried')
      <4>1. IsInjective(tried) /\ w \notin Range(tried)
        BY <3>2 DEF PlacesDisjoint
      <4> HIDE DEF w
      <4> QED BY <3>1, <3>2, <4>1, InjectiveAppend DEF TypeOK
    <3>5. Rest(f)' = Rest(f) \ {w}
      <4>1. /\ at[f] \in 1 .. Len(batch[f]) /\ at'[f] = at[f] + 1
            /\ batch'[f] = batch[f] /\ DOMAIN batch[f] = 1 .. Len(batch[f])
        BY <3>1 DEF TypeOK
      <4>2. \A k \in at[f] + 1 .. Len(batch[f]) : batch[f][k] # w
        BY <4>1 DEF PlacesDisjoint, IsInjective
      <4>3. at[f] .. Len(batch[f]) = {at[f]} \union (at[f] + 1 .. Len(batch[f]))
        BY <4>1
      <4> QED BY <4>1, <4>2, <4>3 DEF Rest
    <3>6. \A g \in Flushers \ {f} : Rest(g)' = Rest(g)
      BY <3>1, RestFrame DEF TypeOK
    <3>7. \A g \in Flushers \ {f} : w \notin Rest(g)
      BY <3>2 DEF PlacesDisjoint
    <3>8. w \notin Range(items)
      BY <3>2 DEF PlacesDisjoint
    <3> HIDE DEF w
    <3> QED
      BY <3>1, <3>3, <3>4, <3>5, <3>6, <3>7, <3>8 DEF PlacesDisjoint
  <2>5. ASSUME NEW f \in Flushers, FlushDone(f)
        PROVE  PlacesDisjoint'
    BY <2>1, <2>5 DEF FlushDone, histories
  <2>6. ASSUME NEW h \in Handlers, StartRPC(h) \/ EndRPC(h)
        PROVE  PlacesDisjoint'
    BY <2>1, <2>6 DEF StartRPC, EndRPC, histories
  <2>7. CASE Tick \/ LoopReturns
    BY <2>1, <2>7 DEF Tick, LoopReturns, histories
  <2>8. CASE MainStep
    BY <2>1, <2>8 DEF MainStep, Sigterm, GracefulStopReturns, CloseManager,
                      LoopJoined, ClosePools, histories
  <2>9. CASE Terminated \/ UNCHANGED vars
    BY <2>1, <2>9 DEF Terminated, vars, buffer
  <2> QED
    BY <2>0, <2>2, <2>3, <2>4, <2>5, <2>6, <2>7, <2>8, <2>9
       DEF Next, Handler, Flush
<1> QED
  BY <1>1, <1>2, TypeCorrect, ControlCorrect, NoWriteIsLost, PTL DEF Spec

\* No write is given to WriteRecord twice, and none that was tried is still
\* waiting to be: two flushes, whoever runs them, never share an item.
THEOREM TriedAtMostOnce == Spec => []AtMostOnce
<1>1. (errs = 0 => PlacesDisjoint) => AtMostOnce
  BY DEF PlacesDisjoint, AtMostOnce, Pending
<1> QED BY <1>1, PlacesAreDisjoint, PTL

-----------------------------------------------------------------------------
(***************************************************************************)
(* The order of the writes, as long as no two flushes have overlapped: the *)
(* log is what was tried, then the rest of the one flush there may be,     *)
(* then the buffer.                                                        *)
(***************************************************************************)
RestInOrder(f) == SubSeq(batch[f], at[f], Len(batch[f]))

OrderOK ==
  ~overlapped /\ errs = 0 =>
    /\ \A f, g \in Flushing : f = g
    /\ Flushing = {} => log = tried \o items
    /\ \A f \in Flushing : log = tried \o (RestInOrder(f) \o items)

\* What is appended to a concatenation is appended to its last part.
LEMMA AppendToLast ==
  ASSUME NEW s \in Seq(Writes), NEW t \in Seq(Writes), NEW e \in Writes
  PROVE  Append(s \o t, e) = s \o Append(t, e)
<1>1. <<e>> \in Seq(Writes) /\ s \o t \in Seq(Writes)
  BY ConcatProperties
<1>2. Append(s \o t, e) = (s \o t) \o <<e>> /\ Append(t, e) = t \o <<e>>
  BY <1>1, AppendIsConcat
<1> QED BY <1>1, <1>2, ConcatAssociative

\* An element that goes from the head of what follows to the end of what is
\* before it leaves the whole as it was.
LEMMA ElementMoves ==
  ASSUME NEW s \in Seq(Writes), NEW t \in Seq(Writes), NEW e \in Writes
  PROVE  s \o (<<e>> \o t) = Append(s, e) \o t
<1>1. <<e>> \in Seq(Writes) /\ Append(s, e) = s \o <<e>>
  BY AppendIsConcat
<1>2. (s \o <<e>>) \o t = s \o (<<e>> \o t)
  BY <1>1, ConcatAssociative
<1> QED BY <1>1, <1>2

\* The first part of a concatenation is a prefix of it.
LEMMA FirstIsPrefix ==
  ASSUME NEW s \in Seq(Writes), NEW t \in Seq(Writes)
  PROVE  Len(s) <= Len(s \o t) /\ s = SubSeq(s \o t, 1, Len(s))
<1>1. Len(s) \in Nat /\ Len(t) \in Nat /\ Len(s \o t) = Len(s) + Len(t)
  BY LenProperties, ConcatProperties
<1>2. CASE Len(s) = 0
  <2>1. s = <<>>
    BY <1>2, EmptySeq
  <2> QED BY <1>1, <1>2, <2>1, SubSeqEmpty
<1>3. CASE Len(s) # 0
  <2>1. SubSeq(s \o t, 1, Len(s)) = SubSeq(s, 1, Len(s))
    BY <1>1, <1>3, SubSeqOfConcat1
  <2> QED BY <1>1, <2>1, SubSeqFull
<1> QED BY <1>2, <1>3

LEMMA RestInOrderType ==
  ASSUME TypeOK, NEW f \in Flushers
  PROVE  RestInOrder(f) \in Seq(Writes)
<1>1. /\ batch[f] \in Seq(Writes) /\ at[f] \in Nat \ {0}
      /\ Len(batch[f]) \in Nat
  BY LenProperties DEF TypeOK
<1>2. \A i \in at[f] .. Len(batch[f]) : batch[f][i] \in Writes
  BY <1>1, ElementOfSeq
<1> QED BY <1>1, <1>2, SubSeqProperties DEF RestInOrder

LEMMA OrderKept ==
  ASSUME TypeOK, ControlOK, OrderOK, [Next]_vars
  PROVE  OrderOK'
<1> USE WriteBehindAssumption DEF WriteBehindAssumption
<1> SUFFICES ASSUME ~overlapped', errs' = 0
             PROVE  OrderOK'
  BY DEF OrderOK
<1>0. ~overlapped /\ errs = 0 /\ \A f \in Flushers : ~Requeue(f)
  <2>1. errs \in Nat /\ overlapped \in BOOLEAN
    BY DEF TypeOK
  <2>2. \A f \in Flushers : ~Requeue(f)
    BY <2>1 DEF Requeue
  <2>3. errs' = errs
    BY <2>2 DEF Next, vars, Handler, Flush, MainStep, StartRPC, EndRPC, Add,
                AddTo, Swap, WriteItem, FlushDone, Tick, LoopReturns, Sigterm,
                GracefulStopReturns, CloseManager, LoopJoined, ClosePools,
                Terminated, histories
  <2>4. overlapped => overlapped'
    BY <2>2 DEF Next, vars, Handler, Flush, MainStep, StartRPC, EndRPC, Add,
                AddTo, Swap, WriteItem, FlushDone, Tick, LoopReturns, Sigterm,
                GracefulStopReturns, CloseManager, LoopJoined, ClosePools,
                Terminated, histories
  <2> QED BY <2>2, <2>3, <2>4
<1>a. /\ \A f, g \in Flushing : f = g
      /\ Flushing = {} => log = tried \o items
      /\ \A f \in Flushing : log = tried \o (RestInOrder(f) \o items)
  BY <1>0 DEF OrderOK
<1>b. /\ items \in Seq(Writes) /\ tried \in Seq(Writes) /\ log \in Seq(Writes)
      /\ \A f \in Flushers : RestInOrder(f) \in Seq(Writes)
  BY RestInOrderType DEF TypeOK
<1>c. Flushing \subseteq Flushers
  BY DEF Flushing
\* A step that moves no write and starts or ends no flush.
<1>1. ASSUME UNCHANGED <<buffer, log, tried>>, Flushing' = Flushing
      PROVE  OrderOK'
  BY <1>1, <1>a DEF OrderOK, RestInOrder, buffer
<1>2. ASSUME NEW h \in Handlers, StartRPC(h) \/ EndRPC(h)
      PROVE  OrderOK'
  <2>1. Flushing' = Flushing
    BY <1>2 DEF TypeOK, Flushers, Flushing, StartRPC, EndRPC
  <2> QED BY <1>1, <1>2, <2>1 DEF StartRPC, EndRPC, histories
<1>3. ASSUME NEW h \in Handlers, NEW w \in Writes, Add(h, w)
      PROVE  OrderOK'
  <2>1. /\ items' = Append(items, w) /\ log' = Append(log, w)
        /\ UNCHANGED <<batch, at, tried>>
    BY <1>3 DEF Add, AddTo
  <2>2. Flushing' = Flushing
    BY <1>3 DEF TypeOK, Flushers, Flushing, Add, AddTo
  <2>3. \A f \in Flushers : RestInOrder(f)' = RestInOrder(f)
    BY <2>1 DEF RestInOrder
  <2>4. Flushing = {} => log' = tried \o Append(items, w)
    <3>1. Append(tried \o items, w) = tried \o Append(items, w)
      BY ONLY <1>b, w \in Writes, AppendToLast
    <3> QED BY <1>a, <2>1, <3>1
  <2>5. ASSUME NEW f \in Flushing
        PROVE  log' = tried \o (RestInOrder(f) \o Append(items, w))
    <3>1. RestInOrder(f) \o items \in Seq(Writes)
      BY <1>b, <1>c, ConcatProperties
    <3>2. log' = tried \o Append(RestInOrder(f) \o items, w)
      <4> DEFINE t == RestInOrder(f) \o items
      <4>1. t \in Seq(Writes) /\ log = tried \o t
        BY <1>a, <3>1
      <4> HIDE DEF t
      <4>2. Append(tried \o t, w) = tried \o Append(t, w)
        BY ONLY <1>b, <4>1, w \in Writes, AppendToLast
      <4>3. log' = tried \o Append(t, w)
        BY <2>1, <4>1, <4>2
      <4> QED BY <4>3 DEF t
    <3>3. Append(RestInOrder(f) \o items, w) = RestInOrder(f) \o Append(items, w)
      BY ONLY <1>b, <1>c, f \in Flushing, w \in Writes, AppendToLast
    <3> QED BY <3>2, <3>3
  <2> QED BY <1>a, <1>c, <2>1, <2>2, <2>3, <2>4, <2>5 DEF OrderOK
<1>4. ASSUME NEW f \in Flushers, Swap(f)
      PROVE  OrderOK'
  <2>1. CASE items = <<>>
    <3>1. Flushing' = Flushing
      BY <1>4, <2>1 DEF TypeOK, Flushers, Flushing, Swap, AfterFlush
    <3> QED BY <1>1, <1>4, <2>1, <3>1 DEF Swap
  <2>2. CASE items # <<>>
    <3>1. /\ items' = <<>> /\ UNCHANGED <<log, tried>>
          /\ batch' = [batch EXCEPT ![f] = items]
          /\ at' = [at EXCEPT ![f] = 1]
          /\ pc' = [pc EXCEPT ![f] = "write"]
          /\ Flushing = {}
      BY <1>4, <2>2 DEF Swap, First
    <3>2. Flushing' = {f}
      BY <3>1 DEF TypeOK, Flushing
    <3>3. RestInOrder(f)' = items
      <4>1. batch'[f] = items /\ at'[f] = 1
        BY <3>1 DEF TypeOK
      <4> QED BY <1>b, <4>1, SubSeqFull DEF RestInOrder
    <3>4. log' = tried' \o (items \o items')
      BY <1>a, <1>b, <3>1, ConcatEmptySeq
    <3> QED BY <3>2, <3>3, <3>4 DEF OrderOK
  <2> QED BY <2>1, <2>2
<1>5. ASSUME NEW f \in Flushers, WriteItem(f)
      PROVE  OrderOK'
  <2> DEFINE w == batch[f][at[f]]
             rest == SubSeq(batch[f], at[f] + 1, Len(batch[f]))
  <2>1. /\ UNCHANGED <<items, batch, log, pc>>
        /\ f \in Flushing /\ at[f] <= Len(batch[f])
        /\ at' = [at EXCEPT ![f] = @ + 1]
        /\ tried' = Append(tried, w)
    BY <1>5 DEF WriteItem, Flushing
  <2>2. Flushing' = {f}
    BY <1>a, <2>1 DEF Flushing
  <2>3. /\ batch[f] \in Seq(Writes) /\ at[f] \in 1 .. Len(batch[f])
        /\ Len(batch[f]) \in Nat /\ at'[f] = at[f] + 1
    BY <2>1, LenProperties DEF TypeOK
  <2>4. w \in Writes
    BY <2>3, ElementOfSeq
  <2>5. RestInOrder(f)' = rest
    BY <2>1, <2>3 DEF RestInOrder
  <2>6. RestInOrder(f) = <<w>> \o rest
    <3>1. at[f] \in 1 .. Len(batch[f]) /\ Len(batch[f]) \in at[f] .. Len(batch[f])
      BY <2>3
    <3>2. SubSeq(batch[f], at[f], Len(batch[f])) = <<w>> \o rest
      BY ONLY <2>3, <3>1, SubSeqRecursiveFirst
    <3> QED BY <3>2 DEF RestInOrder
  <2>7. rest \in Seq(Writes)
    <3>1. \A i \in at[f] + 1 .. Len(batch[f]) : batch[f][i] \in Writes
      BY <2>3, ElementOfSeq
    <3> QED BY <2>3, <3>1, SubSeqProperties
  <2>8. log = tried \o ((<<w>> \o rest) \o items)
    BY <1>a, <2>1, <2>6
  <2> HIDE DEF w, rest
  <2>9. log = Append(tried, w) \o (rest \o items)
    <3>1. (<<w>> \o rest) \o items = <<w>> \o (rest \o items)
      <4>1. <<w>> \in Seq(Writes)
        BY <2>4
      <4> QED BY <1>b, <2>7, <4>1, ConcatAssociative
    <3>2. rest \o items \in Seq(Writes)
      BY <1>b, <2>7, ConcatProperties
    <3>3. tried \o (<<w>> \o (rest \o items)) = Append(tried, w) \o (rest \o items)
      BY <1>b, <2>4, <3>2, ElementMoves
    <3> QED BY <2>8, <3>1, <3>3
  <2> QED BY <2>1, <2>2, <2>5, <2>9 DEF OrderOK
<1>6. ASSUME NEW f \in Flushers, FlushDone(f)
      PROVE  OrderOK'
  <2>1. /\ UNCHANGED <<buffer, log, tried>> /\ f \in Flushing
        /\ pc' = [pc EXCEPT ![f] = AfterFlush(f)]
        /\ at[f] > Len(batch[f])
    BY <1>6 DEF FlushDone, Flushing, histories
  <2>2. Flushing' = {}
    BY <1>a, <2>1 DEF TypeOK, Flushing, AfterFlush
  <2>3. RestInOrder(f) = <<>>
    <3>1. at[f] \in Int /\ Len(batch[f]) \in Int
      BY LenProperties DEF TypeOK
    <3> QED BY <2>1, <3>1, SubSeqEmpty DEF RestInOrder
  <2>4. log = tried \o items
    <3>1. <<>> \o items = items
      BY ONLY <1>b, ConcatEmptySeq
    <3> QED BY <1>a, <2>1, <2>3, <3>1
  <2> QED BY <2>1, <2>2, <2>4 DEF OrderOK, buffer
<1>7. CASE Tick \/ LoopReturns
  <2>1. Flushing' = Flushing
    BY <1>7 DEF TypeOK, Flushers, Flushing, Tick, LoopReturns
  <2> QED BY <1>1, <1>7, <2>1 DEF Tick, LoopReturns, histories
<1>8. CASE MainStep
  <2>1. Flushing' = Flushing
    BY <1>8 DEF TypeOK, Flushers, Flushing, MainStep, Sigterm,
                GracefulStopReturns, CloseManager, LoopJoined, ClosePools
  <2> QED BY <1>1, <1>8, <2>1
          DEF MainStep, Sigterm, GracefulStopReturns, CloseManager, LoopJoined,
              ClosePools, histories
<1>9. CASE Terminated \/ UNCHANGED vars
  BY <1>1, <1>9 DEF Terminated, vars, buffer, Flushing
<1> QED
  BY <1>0, <1>2, <1>3, <1>4, <1>5, <1>6, <1>7, <1>8, <1>9
     DEF Next, Handler, Flush

\* As long as no two flushes have run at once, the backend is given the writes
\* in the order in which their handlers acknowledged them, none left out.
THEOREM WritesStayInOrder == Spec => []InOrderUnlessOverlapped
<1>1. Init => OrderOK
  BY ConcatEmptySeq, EmptySeq DEF Init, OrderOK, Flushing
<1>2. TypeOK /\ OrderOK => InOrderUnlessOverlapped
  <2> SUFFICES ASSUME TypeOK, OrderOK, ~overlapped, errs = 0
               PROVE  Len(tried) <= Len(log) /\ tried = SubSeq(log, 1, Len(tried))
    BY DEF InOrderUnlessOverlapped
  <2>1. /\ items \in Seq(Writes) /\ tried \in Seq(Writes)
        /\ Flushing \subseteq Flushers
    BY DEF TypeOK, Flushing
  <2>2. CASE Flushing = {}
    BY <2>1, <2>2, FirstIsPrefix DEF OrderOK
  <2>3. ASSUME NEW f \in Flushing
        PROVE  Len(tried) <= Len(log) /\ tried = SubSeq(log, 1, Len(tried))
    <3>1. RestInOrder(f) \o items \in Seq(Writes)
      BY <2>1, RestInOrderType, ConcatProperties
    <3>2. log = tried \o (RestInOrder(f) \o items)
      BY DEF OrderOK
    <3> QED BY <2>1, <3>1, <3>2, FirstIsPrefix
  <2> QED BY <2>2, <2>3
<1> QED
  BY <1>1, <1>2, OrderKept, TypeCorrect, ControlCorrect, PTL DEF Spec

-----------------------------------------------------------------------------
(***************************************************************************)
(* The size of the buffer.  Only finitely many handlers can be on their    *)
(* way into flush(), however many there are: each took a step to get there.*)
(***************************************************************************)
Swapping == {h \in Handlers : pc[h] = "swap"}

SizeOK == IsFiniteSet(Swapping) /\ BufferBounded

\* What a crash of the process can lose is bounded by the size of the buffer
\* and the handlers that are about to flush it.
THEOREM BufferStaysBounded == Spec => []BufferBounded
<1> USE WriteBehindAssumption DEF WriteBehindAssumption
<1>1. Init => SizeOK
  <2> SUFFICES ASSUME Init
               PROVE  SizeOK
    OBVIOUS
  <2>1. Swapping = {}
    BY DEF Init, Swapping, Flushers
  <2>2. Len(items) = 0
    BY DEF Init
  <2>3. IsFiniteSet(Swapping) /\ Cardinality(Swapping) = 0
    BY <2>1, FS_EmptySet
  <2>4. Len(items) <= (MaxSize - 1) + Cardinality(Swapping)
    BY <2>2, <2>3
  <2> QED BY <2>3, <2>4 DEF SizeOK, BufferBounded, Swapping
<1>2. TypeOK /\ ControlOK /\ SizeOK /\ [Next]_vars => SizeOK'
  <2> SUFFICES ASSUME TypeOK, ControlOK, SizeOK, [Next]_vars
               PROVE  SizeOK'
    OBVIOUS
  <2>0. /\ errs \in Nat /\ items \in Seq(Writes) /\ Len(items) \in Nat
        /\ IsFiniteSet(Swapping) /\ Cardinality(Swapping) \in Nat
    BY LenProperties, FS_CardinalityType DEF TypeOK, SizeOK
  <2>1. ASSUME UNCHANGED <<items, errs>>, Swapping' = Swapping
        PROVE  SizeOK'
    BY <2>1 DEF SizeOK, BufferBounded, Swapping
  <2>2. ASSUME NEW h \in Handlers, StartRPC(h) \/ EndRPC(h)
        PROVE  SizeOK'
    <3>1. Swapping' = Swapping
      BY <2>2 DEF TypeOK, Flushers, Swapping, StartRPC, EndRPC
    <3> QED BY <2>1, <2>2, <3>1 DEF StartRPC, EndRPC, buffer, histories
  <2>3. ASSUME NEW h \in Handlers, NEW w \in Writes, Add(h, w)
        PROVE  SizeOK'
    <3>1. /\ Len(items') = Len(items) + 1 /\ errs' = errs
          /\ pc[h] = "open"
          /\ pc' = [pc EXCEPT ![h] = IF Len(items') >= MaxSize THEN "swap" ELSE @,
                              ![Loop] = IF @ = "none" THEN "select" ELSE @]
      BY <2>0, <2>3, AppendProperties DEF Add, AddTo, ShouldFlush
    <3>2. CASE Len(items') >= MaxSize
      <4>1. Swapping' = Swapping \union {h} /\ h \notin Swapping
        BY <3>1, <3>2 DEF TypeOK, Flushers, Swapping
      <4>2. /\ IsFiniteSet(Swapping')
            /\ Cardinality(Swapping') = Cardinality(Swapping) + 1
        BY <2>0, <4>1, FS_AddElement
      <4>3. errs' = 0 => Len(items) <= (MaxSize - 1) + Cardinality(Swapping)
        BY <3>1 DEF SizeOK, BufferBounded, Swapping
      <4>4. errs' = 0 => Len(items') <= (MaxSize - 1) + Cardinality(Swapping')
        BY <2>0, <3>1, <4>2, <4>3
      <4> QED BY <4>2, <4>4 DEF SizeOK, BufferBounded, Swapping
    <3>3. CASE ~(Len(items') >= MaxSize)
      <4>1. Swapping' = Swapping
        BY <3>1, <3>3 DEF TypeOK, Flushers, Swapping
      <4>2. Len(items') <= (MaxSize - 1) + Cardinality(Swapping')
        BY <2>0, <3>1, <3>3, <4>1
      <4> QED BY <2>0, <4>1, <4>2 DEF SizeOK, BufferBounded, Swapping
    <3> QED BY <3>2, <3>3
  <2>4. ASSUME NEW f \in Flushers, Swap(f)
        PROVE  SizeOK'
    <3>1. /\ Len(items') = 0 /\ pc[f] = "swap"
          /\ \E there \in {"select", "closed", "open", "write"} :
               pc' = [pc EXCEPT ![f] = there]
      <4>1. Len(items') = 0 /\ pc[f] = "swap"
        BY <2>4 DEF Swap, buffer
      <4>2. AfterFlush(f) \in {"select", "closed", "open"}
        BY DEF AfterFlush
      <4>3. \/ pc' = [pc EXCEPT ![f] = AfterFlush(f)]
            \/ pc' = [pc EXCEPT ![f] = "write"]
        BY <2>4 DEF Swap
      <4> QED BY <4>1, <4>2, <4>3
    <3>2. Swapping' \subseteq Swapping
      BY <3>1 DEF TypeOK, Flushers, Swapping
    <3>3. IsFiniteSet(Swapping') /\ Cardinality(Swapping') \in Nat
      BY <2>0, <3>2, FS_Subset, FS_CardinalityType
    <3>4. Len(items') <= (MaxSize - 1) + Cardinality(Swapping')
      BY <3>1, <3>3
    <3> QED BY <3>3, <3>4 DEF SizeOK, BufferBounded, Swapping
  <2>5. ASSUME NEW f \in Flushers, WriteItem(f) \/ FlushDone(f)
        PROVE  SizeOK'
    <3>1. Swapping' = Swapping
      BY <2>5 DEF TypeOK, Flushers, Swapping, WriteItem, FlushDone, AfterFlush
    <3> QED BY <2>1, <2>5, <3>1 DEF WriteItem, FlushDone, buffer, histories
  <2>6. ASSUME NEW f \in Flushers, Requeue(f)
        PROVE  SizeOK'
    <3>1. Swapping' = Swapping
      BY <2>6 DEF TypeOK, Flushers, Swapping, Requeue, AfterFlush
    <3>2. errs' # 0
      BY <2>0, <2>6 DEF Requeue
    <3> QED BY <2>0, <3>1, <3>2 DEF SizeOK, BufferBounded, Swapping
  <2>7. CASE Tick \/ LoopReturns
    <3>1. Swapping' = Swapping
      BY <2>7 DEF TypeOK, Flushers, Swapping, Tick, LoopReturns
    <3> QED BY <2>1, <2>7, <3>1 DEF Tick, LoopReturns, buffer, histories
  <2>8. CASE MainStep
    <3>1. Swapping' = Swapping
      BY <2>8 DEF TypeOK, Flushers, Swapping, MainStep, Sigterm,
                  GracefulStopReturns, CloseManager, LoopJoined, ClosePools
    <3> QED BY <2>1, <2>8, <3>1
            DEF MainStep, Sigterm, GracefulStopReturns, CloseManager,
                LoopJoined, ClosePools, buffer, histories
  <2>9. CASE Terminated \/ UNCHANGED vars
    BY <2>1, <2>9 DEF Terminated, vars, Swapping
  <2> QED
    BY <2>2, <2>3, <2>4, <2>5, <2>6, <2>7, <2>8, <2>9
       DEF Next, Handler, Flush
<1>3. SizeOK => BufferBounded
  BY DEF SizeOK
<1> QED BY <1>1, <1>2, <1>3, TypeCorrect, ControlCorrect, PTL DEF Spec

-----------------------------------------------------------------------------
(***************************************************************************)
(* The refinement, without liveness: every step of the buffer is a step of *)
(* WriteQueue or leaves its variables alone.                               *)
(***************************************************************************)
QueueVars == <<Range(log), Range(tried), ~poolsOpen>>

\* The buffer implements the abstract queue: the server tells callers nothing
\* it would have to take back, tries each write once, and gives up its storage
\* only when it owes no write.
THEOREM Refinement ==
  ASSUME MaxErrs = 0
  PROVE  Spec => ImplementsWriteQueue
<1>1. Init => Queue!Init
  BY RangeEmpty DEF Init, Queue!Init
<1>0. TypeOK => errs = 0
  BY DEF TypeOK
<1>2. /\ TypeOK /\ ControlOK /\ NoLostWrite /\ PlacesDisjoint /\ ShutdownOK
      /\ ClosedIsDrained /\ [Next]_vars
      => [Queue!Next]_QueueVars
  <2> SUFFICES ASSUME TypeOK, ControlOK, NoLostWrite, PlacesDisjoint,
                      ShutdownOK, ClosedIsDrained, [Next]_vars
               PROVE  [Queue!Next]_QueueVars
    OBVIOUS
  <2> USE WriteBehindAssumption DEF WriteBehindAssumption
  <2>1. ASSUME UNCHANGED <<log, tried, poolsOpen>>
        PROVE  [Queue!Next]_QueueVars
    BY <2>1 DEF QueueVars
  <2>2. ASSUME NEW h \in Handlers, NEW w \in Writes, Add(h, w)
        PROVE  [Queue!Next]_QueueVars
    <3>1. /\ Range(log') = Range(log) \union {w}
          /\ tried' = tried /\ poolsOpen' = poolsOpen /\ w \notin Range(log)
      BY <2>2, RangeAppend DEF Add, AddTo, TypeOK, process
    <3>2. poolsOpen
      BY <2>2 DEF Add, AddTo, ShutdownOK
    <3>3. Queue!Accept(w)
      BY <3>1, <3>2 DEF Queue!Accept
    <3> QED BY <3>3 DEF Queue!Next
  <2>3. ASSUME NEW f \in Flushers, WriteItem(f)
        PROVE  [Queue!Next]_QueueVars
    <3> DEFINE w == batch[f][at[f]]
    <3>1. /\ tried' = Append(tried, w) /\ UNCHANGED <<log, poolsOpen>>
          /\ at[f] <= Len(batch[f]) /\ pc[f] = "write"
      BY <2>3 DEF WriteItem, process
    <3>2. w \in Writes /\ w \in Rest(f)
      BY <3>1 DEF TypeOK, Rest
    <3>3. w \in Range(log) \ Range(tried)
      BY <3>2 DEF PlacesDisjoint, NoLostWrite, Pending
    <3>4. Range(tried') = Range(tried) \union {w}
      BY <3>1, <3>2, RangeAppend DEF TypeOK
    <3>5. poolsOpen
      BY <3>1, ClosedIsQuiet DEF ShutdownOK
    <3> HIDE DEF w
    <3>6. Queue!Settle(w)
      BY <3>1, <3>3, <3>4, <3>5 DEF Queue!Settle
    <3> QED BY <3>2, <3>6 DEF Queue!Next
  <2>4. CASE ClosePools
    <3>1. Queue!Close
      BY <1>0, <2>4 DEF ClosePools, ClosedIsDrained, Queue!Close, histories
    <3> QED BY <3>1 DEF Queue!Next
  <2>5. ASSUME NEW f \in Flushers, Swap(f) \/ FlushDone(f) \/ Requeue(f)
        PROVE  [Queue!Next]_QueueVars
    BY <2>1, <2>5 DEF Swap, First, FlushDone, Requeue, histories, process
  <2>6. ASSUME NEW h \in Handlers, StartRPC(h) \/ EndRPC(h)
        PROVE  [Queue!Next]_QueueVars
    BY <2>1, <2>6 DEF StartRPC, EndRPC, histories, process
  <2>7. CASE Tick \/ LoopReturns
    BY <2>1, <2>7 DEF Tick, LoopReturns, histories, process
  <2>8. CASE Sigterm \/ GracefulStopReturns \/ CloseManager \/ LoopJoined
    BY <2>1, <2>8 DEF Sigterm, GracefulStopReturns, CloseManager, LoopJoined,
                      histories, process
  <2>9. CASE Terminated \/ UNCHANGED vars
    BY <2>1, <2>9 DEF Terminated, vars
  <2> QED
    BY <2>2, <2>3, <2>4, <2>5, <2>6, <2>7, <2>8, <2>9
       DEF Next, Handler, Flush, MainStep
<1> QED
  BY <1>0, <1>1, <1>2, TypeCorrect, ControlCorrect, NoWriteIsLost,
     PlacesAreDisjoint, ShutdownCorrect, CloseDrains, PTL
     DEF Spec, ImplementsWriteQueue, Queue!Spec, QueueVars
=============================================================================
