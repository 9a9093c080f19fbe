------------------------- MODULE WriteBehindProofs -------------------------
(***************************************************************************)
(* Theorems about WriteBehind, for any number of handlers and writes and   *)
(* any buffer size.                                                        *)
(***************************************************************************)
EXTENDS WriteBehind, TLAPS

\* The elements of an extended or concatenated sequence.
LEMMA RangeAppend ==
  ASSUME NEW S, NEW s \in Seq(S), NEW e \in S
  PROVE  Range(Append(s, e)) = Range(s) \union {e}
<1>1. Range(Append(s, e)) \subseteq Range(s) \union {e}
  BY DEF Range
<1>2. Range(s) \subseteq Range(Append(s, e))
  <2> SUFFICES ASSUME NEW k \in DOMAIN s
               PROVE  s[k] \in Range(Append(s, e))
    BY DEF Range
  <2>1. k \in DOMAIN Append(s, e) /\ Append(s, e)[k] = s[k]
    OBVIOUS
  <2> QED BY <2>1 DEF Range
<1>3. e \in Range(Append(s, e))
  <2>1. /\ Len(s) + 1 \in DOMAIN Append(s, e)
        /\ Append(s, e)[Len(s) + 1] = e
    OBVIOUS
  <2> QED BY <2>1 DEF Range
<1> QED BY <1>1, <1>2, <1>3

LEMMA RangeConcat ==
  ASSUME NEW S, NEW s \in Seq(S), NEW t \in Seq(S)
  PROVE  Range(s \o t) = Range(s) \union Range(t)
<1>1. Range(s \o t) \subseteq Range(s) \union Range(t)
  <2> SUFFICES ASSUME NEW k \in DOMAIN (s \o t)
               PROVE  (s \o t)[k] \in Range(s) \union Range(t)
    BY DEF Range
  <2>1. CASE k <= Len(s)
    BY <2>1 DEF Range
  <2>2. CASE k > Len(s)
    <3>1. k - Len(s) \in DOMAIN t /\ (s \o t)[k] = t[k - Len(s)]
      BY <2>2
    <3> QED BY <3>1 DEF Range
  <2> QED BY <2>1, <2>2
<1>2. Range(s) \subseteq Range(s \o t)
  <2> SUFFICES ASSUME NEW k \in DOMAIN s
               PROVE  s[k] \in Range(s \o t)
    BY DEF Range
  <2>1. k \in DOMAIN (s \o t) /\ (s \o t)[k] = s[k]
    OBVIOUS
  <2> QED BY <2>1 DEF Range
<1>3. Range(t) \subseteq Range(s \o t)
  <2> SUFFICES ASSUME NEW k \in DOMAIN t
               PROVE  t[k] \in Range(s \o t)
    BY DEF Range
  <2>1. Len(s) + k \in DOMAIN (s \o t) /\ (s \o t)[Len(s) + k] = t[k]
    OBVIOUS
  <2> QED BY <2>1 DEF Range
<1> QED BY <1>1, <1>2, <1>3

LEMMA RangeEmpty == Range(<<>>) = {}
BY DEF Range

-----------------------------------------------------------------------------
(***************************************************************************)
(* Type correctness.                                                       *)
(***************************************************************************)

\* The variables always have their types: a flush never runs past its batch,
\* and nothing but a write enters the buffer or the histories.
THEOREM TypeCorrect == Spec => []TypeOK
<1> USE WriteBehindAssumption DEF WriteBehindAssumption, Flushers
<1>1. Init => TypeOK
  <2> SUFFICES ASSUME Init
               PROVE  TypeOK
    OBVIOUS
  <2>1. <<>> \in Seq(Writes)
    OBVIOUS
  <2>2. pc \in [Flushers -> {"none", "open", "select", "wait",
                             "swap", "write", "exited", "closed"}]
    BY DEF Init
  <2>3. /\ batch \in [Flushers -> Seq(Writes)]
        /\ at \in [Flushers -> Nat \ {0}]
    BY <2>1 DEF Init
  <2>4. errs \in 0 .. MaxErrs
    BY DEF Init
  <2> QED BY <2>1, <2>2, <2>3, <2>4 DEF Init, TypeOK
<1>2. TypeOK /\ [Next]_vars => TypeOK'
  <2> SUFFICES ASSUME TypeOK, [Next]_vars
               PROVE  TypeOK'
    OBVIOUS
  <2> USE DEF buffer, process, histories
  <2>1. ASSUME NEW h \in Handlers, StartRPC(h)
        PROVE  TypeOK'
    BY <2>1 DEF TypeOK, StartRPC
  <2>2. ASSUME NEW h \in Handlers, EndRPC(h)
        PROVE  TypeOK'
    BY <2>2 DEF TypeOK, EndRPC
  <2>3. ASSUME NEW h \in Handlers, NEW w \in Writes, Add(h, w)
        PROVE  TypeOK'
    <3>1. items' \in Seq(Writes) /\ log' \in Seq(Writes)
      BY <2>3 DEF TypeOK, Add, AddTo, ShouldFlush
    <3>2. pc' \in [Flushers -> {"none", "open", "select", "wait",
                                "swap", "write", "exited", "closed"}]
      BY <2>3 DEF TypeOK, Add, AddTo, ShouldFlush
    <3> QED BY <2>3, <3>1, <3>2 DEF TypeOK, Add, AddTo, ShouldFlush
  <2>4. ASSUME NEW f \in Flushers, Swap(f)
        PROVE  TypeOK'
    <3>1. CASE items = <<>>
      BY <2>4, <3>1 DEF TypeOK, Swap, First, AfterFlush
    <3>2. CASE items # <<>>
      <4>1. UNCHANGED <<process, log, tried, refused, errs>> /\ items' = <<>>
            /\ pc' = [pc EXCEPT ![f] = "write"]
            /\ batch' = [batch EXCEPT ![f] = items]
            /\ at' = [at EXCEPT ![f] = 1]
            /\ overlapped' = (overlapped \/ Flushing # {})
        BY <2>4, <3>2 DEF Swap, First
      <4>2. overlapped' \in BOOLEAN
        BY <4>1 DEF TypeOK
      <4> QED BY <4>1, <4>2 DEF TypeOK
    <3> QED BY <3>1, <3>2
  <2>5. ASSUME NEW f \in Flushers, WriteItem(f)
        PROVE  TypeOK'
    <3>1. batch[f][at[f]] \in Writes
      BY <2>5 DEF TypeOK, WriteItem
    <3>2. tried' \in Seq(Writes) /\ refused' \in SUBSET Writes
      BY <2>5, <3>1 DEF TypeOK, WriteItem
    <3> QED BY <2>5, <3>2 DEF TypeOK, WriteItem
  <2>6. ASSUME NEW f \in Flushers, FlushDone(f)
        PROVE  TypeOK'
    BY <2>6 DEF TypeOK, FlushDone, AfterFlush
  <2>7. ASSUME NEW f \in Flushers, Requeue(f)
        PROVE  TypeOK'
    <3>1. batch[f] \o items \in Seq(Writes)
      BY DEF TypeOK
    <3>2. errs' \in 0 .. MaxErrs
      BY <2>7 DEF TypeOK, Requeue
    <3> QED BY <2>7, <3>1, <3>2 DEF TypeOK, Requeue, Requeued, AfterFlush
  <2>8. CASE Tick \/ LoopReturns
    BY <2>8 DEF TypeOK, Tick, LoopReturns
  <2>9. CASE MainStep
    BY <2>9 DEF TypeOK, MainStep, Sigterm, GracefulStopReturns, CloseManager,
                LoopJoined, ClosePools
  <2>10. CASE Terminated \/ UNCHANGED vars
    BY <2>10 DEF TypeOK, Terminated, vars
  <2> QED
    BY <2>1, <2>2, <2>3, <2>4, <2>5, <2>6, <2>7, <2>8, <2>9, <2>10
       DEF Next, Handler, Flush
<1> QED BY <1>1, <1>2, PTL DEF Spec

-----------------------------------------------------------------------------
(***************************************************************************)
(* The control of the goroutines: which labels each kind of goroutine can  *)
(* be at, and that only a goroutine inside flushFn has writes left.        *)
(***************************************************************************)
ControlOK ==
  /\ \A h \in Handlers : pc[h] \in {"none", "open", "swap", "write"}
  /\ pc[Loop] \in {"none", "select", "swap", "write", "exited"}
  /\ pc[Main] \in {"none", "wait", "swap", "write", "closed"}
  /\ \A f \in Flushers : pc[f] # "write" => at[f] > Len(batch[f])

THEOREM ControlCorrect == Spec => []ControlOK
<1> USE WriteBehindAssumption DEF WriteBehindAssumption, Flushers
<1>1. Init => ControlOK
  BY DEF Init, ControlOK
<1>2. TypeOK /\ ControlOK /\ [Next]_vars => ControlOK'
  <2> SUFFICES ASSUME TypeOK, ControlOK, [Next]_vars
               PROVE  ControlOK'
    OBVIOUS
  <2> USE DEF buffer, process, histories
  <2>1. ASSUME NEW h \in Handlers, StartRPC(h) \/ EndRPC(h)
        PROVE  ControlOK'
    BY <2>1 DEF TypeOK, ControlOK, StartRPC, EndRPC
  <2>2. ASSUME NEW h \in Handlers, NEW w \in Writes, Add(h, w)
        PROVE  ControlOK'
    BY <2>2 DEF TypeOK, ControlOK, Add, AddTo
  <2>3. ASSUME NEW f \in Flushers, Swap(f)
        PROVE  ControlOK'
    <3>1. CASE items = <<>>
      BY <2>3, <3>1 DEF TypeOK, ControlOK, Swap, First, AfterFlush
    <3>2. CASE items # <<>>
      BY <2>3, <3>2 DEF TypeOK, ControlOK, Swap, First, First
    <3> QED BY <3>1, <3>2
  <2>4. ASSUME NEW f \in Flushers, WriteItem(f)
        PROVE  ControlOK'
    BY <2>4 DEF TypeOK, ControlOK, WriteItem
  <2>5. ASSUME NEW f \in Flushers, FlushDone(f)
        PROVE  ControlOK'
    BY <2>5 DEF TypeOK, ControlOK, FlushDone, AfterFlush
  <2>6. ASSUME NEW f \in Flushers, Requeue(f)
        PROVE  ControlOK'
    BY <2>6 DEF TypeOK, ControlOK, Requeue, AfterFlush
  <2>7. CASE Tick \/ LoopReturns
    BY <2>7 DEF TypeOK, ControlOK, Tick, LoopReturns
  <2>8. CASE MainStep
    BY <2>8 DEF TypeOK, ControlOK, MainStep, Sigterm, GracefulStopReturns,
                CloseManager, LoopJoined, ClosePools
  <2>9. CASE Terminated \/ UNCHANGED vars
    BY <2>9 DEF ControlOK, Terminated, vars
  <2> QED
    BY <2>1, <2>2, <2>3, <2>4, <2>5, <2>6, <2>7, <2>8, <2>9
       DEF Next, Handler, Flush
<1> QED BY <1>1, <1>2, TypeCorrect, PTL DEF Spec

-----------------------------------------------------------------------------
(***************************************************************************)
(* No write is lost.  The invariant is inductive beside TypeOK: every      *)
(* action moves writes between the buffer, the batches and `tried`.        *)
(***************************************************************************)

\* A goroutine outside flushFn has nothing left to write.
LEMMA RestIsEmpty ==
  ASSUME TypeOK, ControlOK, NEW f \in Flushers, pc[f] # "write"
  PROVE  Rest(f) = {}
<1>1. /\ at[f] \in Nat /\ Len(batch[f]) \in Nat
      /\ at[f] > Len(batch[f])
  BY DEF TypeOK, ControlOK
<1>2. at[f] .. Len(batch[f]) = {}
  BY <1>1
<1> QED BY <1>2 DEF Rest

\* The step lemma of a flush action that changes nothing but its goroutine's
\* own batch: what the others still have to write stays as it was.
LEMMA RestFrame ==
  ASSUME NEW f \in Flushers,
         \A g \in Flushers \ {f} : batch'[g] = batch[g] /\ at'[g] = at[g]
  PROVE  \A g \in Flushers \ {f} : Rest(g)' = Rest(g)
BY DEF Rest

LEMMA PendingFrame ==
  ASSUME UNCHANGED buffer
  PROVE  Pending' = Pending
BY DEF Pending, Rest, buffer

\* A batch holds only writes Add has taken, those already tried included: this
\* is what a requeue of the whole batch needs.
BatchesAreLogged == \A f \in Flushers : Range(batch[f]) \subseteq Range(log)

\* Every write a handler has acknowledged is in the buffer, ahead in a running
\* flush, or was given to WriteRecord, in every reachable state and for any
\* flushFn, also one that returns errors.
THEOREM NoWriteIsLost == Spec => []NoLostWrite
<1> USE WriteBehindAssumption DEF WriteBehindAssumption
<1>1. Init => NoLostWrite /\ BatchesAreLogged
  BY RangeEmpty DEF Init, NoLostWrite, BatchesAreLogged, Pending, Rest
<1>2. TypeOK /\ ControlOK /\ NoLostWrite /\ BatchesAreLogged /\ [Next]_vars
      => NoLostWrite'
  <2> SUFFICES ASSUME TypeOK, ControlOK, NoLostWrite, BatchesAreLogged,
                      [Next]_vars
               PROVE  NoLostWrite'
    OBVIOUS
  <2>1. ASSUME UNCHANGED <<buffer, log, tried>>
        PROVE  NoLostWrite'
    BY <2>1, PendingFrame DEF NoLostWrite
  <2>2. ASSUME NEW h \in Handlers, NEW w \in Writes, Add(h, w)
        PROVE  NoLostWrite'
    <3>1. Range(items') = Range(items) \union {w}
      BY <2>2, RangeAppend DEF Add, AddTo, TypeOK
    <3>2. Range(log') = Range(log) \union {w}
      BY <2>2, RangeAppend DEF Add, AddTo, TypeOK
    <3>3. \A f \in Flushers : Rest(f)' = Rest(f)
      BY <2>2 DEF Add, AddTo, Rest
    <3>4. Pending' = Pending \union {w}
      BY <3>1, <3>3 DEF Pending
    <3>5. tried' = tried
      BY <2>2 DEF Add, AddTo
    <3> QED BY <3>2, <3>4, <3>5 DEF NoLostWrite
  <2>3. ASSUME NEW f \in Flushers, Swap(f)
        PROVE  NoLostWrite'
    <3>1. CASE items = <<>>
      BY <2>1, <2>3, <3>1 DEF Swap, First
    <3>2. CASE items # <<>>
      <4>1. /\ items' = <<>> /\ UNCHANGED <<log, tried>>
            /\ batch' = [batch EXCEPT ![f] = items]
            /\ at' = [at EXCEPT ![f] = 1]
            /\ pc[f] = "swap"
        BY <2>3, <3>2 DEF Swap, First
      <4>2. Rest(f)' = Range(items)
        <5>1. batch'[f] = items /\ at'[f] = 1 /\ DOMAIN items = 1 .. Len(items)
          BY <4>1 DEF TypeOK
        <5> QED BY <5>1 DEF Rest, Range
      <4>3. \A g \in Flushers \ {f} : Rest(g)' = Rest(g)
        BY <4>1, RestFrame DEF TypeOK
      <4>4. Range(items') = {}
        BY <4>1, RangeEmpty
      <4>5. Rest(f) = {}
        BY <4>1, RestIsEmpty
      <4>6. Pending' = Pending
        BY <4>2, <4>3, <4>4, <4>5 DEF Pending
      <4> QED BY <4>1, <4>6 DEF NoLostWrite
    <3> QED BY <3>1, <3>2
  <2>4. ASSUME NEW f \in Flushers, WriteItem(f)
        PROVE  NoLostWrite'
    <3> DEFINE w == batch[f][at[f]]
    <3>1. /\ UNCHANGED <<items, batch, log>> /\ at[f] <= Len(batch[f])
          /\ at' = [at EXCEPT ![f] = @ + 1]
          /\ tried' = Append(tried, w)
      BY <2>4 DEF WriteItem
    <3>2. Range(tried') = Range(tried) \union {w}
      <4>1. w \in Writes
        BY <3>1 DEF TypeOK
      <4> QED BY <3>1, <4>1, RangeAppend DEF TypeOK
    <3>3. Rest(f) = Rest(f)' \union {w}
      BY <3>1 DEF TypeOK, Rest
    <3>4. \A g \in Flushers \ {f} : Rest(g)' = Rest(g)
      BY <3>1, RestFrame DEF TypeOK
    <3>5. Pending = Pending' \union {w}
      BY <3>1, <3>3, <3>4 DEF Pending
    <3> QED BY <3>1, <3>2, <3>5 DEF NoLostWrite
  <2>5. ASSUME NEW f \in Flushers, FlushDone(f)
        PROVE  NoLostWrite'
    BY <2>1, <2>5 DEF FlushDone, histories
  <2>6. ASSUME NEW f \in Flushers, Requeue(f)
        PROVE  NoLostWrite'
    <3>1. /\ items' = batch[f] \o items /\ UNCHANGED <<log, tried>>
          /\ batch' = [batch EXCEPT ![f] = <<>>]
          /\ at' = [at EXCEPT ![f] = 1]
      BY <2>6 DEF Requeue, Requeued, histories
    <3>2. Range(items') = Range(batch[f]) \union Range(items)
      BY <3>1, RangeConcat DEF TypeOK
    <3>3. Rest(f) \subseteq Range(batch[f]) /\ Rest(f)' = {}
      BY <3>1 DEF TypeOK, Rest, Range
    <3>4. \A g \in Flushers \ {f} : Rest(g)' = Rest(g)
      BY <3>1, RestFrame DEF TypeOK
    <3>5. Pending' = Pending \union Range(batch[f])
      BY <3>2, <3>3, <3>4 DEF Pending
    <3>6. Range(batch[f]) \subseteq Range(log)
      BY DEF BatchesAreLogged
    <3> QED BY <3>1, <3>5, <3>6 DEF NoLostWrite
  <2>7. ASSUME NEW h \in Handlers, StartRPC(h) \/ EndRPC(h)
        PROVE  NoLostWrite'
    BY <2>1, <2>7 DEF StartRPC, EndRPC, histories
  <2>8. CASE Tick \/ LoopReturns
    BY <2>1, <2>8 DEF Tick, LoopReturns, histories
  <2>9. CASE MainStep
    BY <2>1, <2>9 DEF MainStep, Sigterm, GracefulStopReturns, CloseManager,
                      LoopJoined, ClosePools, histories
  <2>10. CASE Terminated \/ UNCHANGED vars
    BY <2>1, <2>10 DEF Terminated, vars, buffer
  <2> QED
    BY <2>2, <2>3, <2>4, <2>5, <2>6, <2>7, <2>8, <2>9, <2>10
       DEF Next, Handler, Flush
<1>3. TypeOK /\ NoLostWrite /\ BatchesAreLogged /\ [Next]_vars
      => BatchesAreLogged'
  <2> SUFFICES ASSUME TypeOK, NoLostWrite, BatchesAreLogged, [Next]_vars
               PROVE  BatchesAreLogged'
    OBVIOUS
  <2>1. ASSUME UNCHANGED <<batch, log>>
        PROVE  BatchesAreLogged'
    BY <2>1 DEF BatchesAreLogged
  <2>2. ASSUME NEW h \in Handlers, NEW w \in Writes, Add(h, w)
        PROVE  BatchesAreLogged'
    <3>1. Range(log') = Range(log) \union {w} /\ batch' = batch
      BY <2>2, RangeAppend DEF Add, AddTo, TypeOK
    <3> QED BY <3>1 DEF BatchesAreLogged
  <2>3. ASSUME NEW f \in Flushers, Swap(f)
        PROVE  BatchesAreLogged'
    <3>1. CASE items = <<>>
      BY <2>1, <2>3, <3>1 DEF Swap, First, buffer
    <3>2. CASE items # <<>>
      <4>1. batch' = [batch EXCEPT ![f] = items] /\ log' = log
        BY <2>3, <3>2 DEF Swap, First
      <4>2. Range(items) \subseteq Range(log)
        BY DEF NoLostWrite, Pending
      <4> QED BY <4>1, <4>2 DEF TypeOK, BatchesAreLogged
    <3> QED BY <3>1, <3>2
  <2>4. ASSUME NEW f \in Flushers, Requeue(f)
        PROVE  BatchesAreLogged'
    <3>1. batch' = [batch EXCEPT ![f] = <<>>] /\ log' = log
      BY <2>4 DEF Requeue, Requeued, histories
    <3> QED BY <3>1, RangeEmpty DEF TypeOK, BatchesAreLogged
  <2>5. ASSUME NEW f \in Flushers, WriteItem(f) \/ FlushDone(f)
        PROVE  BatchesAreLogged'
    BY <2>1, <2>5 DEF WriteItem, FlushDone, buffer, histories
  <2>6. ASSUME NEW h \in Handlers, StartRPC(h) \/ EndRPC(h)
        PROVE  BatchesAreLogged'
    BY <2>1, <2>6 DEF StartRPC, EndRPC, buffer, histories
  <2>7. CASE Tick \/ LoopReturns
    BY <2>1, <2>7 DEF Tick, LoopReturns, buffer, histories
  <2>8. CASE MainStep
    BY <2>1, <2>8 DEF MainStep, Sigterm, GracefulStopReturns, CloseManager,
                      LoopJoined, ClosePools, buffer, histories
  <2>9. CASE Terminated \/ UNCHANGED vars
    BY <2>1, <2>9 DEF Terminated, vars
  <2> QED
    BY <2>2, <2>3, <2>4, <2>5, <2>6, <2>7, <2>8, <2>9
       DEF Next, Handler, Flush
<1> QED
  BY <1>1, <1>2, <1>3, TypeCorrect, ControlCorrect, PTL DEF Spec

-----------------------------------------------------------------------------
(***************************************************************************)
(* The shutdown.  While no flushFn has returned an error, as the program's *)
(* own never does, main's final flush leaves the buffer empty; nobody can  *)
(* fill it again before the pools are closed.                              *)
(***************************************************************************)
ShutdownOK ==
  /\ server = "stopped" => \A h \in Handlers : pc[h] = "none"
  /\ pc[Main] # "none" => server = "stopped"
  /\ stopCh => pc[Main] # "none"
  /\ pc[Loop] = "exited" => stopCh
  /\ pc[Main] \in {"swap", "write", "closed"} => pc[Loop] \in {"none", "exited"}
  /\ errs = 0 /\ pc[Loop] = "none" => items = <<>>
  /\ errs = 0 /\ pc[Main] \in {"write", "closed"} => items = <<>>
  /\ ~poolsOpen => pc[Main] = "closed"

THEOREM ShutdownCorrect == Spec => []ShutdownOK
<1> USE WriteBehindAssumption DEF WriteBehindAssumption, Flushers
<1>1. Init => ShutdownOK
  BY DEF Init, ShutdownOK
<1>2. TypeOK /\ ControlOK /\ ShutdownOK /\ [Next]_vars => ShutdownOK'
  <2> SUFFICES ASSUME TypeOK, ControlOK, ShutdownOK, [Next]_vars
               PROVE  ShutdownOK'
    OBVIOUS
  <2> USE DEF buffer, process, histories
  <2>1. ASSUME NEW h \in Handlers, StartRPC(h) \/ EndRPC(h)
        PROVE  ShutdownOK'
    BY <2>1 DEF TypeOK, ShutdownOK, StartRPC, EndRPC
  <2>2. ASSUME NEW h \in Handlers, NEW w \in Writes, Add(h, w)
        PROVE  ShutdownOK'
    <3>1. server # "stopped" /\ pc[Main] = "none" /\ UNCHANGED process
      BY <2>2 DEF Add, AddTo, ShutdownOK
    <3>2. pc'[Main] = "none" /\ pc'[Loop] # "none"
      BY <2>2, <3>1 DEF Add, AddTo, TypeOK
    <3>3. pc'[Loop] = "exited" => pc[Loop] = "exited"
      BY <2>2 DEF Add, AddTo, TypeOK
    <3> QED BY <3>1, <3>2, <3>3 DEF ShutdownOK
  <2>3. ASSUME NEW f \in Flushers, Swap(f)
        PROVE  ShutdownOK'
    <3>1. /\ pc[f] = "swap" /\ UNCHANGED process /\ items' = <<>>
          /\ \/ pc' = [pc EXCEPT ![f] = AfterFlush(f)]
             \/ pc' = [pc EXCEPT ![f] = "write"]
          /\ errs' = errs
      BY <2>3 DEF Swap, First
    <3> QED BY <3>1 DEF TypeOK, ControlOK, ShutdownOK, AfterFlush
  <2>4. ASSUME NEW f \in Flushers, WriteItem(f)
        PROVE  ShutdownOK'
    BY <2>4 DEF ShutdownOK, WriteItem
  <2>5. ASSUME NEW f \in Flushers, FlushDone(f)
        PROVE  ShutdownOK'
    BY <2>5 DEF TypeOK, ControlOK, ShutdownOK, FlushDone, AfterFlush
  <2>6. ASSUME NEW f \in Flushers, Requeue(f)
        PROVE  ShutdownOK'
    <3>1. errs' # 0 /\ pc[f] = "write" /\ UNCHANGED process
          /\ pc' = [pc EXCEPT ![f] = AfterFlush(f)]
      BY <2>6 DEF Requeue, TypeOK
    <3> QED BY <3>1 DEF TypeOK, ControlOK, ShutdownOK, AfterFlush
  <2>7. CASE Tick \/ LoopReturns
    BY <2>7 DEF TypeOK, ControlOK, ShutdownOK, Tick, LoopReturns
  <2>8. CASE Sigterm \/ GracefulStopReturns
    BY <2>8 DEF TypeOK, ShutdownOK, Sigterm, GracefulStopReturns
  <2>9. CASE CloseManager
    BY <2>9 DEF TypeOK, ControlOK, ShutdownOK, CloseManager
  <2>10. CASE LoopJoined \/ ClosePools
    BY <2>10 DEF TypeOK, ControlOK, ShutdownOK, LoopJoined, ClosePools
  <2>11. CASE Terminated \/ UNCHANGED vars
    BY <2>11 DEF ShutdownOK, Terminated, vars
  <2> QED
    BY <2>1, <2>2, <2>3, <2>4, <2>5, <2>6, <2>7, <2>8, <2>9, <2>10, <2>11
       DEF Next, Handler, Flush, MainStep
<1> QED BY <1>1, <1>2, TypeCorrect, ControlCorrect, PTL DEF Spec

\* Once main has closed the manager, nobody is in a flush or will enter one.
LEMMA ClosedIsQuiet ==
  ASSUME TypeOK, ControlOK, ShutdownOK, pc[Main] = "closed"
  PROVE  \A f \in Flushers : pc[f] \notin {"swap", "write", "select"}
BY WriteBehindAssumption
   DEF WriteBehindAssumption, Flushers, ControlOK, ShutdownOK

\* When Manager.Close has returned, every acknowledged write was given to
\* WriteRecord: neither an RPC that GracefulStop let finish, nor a flush of
\* the loop that Close waited for, leaves one behind.
THEOREM CloseDrains == Spec => []ClosedIsDrained
<1>1. TypeOK /\ ControlOK /\ ShutdownOK /\ NoLostWrite => ClosedIsDrained
  <2> SUFFICES ASSUME TypeOK, ControlOK, ShutdownOK, NoLostWrite,
                      pc[Main] = "closed", errs = 0
               PROVE  Range(log) = Range(tried)
    BY DEF ClosedIsDrained
  <2>1. \A f \in Flushers : Rest(f) = {}
    BY ClosedIsQuiet, RestIsEmpty
  <2>2. Range(items) = {}
    BY RangeEmpty DEF ShutdownOK
  <2> QED BY <2>1, <2>2 DEF NoLostWrite, Pending
<1> QED
  BY <1>1, TypeCorrect, ControlCorrect, ShutdownCorrect, NoWriteIsLost, PTL

\* No flush runs, or can start, once the PostgreSQL pools are closed.
THEOREM PoolsOutliveFlushes == Spec => []NoFlushAfterPoolsClose
<1>1. TypeOK /\ ControlOK /\ ShutdownOK => NoFlushAfterPoolsClose
  BY ClosedIsQuiet DEF ShutdownOK, NoFlushAfterPoolsClose
<1> QED
  BY <1>1, TypeCorrect, ControlCorrect, ShutdownCorrect, PTL

=============================================================================
