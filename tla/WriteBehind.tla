---------------------------- MODULE WriteBehind ----------------------------
(***************************************************************************)
(* The write-behind buffer of the data access layer                        *)
(* (DataAccessLayer/internal/cache/write_behind.go), the flush function    *)
(* WriteService.writeBehind gives it (internal/service/write.go), and the  *)
(* server's shutdown, which ends with the buffer's final flush             *)
(* (cmd/dal-server/main.go).                                               *)
(*                                                                         *)
(* The actors are the goroutines of the process: the gRPC handlers, which  *)
(* append to the buffer and flush it themselves when it is full; the flush *)
(* loop, which flushes it on a ticker; and main, which closes the buffer   *)
(* once GracefulStop has returned.  Each may be inside flush() at the same *)
(* time: the mutex covers the swap of the buffer, not the writes.          *)
(***************************************************************************)
EXTENDS Naturals, Sequences, FiniteSets, Functions

CONSTANTS
  Handlers,      \* the gRPC handlers that may be running at once
  Loop,          \* the flushLoop goroutine of the buffer
  Main,          \* the main goroutine
  Writes,        \* the write-behind requests clients may make, each once
  MaxSize,       \* the buffer length that makes Add flush (100 in the code)
  MaxErrs        \* bound: how often flushFn may return an error.  0 for the
                 \* only one the program has, which logs its errors and
                 \* returns nil

Flushers == Handlers \union {Loop, Main}

ASSUME WriteBehindAssumption ==
  /\ Loop \notin Handlers
  /\ Main \notin Handlers
  /\ Loop # Main
  /\ MaxSize \in Nat \ {0}
  /\ MaxErrs \in Nat

VARIABLES
  items,      \* wb.items
  pc,         \* where each goroutine is
  batch,      \* the local `items` of each goroutine's flush()
  at,         \* the index in its batch each running flushFn has reached
  server,     \* what the gRPC server is doing
  stopCh,     \* is wb.stopCh closed?
  poolsOpen,  \* are the PostgreSQL pools open?
  log,        \* history: the writes Add took, in order; all are acknowledged
  tried,      \* history: the WriteRecord calls, in order
  refused,    \* history: the writes whose last WriteRecord call failed
  overlapped, \* history: have two flushes ever run at once?
  errs        \* history: how often flushFn has returned an error

vars == <<items, pc, batch, at, server, stopCh, poolsOpen,
          log, tried, refused, overlapped, errs>>

TypeOK ==
  /\ items \in Seq(Writes)
  /\ pc \in [Flushers -> {"none", "open", "select", "wait",
                          "swap", "write", "exited", "closed"}]
  /\ batch \in [Flushers -> Seq(Writes)]
  /\ at \in [Flushers -> Nat \ {0}]
  /\ server \in {"serving", "draining", "stopped"}
  /\ stopCh \in BOOLEAN
  /\ poolsOpen \in BOOLEAN
  /\ log \in Seq(Writes)
  /\ tried \in Seq(Writes)
  /\ refused \in SUBSET Writes
  /\ overlapped \in BOOLEAN
  /\ errs \in 0 .. MaxErrs

(***************************************************************************)
(* The buffer of an entity is made by its first write: until then there is *)
(* no flush loop and Manager.Close has nothing to close.                   *)
(***************************************************************************)
Init ==
  /\ items = <<>>
  /\ pc = [f \in Flushers |-> "none"]
  /\ batch = [f \in Flushers |-> <<>>]
  /\ at = [f \in Flushers |-> 1]
  /\ server = "serving"
  /\ stopCh = FALSE
  /\ poolsOpen = TRUE
  /\ log = <<>>
  /\ tried = <<>>
  /\ refused = {}
  /\ overlapped = FALSE
  /\ errs = 0

histories == <<log, tried, refused, overlapped, errs>>
buffer == <<items, batch, at>>
process == <<server, stopCh, poolsOpen>>

\* What a flush of f has taken from the buffer and not yet tried to write.
Rest(f) == {batch[f][k] : k \in at[f] .. Len(batch[f])}

Pending == Range(items) \union UNION {Rest(f) : f \in Flushers}

\* The goroutines that are inside flushFn.
Flushing == {f \in Flushers : pc[f] = "write"}

-----------------------------------------------------------------------------
(***************************************************************************)
(* The gRPC handlers.  A handler is one RPC: one write for Write, any      *)
(* number for the streaming BatchWrite and IngestStream.                   *)
(***************************************************************************)

\* An RPC arrives.  GracefulStop refuses new ones.
StartRPC(h) ==
  /\ server = "serving"
  /\ pc[h] = "none"
  /\ pc' = [pc EXCEPT ![h] = "open"]
  /\ UNCHANGED <<buffer, process, histories>>

EndRPC(h) ==
  /\ pc[h] = "open"
  /\ pc' = [pc EXCEPT ![h] = "none"]
  /\ UNCHANGED <<buffer, process, histories>>

\* mutant: the buffer is found full one write too late.
FlushWhenOver(buf) == Len(buf) > MaxSize

ShouldFlush(buf) == Len(buf) >= MaxSize

\* writeBehind: GetWriteBehindBuffer (the first caller makes the buffer and
\* its loop, under wbMu), then Add, which makes the buffer buf.  When Add
\* flushes, the handler goes on to flush() with the mutex released; else it
\* acknowledges the write at once.
AddTo(h, w, buf) ==
  /\ pc[h] = "open"
  /\ w \notin Range(log)
  /\ items' = buf
  /\ log' = Append(log, w)
  /\ pc' = [pc EXCEPT ![h] = IF ShouldFlush(buf) THEN "swap" ELSE @,
                      ![Loop] = IF @ = "none" THEN "select" ELSE @]
  /\ UNCHANGED <<at, process, tried, refused, overlapped, errs>>

\* mutant: a new write goes in front of the older ones.
AddInFront(h, w) == AddTo(h, w, <<w>> \o items) /\ UNCHANGED batch

\* mutant: flush() truncates the buffer (items[:0]) instead of replacing it,
\* so that Add writes into the array a running flush is reading.
AddAliased(h, w) ==
  /\ AddTo(h, w, Append(items, w))
  /\ batch' = [f \in Flushers |->
                 IF pc[f] = "write" /\ Len(items) < Len(batch[f])
                 THEN [batch[f] EXCEPT ![Len(items) + 1] = w]
                 ELSE batch[f]]

Add(h, w) == AddTo(h, w, Append(items, w)) /\ UNCHANGED batch

-----------------------------------------------------------------------------
(***************************************************************************)
(* flush(), run by any of the goroutines.                                  *)
(***************************************************************************)

\* Where a goroutine goes on when its flush() returns.
AfterFlush(f) == CASE f = Loop -> "select"
                   [] f = Main -> "closed"
                   [] OTHER    -> "open"

\* mutant: the index is Go's, the sequence is not.
FromZero == 0

First == 1

\* Lock, take the whole buffer, unlock; an empty buffer is no flush.
Swap(f) ==
  /\ pc[f] = "swap"
  /\ \/ /\ items = <<>>
        /\ pc' = [pc EXCEPT ![f] = AfterFlush(f)]
        /\ UNCHANGED <<buffer, overlapped>>
     \/ /\ items # <<>>
        /\ pc' = [pc EXCEPT ![f] = "write"]
        /\ batch' = [batch EXCEPT ![f] = items]
        /\ at' = [at EXCEPT ![f] = First]
        /\ items' = <<>>
        /\ overlapped' = (overlapped \/ Flushing # {})
  /\ UNCHANGED <<process, log, tried, refused, errs>>

\* flushFn routes and writes the next item of its batch; a failure (of the
\* router, of the backend, or the batch's 10 s timeout) is logged and the
\* loop goes on.  A closed pool always fails.
WriteItem(f) ==
  /\ pc[f] = "write"
  /\ at[f] <= Len(batch[f])
  /\ LET w == batch[f][at[f]] IN
       /\ tried' = Append(tried, w)
       /\ \/ poolsOpen /\ refused' = refused \ {w}
          \/ refused' = refused \union {w}
  /\ at' = [at EXCEPT ![f] = @ + 1]
  /\ UNCHANGED <<items, pc, batch, process, log, overlapped, errs>>

\* flushFn has gone through its batch and returns nil.
FlushDone(f) ==
  /\ pc[f] = "write"
  /\ at[f] > Len(batch[f])
  /\ pc' = [pc EXCEPT ![f] = AfterFlush(f)]
  /\ UNCHANGED <<buffer, process, histories>>

\* mutant: the failed batch replaces what was added while it was written.
RequeueOverwrites(failed) == failed

Requeued(failed) == failed \o items

\* flush()'s other branch, which only another flushFn could take: after any
\* number of writes it returns an error and the whole batch goes back in
\* front of what was added meanwhile.
Requeue(f) ==
  /\ errs < MaxErrs
  /\ errs' = errs + 1
  /\ pc[f] = "write"
  /\ items' = Requeued(batch[f])
  /\ batch' = [batch EXCEPT ![f] = <<>>]
  /\ at' = [at EXCEPT ![f] = 1]
  /\ pc' = [pc EXCEPT ![f] = AfterFlush(f)]
  /\ UNCHANGED <<process, log, tried, refused, overlapped>>

-----------------------------------------------------------------------------
(***************************************************************************)
(* flushLoop: select between the ticker and stopCh.  When both are ready   *)
(* Go picks either.                                                        *)
(***************************************************************************)

\* mutant: the loop flushes only what Add would have.
TickWhenFull ==
  /\ pc[Loop] = "select"
  /\ ShouldFlush(items)
  /\ pc' = [pc EXCEPT ![Loop] = "swap"]
  /\ UNCHANGED <<buffer, process, histories>>

Tick ==
  /\ pc[Loop] = "select"
  /\ pc' = [pc EXCEPT ![Loop] = "swap"]
  /\ UNCHANGED <<buffer, process, histories>>

LoopReturns ==
  /\ pc[Loop] = "select"
  /\ stopCh
  /\ pc' = [pc EXCEPT ![Loop] = "exited"]
  /\ UNCHANGED <<buffer, process, histories>>

-----------------------------------------------------------------------------
(***************************************************************************)
(* main: the signal, GracefulStop, and the deferred calls in reverse order *)
(* of their defer statements: cacheManager.Close before pools.Close.       *)
(***************************************************************************)
Sigterm ==
  /\ server = "serving"
  /\ server' = "draining"
  /\ UNCHANGED <<pc, buffer, stopCh, poolsOpen, histories>>

\* mutant: Stop instead of GracefulStop.
StopReturns ==
  /\ server = "draining"
  /\ server' = "stopped"
  /\ UNCHANGED <<pc, buffer, stopCh, poolsOpen, histories>>

\* GracefulStop waits for every running RPC.
GracefulStopReturns ==
  /\ server = "draining"
  /\ \A h \in Handlers : pc[h] = "none"
  /\ server' = "stopped"
  /\ UNCHANGED <<pc, buffer, stopCh, poolsOpen, histories>>

\* Manager.Close: close(stopCh) of the buffer, if there is one.
CloseManager ==
  /\ server = "stopped"
  /\ pc[Main] = "none"
  /\ \/ /\ pc[Loop] = "none"
        /\ pc' = [pc EXCEPT ![Main] = "closed"]
        /\ UNCHANGED stopCh
     \/ /\ pc[Loop] # "none"
        /\ pc' = [pc EXCEPT ![Main] = "wait"]
        /\ stopCh' = TRUE
  /\ UNCHANGED <<buffer, server, poolsOpen, histories>>

\* mutant: Close does not wait for the loop.
LoopNotJoined ==
  /\ pc[Main] = "wait"
  /\ pc' = [pc EXCEPT ![Main] = "swap"]
  /\ UNCHANGED <<buffer, process, histories>>

\* wb.wg.Wait() returns when the loop has; the final flush follows.
LoopJoined ==
  /\ pc[Main] = "wait"
  /\ pc[Loop] = "exited"
  /\ pc' = [pc EXCEPT ![Main] = "swap"]
  /\ UNCHANGED <<buffer, process, histories>>

\* mutant: the two defers are swapped.
ClosePoolsFirst ==
  /\ server = "stopped"
  /\ poolsOpen
  /\ poolsOpen' = FALSE
  /\ UNCHANGED <<pc, buffer, server, stopCh, histories>>

\* pools.Close, deferred before cacheManager.Close and so run after it.
ClosePools ==
  /\ pc[Main] = "closed"
  /\ poolsOpen
  /\ poolsOpen' = FALSE
  /\ UNCHANGED <<pc, buffer, server, stopCh, histories>>

-----------------------------------------------------------------------------
Flush(f) == Swap(f) \/ WriteItem(f) \/ FlushDone(f) \/ Requeue(f)

Handler(h) == StartRPC(h) \/ EndRPC(h) \/ \E w \in Writes : Add(h, w)

MainStep == Sigterm \/ GracefulStopReturns \/ CloseManager \/ LoopJoined
            \/ ClosePools

\* The process has stopped; TLC must not take that for a deadlock.
Terminated ==
  /\ ~poolsOpen
  /\ UNCHANGED vars

Next ==
  \/ \E h \in Handlers : Handler(h)
  \/ \E f \in Flushers : Flush(f)
  \/ Tick
  \/ LoopReturns
  \/ MainStep
  \/ Terminated

Spec == Init /\ [][Next]_vars

(***************************************************************************)
(* Fairness: a goroutine that can run does (the Go scheduler), the ticker  *)
(* fires, and Go's select, which picks at random among the ready cases,    *)
(* does not overlook stopCh for ever.  Nothing makes a client call, end    *)
(* its stream, or an operator stop the server.                             *)
(***************************************************************************)
GoroutinesRun ==
  /\ \A f \in Flushers : WF_vars(Flush(f))
  /\ SF_vars(LoopReturns)
  /\ WF_vars(CloseManager)
  /\ WF_vars(LoopJoined)
  /\ WF_vars(ClosePools)

FairSpec == Spec /\ GoroutinesRun /\ WF_vars(Tick)

-----------------------------------------------------------------------------
(***************************************************************************)
(* Properties                                                              *)
(***************************************************************************)

\* Every write Add has taken is in the buffer, in the part of a flush's batch
\* that is still to be written, or was given to WriteRecord: neither the swap
\* of the buffer, nor a requeue, nor the shutdown loses one.
NoLostWrite == Range(log) = Pending \union Range(tried)

\* Until a flushFn returns an error, a write is given to WriteRecord at most
\* once, and never again while or after it waits elsewhere: overlapping
\* flushes, and the final flush after a last tick, never share an item.
AtMostOnce ==
  errs = 0 => /\ IsInjective(tried)
              /\ Range(tried) \intersect Pending = {}

\* Writes reach the backend in the order Add took them as long as no two
\* flushes have run at once.  (When a handler's flush overtakes a slow flush
\* of the loop they may not: nothing orders the two batches.)
InOrderUnlessOverlapped ==
  ~overlapped /\ errs = 0 => /\ Len(tried) <= Len(log)
                             /\ tried = SubSeq(log, 1, Len(tried))

\* Until a batch is requeued, the buffer grows past MaxSize - 1 only by writes
\* whose handlers are on their way into flush(): what a crash can lose is
\* bounded by the buffer size and the number of concurrent handlers, not by the
\* rate of writes.
BufferBounded ==
  errs = 0 =>
    Len(items) <= (MaxSize - 1) + Cardinality({h \in Handlers : pc[h] = "swap"})

\* When Manager.Close has returned nothing is left: every write the server
\* ever acknowledged has been given to WriteRecord.
ClosedIsDrained ==
  pc[Main] = "closed" /\ errs = 0 => Range(log) = Range(tried)

\* The pools are closed under no flush: no batch is being written, and none
\* ever will be, once pools.Close has run.
NoFlushAfterPoolsClose ==
  ~poolsOpen => \A f \in Flushers : pc[f] \notin {"swap", "write", "select"}

\* write_behind.go calls its error branch "Re-enqueue failed items": once no
\* flush is running, a write whose last WriteRecord call failed is back in the
\* buffer, where the next flush finds it.
FailedItemsAreReenqueued == Flushing = {} => refused \subseteq Range(items)

\* Every write Add has taken is eventually given to WriteRecord, whether or
\* not the server ever fills its buffer or stops.
EveryWriteIsTried ==
  \A w \in Writes : w \in Range(log) ~> w \in Range(tried)

\* The buffer implements the abstract queue: each step accepts one write,
\* settles one that was owed and not yet tried, closes with nothing owed, or
\* changes nothing a caller can see.
Queue == INSTANCE WriteQueue WITH
  accepted <- Range(log), settled <- Range(tried), closed <- ~poolsOpen

ImplementsWriteQueue == Queue!Spec

\* Once GracefulStop has returned the shutdown runs to its end: Close does not
\* wait for ever on a loop that goes on ticking.
ShutdownCompletes == server = "stopped" ~> ~poolsOpen

\* Every accepted write is tried, and the shutdown ends.
WritesAndShutdownFinish == EveryWriteIsTried /\ ShutdownCompletes
=============================================================================
