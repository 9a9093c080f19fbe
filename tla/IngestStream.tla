---------------------------- MODULE IngestStream ----------------------------
(***************************************************************************)
(* The IngestStream RPC of the data access layer                           *)
(* (DataAccessLayer/internal/server/grpc.go): a goroutine receives the     *)
(* client's requests into a channel, the handler buffers them and writes   *)
(* the buffer when it is full, on a ticker, and when the stream ends.      *)
(***************************************************************************)
EXTENDS Naturals, Sequences, FiniteSets, Functions

CONSTANTS
  Requests,    \* the requests the client may send, each once
  BufferSize,  \* the buffer length that makes the handler flush (100)
  RecvCap      \* the capacity of recvCh (100)

ASSUME IngestAssumption ==
  /\ BufferSize \in Nat \ {0}
  /\ RecvCap \in Nat \ {0}

VARIABLES
  sent,       \* history: the requests the client has sent, in order
  wire,       \* those among them that were not yet received
  client,     \* "open", or how the client ended the stream
  receiver,   \* where the receiving goroutine is
  held,       \* the request it has received and not yet put on the channel
  recvCh,
  errCh,      \* the error on errCh, "none" if it is empty
  handler,    \* where the handler is
  after,      \* where it goes on when its flush() is done
  buffer,     \* the requests it has buffered, without those already written
  processed,  \* history: the requests given to WriteService.Execute, in order
  written,    \* history: those Execute reported a success for
  responses   \* history: the requests answered, in order

ingestVars == <<sent, wire, client, receiver, held, recvCh, errCh, handler,
                after, buffer, processed, written, responses>>

Outcomes == {"ok", "error"}

IngestTypeOK ==
  /\ sent \in Seq(Requests)
  /\ wire \in Seq(Requests)
  /\ client \in {"open", "half-closed", "cancelled"}
  /\ receiver \in {"none", "recv", "put", "exited"}
  /\ held \in Seq(Requests) /\ Len(held) <= 1
  /\ recvCh \in Seq(Requests) /\ Len(recvCh) <= RecvCap
  /\ errCh \in {"none", "EOF", "error"}
  /\ handler \in {"none", "select", "flush"} \union Outcomes
  /\ after \in {"select"} \union Outcomes
  /\ buffer \in Seq(Requests) /\ Len(buffer) <= BufferSize
  /\ processed \in Seq(Requests)
  /\ written \in SUBSET Requests
  /\ responses \in Seq(Requests)

IngestInit ==
  /\ sent = <<>>
  /\ wire = <<>>
  /\ client = "open"
  /\ receiver = "none"
  /\ held = <<>>
  /\ recvCh = <<>>
  /\ errCh = "none"
  /\ handler = "none"
  /\ after = "select"
  /\ buffer = <<>>
  /\ processed = <<>>
  /\ written = {}
  /\ responses = <<>>

Returned == handler \in Outcomes

\* The stream's context: cancelled by the client, and by gRPC when the handler
\* returns.
ContextDone == client = "cancelled" \/ Returned

\* The client calls the RPC.
OpenStream ==
  /\ handler = "none"
  /\ handler' = "select"
  /\ receiver' = "recv"
  /\ UNCHANGED <<sent, wire, client, held, recvCh, errCh, after, buffer,
                 processed, written, responses>>

-----------------------------------------------------------------------------
(***************************************************************************)
(* The client: sends, ends its side of the stream, or goes away (cancels,  *)
(* crashes, loses the connection, reaches its deadline).                   *)
(***************************************************************************)
ClientSend(r) ==
  /\ handler # "none"
  /\ client = "open"
  /\ r \notin Range(sent)
  /\ sent' = Append(sent, r)
  /\ wire' = Append(wire, r)
  /\ UNCHANGED <<client, receiver, held, recvCh, errCh, handler, after, buffer,
                 processed, written, responses>>

ClientEnds ==
  /\ handler # "none"
  /\ client # "cancelled"
  /\ \/ client = "open" /\ client' = "half-closed"
     \/ client' = "cancelled"
  /\ UNCHANGED <<sent, wire, receiver, held, recvCh, errCh, handler, after,
                 buffer, processed, written, responses>>

-----------------------------------------------------------------------------
(***************************************************************************)
(* The receiving goroutine.                                                *)
(***************************************************************************)

\* isStream.Recv returns a request; once the context is done it may return
\* what had arrived or the error.
Recv ==
  /\ receiver = "recv"
  /\ wire # <<>>
  /\ held' = <<Head(wire)>>
  /\ wire' = Tail(wire)
  /\ receiver' = "put"
  /\ UNCHANGED <<sent, client, recvCh, errCh, handler, after, buffer,
                 processed, written, responses>>

\* isStream.Recv returns an error: io.EOF after the client's last request.
\* errCh has room for the only error ever put on it.
RecvError ==
  /\ receiver = "recv"
  /\ \/ client = "half-closed" /\ wire = <<>> /\ errCh' = "EOF"
     \/ ContextDone /\ errCh' = "error"
  /\ receiver' = "exited"
  /\ UNCHANGED <<sent, wire, client, held, recvCh, handler, after, buffer,
                 processed, written, responses>>

\* mutant: a request that finds the channel full is dropped.
PutOrDrop ==
  /\ receiver = "put"
  /\ recvCh' = IF Len(recvCh) < RecvCap THEN recvCh \o held ELSE recvCh
  /\ held' = <<>>
  /\ receiver' = "recv"
  /\ UNCHANGED <<sent, wire, client, errCh, handler, after, buffer, processed,
                 written, responses>>

\* recvCh <- req blocks while the channel is full, whatever the context says.
Put ==
  /\ receiver = "put"
  /\ Len(recvCh) < RecvCap
  /\ recvCh' = recvCh \o held
  /\ held' = <<>>
  /\ receiver' = "recv"
  /\ UNCHANGED <<sent, wire, client, errCh, handler, after, buffer, processed,
                 written, responses>>

-----------------------------------------------------------------------------
(***************************************************************************)
(* The handler's select: any case that is ready may be taken.              *)
(***************************************************************************)
FlushThen(place) ==
  /\ handler' = "flush"
  /\ after' = place

Buffered(r) == Append(buffer, r)

FlushNeeded(b) == Len(b) >= BufferSize

TakeRequest ==
  /\ handler = "select"
  /\ recvCh # <<>>
  /\ buffer' = Buffered(Head(recvCh))
  /\ recvCh' = Tail(recvCh)
  /\ \/ FlushNeeded(buffer') /\ FlushThen("select")
     \/ ~FlushNeeded(buffer') /\ UNCHANGED <<handler, after>>
  /\ UNCHANGED <<sent, wire, client, receiver, held, errCh, processed, written,
                 responses>>

\* mutant: the ticker is stopped when the handler starts.
NoTicker == FALSE /\ UNCHANGED ingestVars

TickerFires ==
  /\ handler = "select"
  /\ FlushThen("select")
  /\ UNCHANGED <<sent, wire, client, receiver, held, recvCh, errCh, buffer,
                 processed, written, responses>>

\* The error ends the RPC, with what the handler has buffered: requests that
\* are still on recvCh are left there.
TakeError ==
  /\ handler = "select"
  /\ errCh # "none"
  /\ FlushThen(IF errCh = "EOF" THEN "ok" ELSE "error")
  /\ errCh' = "none"
  /\ UNCHANGED <<sent, wire, client, receiver, held, recvCh, buffer, processed,
                 written, responses>>

ContextEnds ==
  /\ handler = "select"
  /\ ContextDone
  /\ FlushThen("ok")
  /\ UNCHANGED <<sent, wire, client, receiver, held, recvCh, errCh, buffer,
                 processed, written, responses>>

(***************************************************************************)
(* flush(): each request of the buffer is written and answered in turn.    *)
(***************************************************************************)

\* Execute succeeds or fails (both are answered); Send's own error, which it
\* has when the stream is gone, is ignored.
FlushRequest(r, success) ==
  /\ handler = "flush"
  /\ buffer # <<>>
  /\ r = Head(buffer)
  /\ buffer' = Tail(buffer)
  /\ processed' = Append(processed, r)
  /\ written' = IF success THEN written \union {r} ELSE written
  /\ \/ client # "cancelled" /\ responses' = Append(responses, r)
     \/ client = "cancelled" /\ UNCHANGED responses
  /\ UNCHANGED <<sent, wire, client, receiver, held, recvCh, errCh, handler,
                 after>>

FlushEnds ==
  /\ handler = "flush"
  /\ buffer = <<>>
  /\ handler' = after
  /\ UNCHANGED <<sent, wire, client, receiver, held, recvCh, errCh, after,
                 buffer, processed, written, responses>>

-----------------------------------------------------------------------------
IngestNext ==
  \/ OpenStream
  \/ \E r \in Requests : ClientSend(r)
  \/ ClientEnds
  \/ Recv
  \/ RecvError
  \/ Put
  \/ TakeRequest
  \/ TickerFires
  \/ TakeError
  \/ ContextEnds
  \/ \E r \in Requests, success \in BOOLEAN : FlushRequest(r, success)
  \/ FlushEnds

IngestSpec == IngestInit /\ [][IngestNext]_ingestVars

FlushStep ==
  \/ FlushEnds
  \/ \E r \in Requests, success \in BOOLEAN : FlushRequest(r, success)

\* Fairness: goroutines run, the ticker fires, and Go's select, which picks at
\* random among the ready cases, does not overlook one for ever.  Nothing makes
\* a client call, send, or end its stream.
IngestFairness ==
  /\ WF_ingestVars(Recv)
  /\ WF_ingestVars(RecvError)
  /\ WF_ingestVars(Put)
  /\ WF_ingestVars(FlushStep)
  /\ SF_ingestVars(TickerFires)
  /\ SF_ingestVars(TakeRequest)
  /\ SF_ingestVars(TakeError)
  /\ SF_ingestVars(ContextEnds)

-----------------------------------------------------------------------------
(***************************************************************************)
(* Properties                                                              *)
(***************************************************************************)

\* What the client has sent is, in that order, what was processed, then what
\* is buffered, on the channel, in the receiver's hands and on the wire.
SentInOrder ==
  sent = processed \o buffer \o recvCh \o held \o wire

\* Responses carry no request id: the client matches them by position.  Until
\* it goes away the n-th response answers its n-th request.
AnsweredInOrder ==
  client # "cancelled" => responses = SubSeq(sent, 1, Len(processed))

\* Two goroutines, a channel and a buffer neither lose, duplicate nor reorder a
\* request of a stream, nor the response to one.
RequestsInOrder == SentInOrder /\ AnsweredInOrder

\* A request of an open stream does not wait in the buffer for others to fill
\* it: whenever the client pauses, all it has sent is processed, until it ends
\* the stream.
EventuallyProcessed == []<>(processed = sent \/ client # "open")

\* The receiving goroutine ends with the RPC, unless the client went away
\* while it was waiting for room on a channel nobody reads any more.
ReceiverEnds ==
  Returned ~> \/ receiver = "exited"
              \/ receiver = "put" /\ Len(recvCh) = RecvCap

\* grpc.go: "IngestStream processes a bidirectional stream with buffered batch
\* flushing".  A stream the client has ended, and that ended well, was
\* processed to its last request.
EndedIsProcessed ==
  handler = "ok" /\ client = "half-closed" => processed = sent
=============================================================================
