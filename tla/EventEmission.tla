--------------------------- MODULE EventEmission ---------------------------
(***************************************************************************)
(* The events the data access layer emits for its writes, from the         *)
(* goroutine a successful write starts (internal/server/grpc.go) to the    *)
(* Redis stream and the asynchronous Kafka writer (internal/stream), until *)
(* the server is shut down (cmd/dal-server/main.go).                       *)
(***************************************************************************)
EXTENDS Naturals, Sequences, FiniteSets, Functions

CONSTANTS
  Writes,     \* the writes that succeed
  Malformed,  \* those whose payload is no JSON: json.Marshal refuses the event.
              \* A write-behind write succeeds before anything looks into it
  MaxLosses   \* bound: how often a call to Redis or Kafka may fail

ASSUME EmissionAssumption == Malformed \subseteq Writes /\ MaxLosses \in Nat

\* What can go wrong with an event: Redis refuses it, hangs until the context
\* of 5 s that both sinks share is used up, or adds it and its answer is lost;
\* Kafka cannot be reached; the server is shut down.
Troubles == {"redis", "hung", "unanswered", "kafka", "shutdown"}

VARIABLES
  emitter,  \* where the goroutine that emits each write's event is
  stream,   \* the entries added to the Redis stream
  queue,    \* the messages the Kafka writer has not sent yet
  topic,    \* the messages Kafka has
  server,   \* where main is
  losses,   \* history: the failures so far
  causes    \* history: the troubles of each event

emissionVars == <<emitter, stream, queue, topic, server, losses, causes>>

EmissionTypeOK ==
  /\ emitter \in [Writes -> {"none", "redis", "kafka", "done"}]
  /\ stream \in Seq(Writes)
  /\ queue \in SUBSET Writes
  /\ topic \in SUBSET Writes
  /\ server \in {"serving", "stopping", "closing", "exited"}
  /\ losses \in 0 .. MaxLosses
  /\ causes \in [Writes -> SUBSET Troubles]

EmissionInit ==
  /\ emitter = [w \in Writes |-> "none"]
  /\ stream = <<>>
  /\ queue = {}
  /\ topic = {}
  /\ server = "serving"
  /\ losses = 0
  /\ causes = [w \in Writes |-> {}]

Because(w, trouble) == causes' = [causes EXCEPT ![w] = @ \union {trouble}]

\* A call to Redis or Kafka fails; whoever makes it logs that and goes on.
Fails(w, trouble) ==
  /\ losses < MaxLosses
  /\ losses' = losses + 1
  /\ Because(w, trouble)

-----------------------------------------------------------------------------
(***************************************************************************)
(* EmitEvent, in a goroutine of its own that nothing waits for.            *)
(***************************************************************************)

\* A successful write starts the goroutine and answers the client.
StartEmit(w) ==
  /\ server \in {"serving", "stopping"}
  /\ emitter[w] = "none"
  /\ emitter' = [emitter EXCEPT ![w] = "redis"]
  /\ UNCHANGED <<stream, queue, topic, server, losses, causes>>

\* XADD is applied and its answer does not come in time: the client of Redis
\* sends it again, or gives up in Publish.
AddUnanswered(w) ==
  /\ server # "exited"
  /\ emitter[w] = "redis" /\ w \notin Malformed
  /\ Fails(w, "unanswered")
  /\ stream' = Append(stream, w)
  /\ UNCHANGED <<emitter, queue, topic, server>>

\* Does Redis fail w, at once or until the context is over, or is the client
\* of Redis closed?
NotAdded(w) ==
  \/ Fails(w, "redis")
  \/ Fails(w, "hung")
  \/ server = "closing" /\ Because(w, "shutdown") /\ UNCHANGED losses

\* mutant: an error of Redis ends EmitEvent.
PublishOrGiveUp(w) ==
  /\ server # "exited"
  /\ emitter[w] = "redis" /\ w \notin Malformed
  /\ \/ /\ stream' = Append(stream, w)
        /\ emitter' = [emitter EXCEPT ![w] = "kafka"]
        /\ UNCHANGED <<losses, causes>>
     \/ /\ NotAdded(w)
        /\ emitter' = [emitter EXCEPT ![w] = "done"]
        /\ UNCHANGED stream
  /\ UNCHANGED <<queue, topic, server>>

\* XADD.  No failure is a reason to skip Kafka.
Publish(w) ==
  /\ server # "exited"
  /\ emitter[w] = "redis"
  /\ emitter' = [emitter EXCEPT ![w] = "kafka"]
  /\ \/ /\ w \notin Malformed
        /\ stream' = Append(stream, w)
        /\ UNCHANGED <<losses, causes>>
     \/ w \notin Malformed /\ NotAdded(w) /\ UNCHANGED stream
     \/ w \in Malformed /\ UNCHANGED <<stream, losses, causes>>
  /\ UNCHANGED <<queue, topic, server>>

\* Why WriteMessages may refuse a message: the context is over, the writer is
\* closed, or Kafka does not tell it the partitions of the topic.
NotProduced(w) ==
  \/ "hung" \in causes[w] /\ UNCHANGED <<losses, causes>>
  \/ server = "closing" /\ Because(w, "shutdown") /\ UNCHANGED losses
  \/ Fails(w, "kafka")

\* WriteMessages of an asynchronous writer only queues the message.
Produce(w) ==
  /\ server # "exited"
  /\ emitter[w] = "kafka"
  /\ emitter' = [emitter EXCEPT ![w] = "done"]
  /\ \/ /\ w \notin Malformed /\ server # "closing"
        /\ queue' = queue \union {w}
        /\ UNCHANGED <<losses, causes>>
     \/ w \notin Malformed /\ NotProduced(w) /\ UNCHANGED queue
     \/ w \in Malformed /\ UNCHANGED <<queue, losses, causes>>
  /\ UNCHANGED <<stream, topic, server>>

\* The writer's own goroutine sends the queued messages; one it cannot send is
\* gone, with nobody to tell.
KafkaSends(w) ==
  /\ w \in queue
  /\ queue' = queue \ {w}
  /\ \/ topic' = topic \union {w} /\ UNCHANGED <<losses, causes>>
     \/ Fails(w, "kafka") /\ UNCHANGED topic
  /\ UNCHANGED <<emitter, stream, server>>

-----------------------------------------------------------------------------
(***************************************************************************)
(* The shutdown.                                                           *)
(***************************************************************************)

\* SIGTERM: GracefulStop waits for the calls under way, some of which still
\* write.
GracefulStop ==
  /\ server = "serving"
  /\ server' = "stopping"
  /\ UNCHANGED <<emitter, stream, queue, topic, losses, causes>>

\* main returns and Pipeline.Close is deferred: the Kafka writers refuse new
\* messages.
ClosePipeline ==
  /\ server = "stopping"
  /\ server' = "closing"
  /\ UNCHANGED <<emitter, stream, queue, topic, losses, causes>>

\* mutant: Pipeline.Close does not wait for the writers.
ExitAtOnce ==
  /\ server = "closing"
  /\ server' = "exited"
  /\ queue' = {}
  /\ causes' = [w \in Writes |-> IF emitter[w] \in {"redis", "kafka"}
                                 THEN causes[w] \union {"shutdown"} ELSE causes[w]]
  /\ UNCHANGED <<emitter, stream, topic, losses>>

\* Pipeline.Close has waited for the queued messages and the process exits: a
\* goroutine that has not emitted its event never does.
Exit ==
  /\ server = "closing"
  /\ queue = {}
  /\ server' = "exited"
  /\ causes' = [w \in Writes |-> IF emitter[w] \in {"redis", "kafka"}
                                 THEN causes[w] \union {"shutdown"} ELSE causes[w]]
  /\ UNCHANGED <<emitter, stream, queue, topic, losses>>

-----------------------------------------------------------------------------
EmissionNext ==
  \/ \E w \in Writes :
       StartEmit(w) \/ AddUnanswered(w) \/ Publish(w) \/ Produce(w) \/ KafkaSends(w)
  \/ GracefulStop
  \/ ClosePipeline
  \/ Exit

EmissionSpec == EmissionInit /\ [][EmissionNext]_emissionVars

\* Fairness: goroutines run, and Kafka answers its client one way or another.
\* Nothing makes the server stop, and while it stops nothing makes main wait
\* for the goroutines.
EmissionFairness ==
  \A w \in Writes : /\ WF_emissionVars(Publish(w))
                    /\ WF_emissionVars(Produce(w))
                    /\ WF_emissionVars(KafkaSends(w))

-----------------------------------------------------------------------------
(***************************************************************************)
(* Properties                                                              *)
(***************************************************************************)

\* The troubles that keep an event from the stream, or from Kafka.  A Redis
\* that hangs is one for both.
KeptFromRedis(w) == causes[w] \intersect {"redis", "hung", "shutdown"} # {}
KeptFromKafka(w) == causes[w] \intersect {"kafka", "hung", "shutdown"} # {}

\* Each sink gets the event of every write, but for troubles of its own: Redis
\* refuses it or Kafka cannot be reached, Redis hangs until the context of both
\* is used up, the server stops, or the event cannot be encoded at all.  A sink
\* that refuses or closes never hides an event from the other.
EmittedToBoth ==
  \A w \in Writes \ Malformed : emitter[w] = "done" =>
    /\ w \in Range(stream) \/ KeptFromRedis(w)
    /\ w \in queue \union topic \/ KeptFromKafka(w)

\* The stream has an event once, unless an answer to its XADD was lost.
AddedOnce ==
  \A i, j \in DOMAIN stream :
    i # j /\ stream[i] = stream[j] => "unanswered" \in causes[stream[i]]

\* An event reaches each sink once, but for the sink's own troubles and those
\* the two share.
SinksAreIndependent == EmittedToBoth /\ AddedOnce

\* What the comment of EmitEvent promises ("publishes a data event to both
\* Redis Streams and Kafka"), of a Kafka that never fails and a server that
\* runs: whatever Redis does, an event that can be encoded is produced.
KafkaFailsForItself ==
  \A w \in Writes \ Malformed :
    emitter[w] = "done" /\ server = "serving" =>
      w \in queue \union topic \/ "kafka" \in causes[w]

\* Every event that is emitted gets through to Kafka, unless one of these
\* troubles keeps it.
EventsReachKafka ==
  []<>(\A w \in Writes \ Malformed :
         emitter[w] # "none" => w \in topic \/ KeptFromKafka(w))
=============================================================================
