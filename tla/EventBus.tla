------------------------------ MODULE EventBus ------------------------------
(***************************************************************************)
(* The event bus of packages/shared (src/services/event-bus.ts): one       *)
(* process that publishes to a topic and one that consumes it with the     *)
(* handlers it has registered for each type of event.                      *)
(*                                                                         *)
(* Kafka and its client are external: a partition is a log, an event is    *)
(* known by its place in it.  The client takes one message at a time,      *)
(* remembers the place behind it in Kafka some time after eachMessage has  *)
(* returned, and takes a message again for which it has thrown.            *)
(***************************************************************************)
EXTENDS Naturals, Sequences, Functions

CONSTANTS
  Handlers,     \* the handlers that may be registered, once each
  MaxEvents,    \* bound: the messages of the topic
  MaxRestarts   \* bound: how often the consumer is started again

ASSUME EventBusAssumption == MaxEvents \in Nat /\ MaxRestarts \in Nat

Types == {"reading.completed", "customer.updated"}
NoJSON == "no JSON"   \* what another program may have written

VARIABLES
  busLog,     \* the topic: the type of each event
  producer,   \* is the producer connected?
  consumer,   \* "none", "connected" or "running"
  handlers,   \* the handlers of each type, in order
  position,   \* the message the consumer is at, or waits for
  remembered, \* the position Kafka has of the group, 0 for none
  turn,       \* the handler whose turn it is, 0 between two messages
  restarts,   \* how often the consumer was started again
  told,       \* history: which handler was given which event
  registeredAt, \* history: what the topic held when a handler was registered
  start       \* history: where the group began anew

busVars == <<busLog, producer, consumer, handlers, position, remembered, turn,
             restarts, told, registeredAt, start>>

Places == 1 .. MaxEvents
Never == MaxEvents + 1

EventBusTypeOK ==
  /\ busLog \in Seq(Types \union {NoJSON}) /\ Len(busLog) <= MaxEvents
  /\ producer \in BOOLEAN
  /\ consumer \in {"none", "connected", "running"}
  /\ handlers \in [Types -> Seq(Handlers)]
  /\ position \in 1 .. Never /\ remembered \in 0 .. Never
  /\ turn \in Nat
  /\ restarts \in 0 .. MaxRestarts
  /\ told \subseteq Handlers \X Places
  /\ registeredAt \in [Handlers -> 0 .. Never]
  /\ start \in 0 .. Never

EventBusInit ==
  /\ busLog = <<>> /\ producer = FALSE /\ consumer = "none"
  /\ handlers = [t \in Types |-> <<>>]
  /\ position = 1 /\ remembered = 0 /\ turn = 0 /\ restarts = 0
  /\ told = {} /\ registeredAt = [h \in Handlers |-> Never] /\ start = 0

consumerVars == <<consumer, handlers, position, remembered, turn, restarts, told,
                  registeredAt, start>>

-----------------------------------------------------------------------------
ConnectProducer ==
  /\ ~producer /\ producer' = TRUE
  /\ UNCHANGED <<busLog, consumerVars>>

\* Without a connection it throws.  send() throws after its retries have failed,
\* whether or not the broker has the message.
PublishEvent(type) ==
  /\ producer /\ Len(busLog) < MaxEvents
  /\ busLog' = Append(busLog, type)
  /\ UNCHANGED <<producer, consumerVars>>

Disconnect ==
  /\ producer /\ producer' = FALSE
  /\ UNCHANGED <<busLog, consumerVars>>

OthersPublish ==
  /\ Len(busLog) < MaxEvents
  /\ busLog' = Append(busLog, NoJSON)
  /\ UNCHANGED <<producer, consumerVars>>

-----------------------------------------------------------------------------
producerVars == <<busLog, producer>>

On(h, type) ==
  /\ registeredAt[h] = Never
  /\ handlers' = [handlers EXCEPT ![type] = Append(@, h)]
  /\ registeredAt' = [registeredAt EXCEPT ![h] = Len(busLog)]
  /\ UNCHANGED <<producerVars, consumer, position, remembered, turn, restarts,
                 told, start>>

ConnectConsumer ==
  /\ consumer = "none" /\ consumer' = "connected"
  /\ UNCHANGED <<producerVars, handlers, position, remembered, turn, restarts,
                 told, registeredAt, start>>

\* fromBeginning is false: a group that Kafka does not know begins at the end.
SubscribeTopic ==
  /\ consumer = "connected" /\ consumer' = "running"
  /\ position' = IF remembered = 0 THEN Len(busLog) + 1 ELSE remembered
  /\ start' = IF remembered = 0 THEN position' ELSE start
  /\ UNCHANGED <<producerVars, handlers, remembered, turn, restarts, told,
                 registeredAt>>

\* eachMessage.  JSON.parse is outside of the try: for what is no JSON it throws,
\* and the message is taken again, and again.
EachMessage ==
  /\ consumer = "running" /\ turn = 0
  /\ position \in DOMAIN busLog /\ busLog[position] # NoJSON
  /\ turn' = 1
  /\ UNCHANGED <<producerVars, consumer, handlers, position, remembered, restarts,
                 told, registeredAt, start>>

\* mutant: the handlers behind one that throws are not called.
CallHandlerOrGiveUp ==
  /\ turn > 0 /\ turn <= Len(handlers[busLog[position]])
  /\ told' = told \union {<<handlers[busLog[position]][turn], position>>}
  /\ turn' \in {turn + 1, Len(handlers[busLog[position]]) + 1}
  /\ UNCHANGED <<producerVars, consumer, handlers, position, remembered, restarts,
                 registeredAt, start>>

\* The next handler of the list, which may have grown; if it throws, the next one.
CallHandler ==
  /\ turn > 0 /\ turn <= Len(handlers[busLog[position]])
  /\ told' = told \union {<<handlers[busLog[position]][turn], position>>}
  /\ turn' = turn + 1
  /\ UNCHANGED <<producerVars, consumer, handlers, position, remembered, restarts,
                 registeredAt, start>>

MessageDone ==
  /\ turn > 0 /\ turn > Len(handlers[busLog[position]])
  /\ turn' = 0 /\ position' = position + 1
  /\ UNCHANGED <<producerVars, consumer, handlers, remembered, restarts, told,
                 registeredAt, start>>

\* The client commits what it has done, now and then, between two messages.
Remember ==
  /\ consumer = "running" /\ turn = 0 /\ remembered < position
  /\ remembered' = position
  /\ UNCHANGED <<producerVars, consumer, handlers, position, turn, restarts, told,
                 registeredAt, start>>

\* The process of the consumer stops, and registers its handlers again when it
\* starts.
Restart ==
  /\ consumer # "none" /\ restarts < MaxRestarts
  /\ consumer' = "none" /\ turn' = 0 /\ restarts' = restarts + 1
  /\ position' = 1 /\ start' = IF remembered = 0 THEN 0 ELSE start
  /\ UNCHANGED <<producerVars, handlers, remembered, told, registeredAt>>

EventBusNext ==
  \/ ConnectProducer \/ Disconnect \/ OthersPublish
  \/ \E type \in Types : PublishEvent(type)
  \/ \E h \in Handlers, type \in Types : On(h, type)
  \/ ConnectConsumer \/ SubscribeTopic \/ EachMessage \/ CallHandler \/ MessageDone
  \/ Remember \/ Restart

EventBusSpec == EventBusInit /\ [][EventBusNext]_busVars

\* Fairness: the client hands on the messages there are, and handlers return.
\* Nothing makes a process connect, subscribe, register or publish.
EventBusFairness == WF_busVars(EachMessage \/ CallHandler \/ MessageDone)

-----------------------------------------------------------------------------
(***************************************************************************)
(* Properties                                                              *)
(***************************************************************************)

Registered(h) == registeredAt[h] # Never
TypeOf(h) == CHOOSE t \in Types : h \in Range(handlers[t])

\* Behind the consumer's position no event lacks a handler that was registered
\* for its type before it was published: whichever handlers throw or are added
\* meanwhile, and wherever the consumer has stopped.  It begins at the end of the
\* topic, again if it stops before Kafka has remembered it.
HandlersAreTold ==
  start > 0 =>
    \A h \in Handlers : \A e \in start .. position - 1 :
      Registered(h) /\ registeredAt[h] < e /\ busLog[e] = TypeOf(h) => <<h, e>> \in told

\* A consumer that runs gets through every event of the topic, unless it is
\* stopped or kept by what is no JSON, which it takes again for ever.
EventsAreDone ==
  \A e \in Places :
    e \in DOMAIN busLog /\ consumer = "running" ~>
      \/ position > e \/ consumer # "running"
      \/ \E p \in DOMAIN busLog \intersect start .. e : busLog[p] = NoJSON
=============================================================================
