-------------------------- MODULE CustomerRecords --------------------------
(***************************************************************************)
(* A customer's row, and the events that tell other services of it:        *)
(* create, update and softDelete of CustomerManagement                     *)
(* (src/services/customer.service.ts), statement by statement, the Kafka   *)
(* producer with its connection (src/lib/kafka-producer.ts) and the        *)
(* shutdown of the process (src/index.ts).                                 *)
(*                                                                         *)
(* Callers overlap.  An event is published after its statement and nobody  *)
(* waits for it.  The events have one key, hence one partition: a consumer *)
(* applies them in the order of the topic.                                 *)
(***************************************************************************)
EXTENDS Naturals, FiniteSets

\* A birth date: absent, one of two that can be calculated, or one that passes
\* the validation and is no date (month 13).
BirthDates == {"null", "spring", "autumn", "month 13"}
Tiers == {"free", "vip"}

\* calculateAllMetaphysical, whose null leaves no derived fields.
Derived(date) == IF date \in {"spring", "autumn"} THEN date ELSE "null"

NoRow == [status |-> "none"]
Rows == [status : {"active", "deleted"}, tier : Tiers,
         birthDate : BirthDates, derived : {"null", "spring", "autumn"}]

\* What a call asks for: update leaves "undefined" fields alone.
AllInputs ==
        [op : {"create"}, birthDate : BirthDates]
   \union [op : {"update"}, birthDate : BirthDates \union {"undefined"},
           tier : Tiers \union {"undefined"}]
   \union [op : {"softDelete"}]

CONSTANTS
  Callers,      \* the requests that may be handled at a time
  Inputs,       \* bound: what they ask for
  MaxCommits    \* bound: the statements that change the row

ASSUME CustomerRecordsAssumption ==
  Inputs \subseteq AllInputs /\ MaxCommits \in Nat

VARIABLES
  customer,    \* the row
  handling,    \* each caller's request, and where it is
  commits,     \* the number of statements that have changed the row
  sending,     \* the events that are being published
  connected,   \* the producer's flag
  process,     \* "up", "closing" (signal received) or "exited"
  told,        \* what the topic's events, applied in order, say of the customer
  dropped,     \* history: an event was dropped
  unanswered,  \* history: a statement was done and its answer lost
  crossed      \* history: two events were under way at once

recordVars == <<customer, handling, commits, sending, connected, process, told,
                dropped, unanswered, crossed>>

\* An event has the tier it tells of, or "undefined", and whether it deletes.
Events == [number : 1 .. MaxCommits, tier : Tiers \union {"undefined"},
           deletes : BOOLEAN, at : {"connect", "send"}]
Untold == [tier |-> "undefined", deleted |-> FALSE]

RecordsTypeOK ==
  /\ customer \in Rows \union {NoRow}
  /\ handling \in [Callers -> [at : {"idle"}]
                     \union [at : {"find", "write", "publish"}, input : Inputs]]
  /\ commits \in 0 .. MaxCommits
  /\ sending \in SUBSET Events
  /\ connected \in BOOLEAN
  /\ process \in {"up", "closing", "exited"}
  /\ told \in [tier : Tiers \union {"undefined"}, deleted : BOOLEAN]
  /\ {dropped, unanswered, crossed} \subseteq BOOLEAN

RecordsInit ==
  /\ customer = NoRow
  /\ handling = [c \in Callers |-> [at |-> "idle"]]
  /\ commits = 0
  /\ sending = {} /\ connected = FALSE
  /\ process = "up"
  /\ told = Untold
  /\ dropped = FALSE /\ unanswered = FALSE /\ crossed = FALSE

producerVars == <<sending, connected, process, told, dropped>>

-----------------------------------------------------------------------------
(***************************************************************************)
(* The service.                                                            *)
(***************************************************************************)
Requested(c, there) == handling' = [handling EXCEPT ![c].at = there]
Over(c) == handling' = [handling EXCEPT ![c] = [at |-> "idle"]]

\* create goes straight to its statement; the others look for the row first.
Request(c, input) ==
  /\ process # "exited"
  /\ handling[c].at = "idle"
  /\ handling' = [handling EXCEPT
       ![c] = [at |-> IF input.op = "create" THEN "write" ELSE "find",
               input |-> input]]
  /\ UNCHANGED <<customer, commits, unanswered, crossed, producerVars>>

\* A customer that is not there is a 404.
FindUnique(c) ==
  /\ process # "exited"
  /\ handling[c].at = "find"
  /\ IF customer = NoRow THEN Over(c) ELSE Requested(c, "write")
  /\ UNCHANGED <<customer, commits, unanswered, crossed, producerVars>>

\* mutant: the derived fields are not cleared with the date.
UpdatedKeeps(row, input) ==
  [row EXCEPT
     !.tier = IF input.tier = "undefined" THEN @ ELSE input.tier,
     !.birthDate = IF input.birthDate = "undefined" THEN @ ELSE input.birthDate,
     !.derived = IF Derived(input.birthDate) = "null" THEN @
                 ELSE Derived(input.birthDate)]

\* The fields of the request; a date that cannot be calculated leaves the
\* derived fields as they were.
Updated(row, input) ==
  [row EXCEPT
     !.tier = IF input.tier = "undefined" THEN @ ELSE input.tier,
     !.birthDate = IF input.birthDate = "undefined" THEN @ ELSE input.birthDate,
     !.derived = IF input.birthDate \in {"undefined", "month 13"} THEN @
                 ELSE Derived(input.birthDate)]

Written(input) ==
  CASE input.op = "create" ->
         [status |-> "active", tier |-> "free", birthDate |-> input.birthDate,
          derived |-> Derived(input.birthDate)]
    [] input.op = "update" -> Updated(customer, input)
    [] input.op = "softDelete" -> [customer EXCEPT !.status = "deleted"]

\* An event of this customer is under way: its statement is done, and it is not
\* in the topic.
UnderWay(c) == sending # {} \/ \E b \in Callers \ {c} : handling[b].at = "publish"

\* The statement is done in the database.
Commits(c) ==
  /\ handling[c].input.op = "create" => customer = NoRow
  /\ commits < MaxCommits
  /\ customer' = Written(handling[c].input)
  /\ commits' = commits + 1

\* A second customer of that email is a 409, and a statement that fails a 500.
\* One whose answer is lost, with the connection or the process, has been done,
\* and is a 500 as well: the lines that publish are not reached.
WriteRow(c) ==
  /\ process # "exited"
  /\ handling[c].at = "write"
  /\ \/ Commits(c) /\ crossed' = (crossed \/ UnderWay(c))
        /\ Requested(c, "publish") /\ UNCHANGED unanswered
     \/ Commits(c) /\ unanswered' = TRUE
        /\ Over(c) /\ UNCHANGED crossed
     \/ Over(c) /\ UNCHANGED <<customer, commits, unanswered, crossed>>
  /\ UNCHANGED producerVars

\* The statement's answer has come: the event is published without waiting.
\* Its payload is the request's, but for the tier a new customer has.
CustomerEvent(c) ==
  /\ process # "exited"
  /\ handling[c].at = "publish"
  /\ Over(c)
  /\ LET input == handling[c].input
     IN sending' = sending \union
          {[number |-> commits,
            tier |-> CASE input.op = "create" -> "free"
                       [] input.op = "update" -> input.tier
                       [] input.op = "softDelete" -> "undefined",
            deletes |-> input.op = "softDelete",
            at |-> IF connected THEN "send" ELSE "connect"]}
  /\ UNCHANGED <<customer, commits, unanswered, crossed>>
  /\ UNCHANGED <<connected, process, told, dropped>>

-----------------------------------------------------------------------------
(***************************************************************************)
(* The producer, and the end of the process.                               *)
(***************************************************************************)
serviceVars == <<customer, handling, commits, unanswered, crossed>>

\* connect() ends; an event it has failed for is dropped, unless another one's
\* connect() has succeeded.
Connect(event) ==
  /\ process # "exited"
  /\ event \in sending /\ event.at = "connect"
  /\ connected' \in {connected, TRUE}
  /\ IF connected'
     THEN /\ sending' = (sending \ {event}) \union {[event EXCEPT !.at = "send"]}
          /\ UNCHANGED dropped
     ELSE sending' = sending \ {event} /\ dropped' = TRUE
  /\ UNCHANGED <<serviceVars, process, told>>

Applied(event) ==
  [tier |-> IF event.tier = "undefined" THEN told.tier ELSE event.tier,
   deleted |-> told.deleted \/ event.deletes]

\* mutant: an event that is sent while the connection is closed is forgotten.
SendOrForget(event) ==
  /\ process # "exited"
  /\ event \in sending /\ event.at = "send"
  /\ sending' = sending \ {event}
  /\ told' = IF connected THEN Applied(event) ELSE told
  /\ UNCHANGED <<serviceVars, connected, process, dropped>>

\* The broker has the event.  When its answer is lost the event is sent again,
\* and is not over.
Send(event) ==
  /\ process # "exited"
  /\ event \in sending /\ event.at = "send"
  /\ told' = Applied(event)
  /\ sending' \in {sending, sending \ {event}}
  /\ UNCHANGED <<serviceVars, connected, process, dropped>>

\* After its retries, or because the producer was disconnected meanwhile.
SendFails(event) ==
  /\ process # "exited"
  /\ event \in sending /\ event.at = "send"
  /\ sending' = sending \ {event}
  /\ dropped' = TRUE
  /\ UNCHANGED <<serviceVars, connected, process, told>>

\* A signal: the producer is disconnected first, while requests go on, and may
\* be connected again by the next event.
GracefulShutdown ==
  /\ process = "up"
  /\ process' = "closing"
  /\ connected' \in {connected, FALSE}
  /\ UNCHANGED <<serviceVars, sending, told, dropped>>

\* process.exit, whatever is under way.
Exit ==
  /\ process = "closing"
  /\ process' = "exited"
  /\ dropped' = (dropped \/ sending # {}
                   \/ \E c \in Callers : handling[c].at = "publish")
  /\ UNCHANGED <<serviceVars, sending, connected, told>>

RecordsNext ==
  \/ \E c \in Callers :
       \/ \E input \in Inputs : Request(c, input)
       \/ FindUnique(c) \/ WriteRow(c) \/ CustomerEvent(c)
  \/ \E event \in sending : Connect(event) \/ Send(event) \/ SendFails(event)
  \/ GracefulShutdown \/ Exit

RecordsSpec == RecordsInit /\ [][RecordsNext]_recordVars

-----------------------------------------------------------------------------
(***************************************************************************)
(* Properties                                                              *)
(***************************************************************************)

\* The derived fields are those of the birth date in the same row, whatever
\* requests overlap, but for a date that cannot be calculated, which keeps those
\* of the date before it.
DerivedFromTheDate ==
  customer # NoRow /\ customer.birthDate # "month 13" =>
    customer.derived = Derived(customer.birthDate)

Quiet == sending = {} /\ \A c \in Callers : handling[c].at # "publish"

\* What a consumer that applies the events of the topic has is the tier and the
\* status of the row.
Told == told = [tier |-> customer.tier, deleted |-> customer.status = "deleted"]

\* It has them once nothing is under way, unless an event was dropped or the
\* answer of a statement lost, neither of which the caller learns, or two events
\* were under way at once, which may be sent in the wrong order.
EventsTellTheRow ==
  Quiet /\ customer # NoRow => dropped \/ unanswered \/ crossed \/ Told

\* "All customer writes produce Kafka events": a write that is answered, with no
\* other beside it and no shutdown begun, has its event in the topic.  The
\* producer drops what it cannot connect for or send: TLC finds it violated.
WritesProduceEvents ==
  Quiet /\ customer # NoRow => unanswered \/ crossed \/ process # "up" \/ Told
=============================================================================
