----------------------------- MODULE MCStreams -----------------------------
(***************************************************************************)
(* Small instances of IngestStream, EventEmission, Subscription, EventBus  *)
(* and CustomerView for TLC.  They share no state: a behaviour runs one of *)
(* them and leaves the others in their initial states.                     *)
(***************************************************************************)
EXTENDS IngestStream, EventEmission, Subscription, EventBus,
        CustomerView, TLC

CONSTANTS e1, e2, e3, h1, h2

ThreeRequests == {e1, e2, e3}
TwoHandlers == {h1, h2}

VARIABLE component

vars == <<ingestVars, emissionVars, subscriptionVars, busVars, viewVars,
          component>>

Init ==
  /\ IngestInit
  /\ EmissionInit
  /\ SubscriptionInit
  /\ EventBusInit
  /\ CustomerViewInit
  /\ component \in {"ingest", "emission", "subscription", "bus", "view"}

\* A component that does not run keeps its state.
Rests(name, its) == IF component = name THEN TRUE ELSE UNCHANGED its

Next ==
  /\ UNCHANGED component
  /\ Rests("ingest", ingestVars)
  /\ Rests("emission", emissionVars)
  /\ Rests("subscription", subscriptionVars)
  /\ Rests("bus", busVars)
  /\ Rests("view", viewVars)
  /\ \/ component = "ingest" /\ IngestNext
     \/ component = "emission" /\ EmissionNext
     \/ component = "subscription" /\ SubscriptionNext
     \/ component = "bus" /\ EventBusNext
     \/ component = "view" /\ CustomerViewNext

Spec == Init /\ [][Next]_vars

FairSpec ==
  /\ Spec
  /\ IngestFairness /\ EmissionFairness /\ SubscriptionFairness /\ EventBusFairness

\* The variables of every component have their types.
StreamsTypeOK ==
  /\ IngestTypeOK
  /\ EmissionTypeOK
  /\ SubscriptionTypeOK
  /\ EventBusTypeOK
  /\ CustomerViewTypeOK

\* Nothing waits for ever: requests are processed, receivers and readers end with
\* their clients, and subscribers and consumers catch up.
StreamsSettle ==
  EventuallyProcessed /\ ReceiverEnds /\ CatchesUp /\ ReaderEnds /\ EventsAreDone
=============================================================================
