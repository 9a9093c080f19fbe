---------------------------- MODULE ReadingFlow ----------------------------
(***************************************************************************)
(* A reading, from the page to the database and back: the reading page and *)
(* its session context (TarotReading/frontend/src/app/reading/page.tsx,    *)
(* contexts/SessionContext.tsx), the API client with its retries and its   *)
(* timeout (shared/src/services/api-client-base.ts), and the handlers of   *)
(* POST /sessions and POST /readings (backend/src/api).                    *)
(*                                                                         *)
(* One user with one page.  Every HTTP request has a handler of its own,   *)
(* which goes on after the client has given the request up: a handler that *)
(* takes no more steps is one whose server has stopped or whose request    *)
(* was lost.  A row of the database is named by the request that made it.  *)
(***************************************************************************)
EXTENDS Naturals, Sequences

CONSTANTS
  Retry,       \* the attempts of one call of the API client
  MaxFetches   \* bound: the HTTP requests of a behaviour; then the user is offline

ASSUME ReadingFlowAssumption ==
  /\ Retry \in Nat \ {0}
  /\ MaxFetches \in Nat

VARIABLES
  page,      \* the ReadingState of the page
  session,   \* currentSession, which localStorage keeps; 0 for none
  reading,   \* the reading the page shows, 0 for none
  modal,     \* showCrisisModal
  client,    \* where the page's call of request() is
  attempt,   \* the number of its attempt
  asked,     \* what it asks for
  closure,   \* the session its handleInputSubmit was rendered with
  fetches,   \* the HTTP requests so far, each with the state of its handler
  referred   \* history: the sessions whose crisis resources the user has seen

pageVars == <<page, session, reading, modal, referred>>
clientVars == <<client, attempt, asked, closure>>
readingVars == <<pageVars, clientVars, fetches>>

\* A session is asked for with an input, which may tell of a crisis.
Asks == [kind : {"session"}, crisis : BOOLEAN]
          \union [kind : {"reading"}, session : Nat]

\* at: the place of the handler, or the status it has answered with; lost is a
\* failure too, for the answer of the database to a row it has created.
\* stored: has it created its row?
\* end: what became of the request on the client's side.
Fetches == [ask : Asks, stored : BOOLEAN,
            at : {"sent", "drawing", "storing", "login",
                  "ok", "refused", "failed", "lost"},
            end : {"open", "cut", "told", "adopted"}]

NoAsk == [kind |-> "none"]

Fetched == 1 .. Len(fetches)
Current == Len(fetches)

ReadingTypeOK ==
  /\ page \in {"input", "selecting", "drawing", "complete"}
  /\ session \in {0} \union Fetched
  /\ reading \in {0} \union Fetched
  /\ modal \in BOOLEAN
  /\ closure \in {0} \union Fetched
  /\ client \in {"idle", "fetch", "headers", "body", "sleep"}
  /\ attempt \in 1 .. Retry
  /\ asked \in {NoAsk} \union Asks
  /\ fetches \in Seq(Fetches)
  /\ referred \in SUBSET Fetched

ReadingInit ==
  /\ page = "input"
  /\ session = 0 /\ reading = 0 /\ closure = 0
  /\ modal = FALSE
  /\ client = "idle"
  /\ attempt = 1
  /\ asked = NoAsk
  /\ fetches = <<>>
  /\ referred = {}

\* The answer that created session s has crisis resources.
HasResources(s) == s # 0 /\ fetches[s].ask.crisis

\* The call has ended, and its handler with it.
CallOver ==
  /\ client' = "idle" /\ attempt' = 1 /\ asked' = NoAsk /\ closure' = 0
  
-----------------------------------------------------------------------------
(***************************************************************************)
(* The page.  Its buttons are disabled, or not there, while a call runs.   *)
(***************************************************************************)
Call(ask) ==
  /\ client = "idle"
  /\ client' = "fetch"
  /\ attempt' = 1
  /\ asked' = ask
  /\ UNCHANGED fetches

\* handleInputSubmit up to its await: it keeps the getCrisisResources of its
\* own rendering.
SubmitInput(crisis) ==
  /\ page = "input"
  /\ Call([kind |-> "session", crisis |-> crisis])
  /\ closure' = session
  /\ UNCHANGED pageVars

\* handleSpreadSelect up to its await.
SelectSpread ==
  /\ page = "selecting"
  /\ session # 0
  /\ Call([kind |-> "reading", session |-> session])
  /\ page' = "drawing"
  /\ UNCHANGED <<session, reading, modal, closure, referred>>

NewReading ==
  /\ page = "complete"
  /\ page' = "input"
  /\ reading' = 0
  /\ UNCHANGED <<session, modal, referred, clientVars, fetches>>

\* The Escape key closes the modal even while there are no resources to show.
CloseModal ==
  /\ modal
  /\ modal' = FALSE
  /\ UNCHANGED <<page, session, reading, referred, clientVars, fetches>>

\* The user loads the page again: its state is new but for the session, and
\* the browser gives up the request under way.
Reload ==
  /\ page' = "input"
  /\ reading' = 0
  /\ modal' = FALSE
  /\ CallOver
  /\ fetches' = IF client \in {"headers", "body"}
                THEN [fetches EXCEPT ![Current].end = "cut"] ELSE fetches
  /\ UNCHANGED <<session, referred>>

-----------------------------------------------------------------------------
(***************************************************************************)
(* BaseApiClient.request, and what the page does with its outcome.         *)
(***************************************************************************)
Fetch ==
  /\ client = "fetch"
  /\ Len(fetches) < MaxFetches
  /\ client' = "headers"
  /\ fetches' = Append(fetches, [ask |-> asked, stored |-> FALSE,
                                 at |-> "sent", end |-> "open"])
  /\ UNCHANGED <<pageVars, attempt, asked, closure>>

Ends(how) == fetches' = [fetches EXCEPT ![Current].end = how]

\* request() throws: createSession clears the session and the page stays where
\* it is; handleSpreadSelect goes back to the choice of a spread.
CallThrows ==
  /\ CallOver
  /\ \/ /\ asked.kind = "session"
        /\ session' = 0
        /\ UNCHANGED page
     \/ /\ asked.kind = "reading"
        /\ page' = "selecting"
        /\ UNCHANGED session
  /\ UNCHANGED <<reading, modal, referred>>

\* The failures that are worth another attempt.
RetryOrThrow ==
  \/ /\ attempt < Retry
     /\ client' = "sleep"
     /\ UNCHANGED <<pageVars, attempt, asked, closure>>
  \/ attempt = Retry /\ CallThrows

\* fetch() rejects before anything is sent.
Offline == client = "fetch" /\ RetryOrThrow /\ UNCHANGED fetches

\* The connection breaks, before the answer or in the middle of a good one.
Break ==
  /\ \/ client = "headers"
     \/ client = "body" /\ fetches[Current].at = "ok"
  /\ Ends("cut")
  /\ RetryOrThrow

\* mutant: nothing aborts a request that is not answered.
NeverAbort == FALSE /\ UNCHANGED readingVars

\* The timer aborts the request, which is not tried again.  It is cleared when
\* the headers have come.
Abort ==
  /\ client = "headers"
  /\ Ends("cut")
  /\ CallThrows

Headers ==
  /\ client = "headers"
  /\ fetches[Current].at \in {"ok", "refused", "failed", "lost"}
  /\ client' = "body"
  /\ UNCHANGED <<pageVars, attempt, asked, closure, fetches>>

\* The body of an error has come, or broken, which makes no difference.
Told ==
  /\ client = "body"
  /\ Ends("told")
  /\ \/ fetches[Current].at = "refused" /\ CallThrows
     \/ fetches[Current].at \in {"failed", "lost"} /\ RetryOrThrow

\* createSession sets the new session, and handleInputSubmit opens the modal if
\* the session of its own rendering had crisis resources.
Session ==
  /\ client = "body" /\ fetches[Current].at = "ok"
  /\ asked.kind = "session"
  /\ CallOver
  /\ Ends("adopted")
  /\ session' = Current
  /\ page' = "selecting"
  /\ modal' = (modal \/ HasResources(closure))
  /\ referred' = referred \union
                   {s \in {Current} : modal' /\ HasResources(s)}
  /\ UNCHANGED reading

Reading ==
  /\ client = "body" /\ fetches[Current].at = "ok"
  /\ asked.kind = "reading"
  /\ CallOver
  /\ Ends("adopted")
  /\ reading' = Current
  /\ page' = "complete"
  /\ UNCHANGED <<session, modal, referred>>

\* The back-off is over.
Wake ==
  /\ client = "sleep"
  /\ client' = "fetch"
  /\ attempt' = attempt + 1
  /\ UNCHANGED <<pageVars, asked, closure, fetches>>

-----------------------------------------------------------------------------
(***************************************************************************)
(* The handlers of POST /sessions and POST /readings.                      *)
(***************************************************************************)
Handle(f, here, there) ==
  /\ fetches[f].at = here
  /\ fetches' = [fetches EXCEPT ![f].at = there]
  /\ UNCHANGED <<pageVars, clientVars>>

\* The session of a reading has to be there.
Allowed(ask) == ask.kind = "reading" => fetches[ask.session].stored

\* mutant: the reading is created before it is drawn.
AdmitStored(f) ==
  /\ fetches[f].at = "sent" /\ Allowed(fetches[f].ask)
  /\ fetches' = [fetches EXCEPT
       ![f].at = IF fetches[f].ask.kind = "reading" THEN "drawing"
                                                    ELSE "storing",
       ![f].stored = fetches[f].ask.kind = "reading"]
  /\ UNCHANGED <<pageVars, clientVars>>

Admit(f) ==
  /\ Allowed(fetches[f].ask)
  /\ \/ fetches[f].ask.kind = "reading" /\ Handle(f, "sent", "drawing")
     \/ fetches[f].ask.kind = "session" /\ Handle(f, "sent", "storing")

\* Whatever is asked, authenticate may find the token expired; a session that is
\* not there, or a paid spread without a subscription, is refused likewise.
Refuse(f) == Handle(f, "sent", "refused")

\* executeReading: it has its cards, and an interpretation or its fallback.
ExecuteReading(f) == Handle(f, "drawing", "storing")

\* The row is there, whether or not the database's answer comes.
CreateRow(f) ==
  /\ fetches[f].at = "storing"
  /\ \E next \in {IF fetches[f].ask.kind = "session" THEN "login" ELSE "ok", "lost"} :
       fetches' = [fetches EXCEPT ![f].stored = TRUE, ![f].at = next]
  /\ UNCHANGED <<pageVars, clientVars>>

\* The session's handler also sets last_login_at of the user.
UpdateUser(f) == Handle(f, "login", "ok")

\* A statement of the handler or a card's lookup throws, the input is invalid,
\* the rate limiter refuses the request; or a row that a statement refers to
\* has gone, which is answered with a 4xx.
HandlerFails(f) ==
  \/ \E here \in {"sent", "drawing", "storing", "login"} :
       Handle(f, here, "failed")
  \/ \E here \in {"storing", "login"} : Handle(f, here, "refused")

-----------------------------------------------------------------------------
Handler(f) ==
  \/ Admit(f) \/ Refuse(f)
  \/ ExecuteReading(f) \/ CreateRow(f) \/ UpdateUser(f)
  \/ HandlerFails(f)

ReadingNext ==
  \/ \E crisis \in BOOLEAN : SubmitInput(crisis)
  \/ SelectSpread
  \/ NewReading \/ CloseModal \/ Reload
  \/ Fetch \/ Offline \/ Break \/ Abort \/ Headers \/ Told
  \/ Session \/ Reading \/ Wake
  \/ \E f \in Fetched : Handler(f)

ReadingSpec == ReadingInit /\ [][ReadingNext]_readingVars

\* The client goes on and its timers fire.  Nothing is asked of the server, of the
\* user, nor of the network: a body that has begun need neither arrive nor break.
ReadingFairness == WF_readingVars(Fetch \/ Offline \/ Abort \/ Wake)

-----------------------------------------------------------------------------
(***************************************************************************)
(* Properties                                                              *)
(***************************************************************************)

\* Every row of the database was handed to the page that asked for it, or is
\* about to be, or its request was cut off - broken, aborted after 10 s or left
\* by a reload - or the database's answer to its creation was lost, so that a
\* second one made by a retry, or a reading nobody has seen, always has such a
\* cause.  A session's handler may also have failed after creating it.
RowsAreAccountedFor ==
  \A f \in Fetched : fetches[f].stored =>
    \/ fetches[f].end \in {"cut", "adopted"}
    \/ f = Current /\ fetches[f].end = "open"
    \/ fetches[f].at = "lost"
    \/ /\ fetches[f].ask.kind = "session"
       /\ fetches[f].at \in {"failed", "refused"}

\* The reading on the page is in the database, under the session the page has,
\* whatever was retried, aborted or reloaded on the way.
ShownIsStored ==
  reading # 0 =>
    /\ fetches[reading].stored
    /\ fetches[reading].ask.kind = "reading"
    /\ fetches[reading].ask.session = session
    /\ session # 0 /\ fetches[session].stored

\* The database has what the page shows, and what it has was shown or cut off.
ReadingsAreStored == RowsAreAccountedFor /\ ShownIsStored

\* The page does not load for ever: each call ends, with an answer or an error,
\* whatever the server does, unless a body stalls for ever.
BodiesEnd == []<>(client # "body")

PageSettles == BodiesEnd => (client # "idle" ~> client = "idle")

\* What is said of the client ("Create abort controller for timeout", "Request
\* timeout handling"): a request ends, for there is a timeout.
RequestsTimeOut == client # "idle" ~> client = "idle"

\* Whoever has told of a crisis has been shown the crisis resources by the time
\* the page goes on to the choice of a spread.
ReferredWhenDetected ==
  page # "input" /\ HasResources(session) => session \in referred
=============================================================================
