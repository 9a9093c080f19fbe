--------------------------- MODULE ReadingScreen ---------------------------
(***************************************************************************)
(* What the user of the reading page sees and can press                    *)
(* (TarotReading/frontend/src): the stages of app/reading/page.tsx, the    *)
(* input (components/ChatInput.tsx), the session context, the spread on    *)
(* the table with its cards that turn one after the other (SpreadLayout,   *)
(* TarotCard), the interpretation with its sections and the crisis modal.  *)
(*                                                                         *)
(* A call of the API is a promise that is kept or broken at any time;      *)
(* ReadingFlow has what happens in between.  Times are in units of 100 ms. *)
(***************************************************************************)
EXTENDS Naturals, Sequences, Functions

CONSTANTS MaxClicks   \* bound: the clicks on the cards of a reading

ASSUME ReadingScreenAssumption == MaxClicks \in Nat

SpreadTypes == {"1-card", "3-card", "7-card", "celtic-cross"}

\* The cards the server draws for a spread.
CardCount(s) == CASE s = "1-card" -> 1 [] s = "3-card" -> 3
                  [] s = "7-card" -> 7 [] s = "celtic-cross" -> 10

VARIABLES
  stage,      \* the ReadingState of the page
  spread,     \* selectedSpread, "" for none
  dealt,      \* the cards of the reading on the page, 0 for none
  level,      \* crisis_level of the session in the context; "" for no session
  typed,      \* is there a text in the input?
  submitting, \* isSubmitting of the input
  loading,    \* isLoading of the page, and of the context for a session
  banner,     \* is there an error on the page?
  modalOpen,  \* showCrisisModal
  promises,   \* the calls under way, with what their handler was rendered with
  up,         \* the cards that lie face up
  timers,     \* the cards whose timer runs
  expanded,   \* the section of the advice that is open, "" for none
  clicked     \* the cards clicked, up to the bound

tableVars == <<up, timers, expanded, clicked>>
screenVars == <<stage, spread, dealt, level, typed, submitting, loading, banner,
                modalOpen, promises, tableVars>>

CrisisLevels == {"none", "moderate", "high", "immediate"}
Sections == {"short", "medium", "long"}
Promises == [for : {"session"}, resources : BOOLEAN]
              \union [for : {"reading"}, spread : SpreadTypes]

ScreenTypeOK ==
  /\ stage \in {"input", "selecting-spread", "drawing", "complete"}
  /\ spread \in SpreadTypes \union {""}
  /\ dealt \in 0 .. 10
  /\ level \in CrisisLevels \union {""}
  /\ {typed, submitting, loading, banner, modalOpen} \subseteq BOOLEAN
  /\ promises \in SUBSET Promises
  /\ up \in SUBSET (1 .. dealt) /\ timers \in SUBSET (1 .. dealt)
  /\ expanded \in Sections \union {""}
  /\ clicked \in Seq(1 .. dealt)

ScreenInit ==
  /\ stage = "input" /\ spread = "" /\ dealt = 0 /\ level = ""
  /\ typed = FALSE /\ submitting = FALSE /\ loading = FALSE
  /\ banner = FALSE /\ modalOpen = FALSE
  /\ promises = {}
  /\ up = {} /\ timers = {} /\ expanded = "" /\ clicked = <<>>

\* The server sends resources with the two upper levels.
Resources(l) == l \in {"high", "immediate"}

\* A page without a table: the cards are unmounted with it.
NoTable ==
  dealt' = 0 /\ up' = {} /\ timers' = {} /\ expanded' = "" /\ clicked' = <<>>

-----------------------------------------------------------------------------
(***************************************************************************)
(* The input and the choice of a spread.                                   *)
(***************************************************************************)
TypeText ==
  /\ stage = "input" /\ ~(loading \/ submitting)
  /\ typed' \in BOOLEAN
  /\ UNCHANGED <<stage, spread, dealt, level, submitting, loading, banner,
                 modalOpen, promises, tableVars>>

\* mutant: the input can be sent again while it is being sent.
SubmitTextAgain ==
  /\ stage = "input" /\ typed
  /\ submitting' = TRUE /\ loading' = TRUE /\ banner' = FALSE
  /\ promises' = promises \union
                   {[for |-> "session", resources |-> Resources(level)],
                    [for |-> "session", resources |-> ~Resources(level)]}
  /\ UNCHANGED <<stage, spread, dealt, level, typed, modalOpen, tableVars>>

SubmitText ==
  /\ stage = "input" /\ typed /\ ~submitting /\ ~loading
  /\ submitting' = TRUE /\ loading' = TRUE /\ banner' = FALSE
  /\ promises' = promises \union
                   {[for |-> "session", resources |-> Resources(level)]}
  /\ UNCHANGED <<stage, spread, dealt, level, typed, modalOpen, tableVars>>

\* createSession returns: the input leaves the screen with its text.
SessionCreated(promise, l) ==
  /\ promise.for = "session"
  /\ level' = l
  /\ stage' = "selecting-spread"
  /\ modalOpen' = (modalOpen \/ promise.resources)
  /\ typed' = FALSE /\ submitting' = FALSE /\ loading' = FALSE
  /\ UNCHANGED <<spread, banner>> /\ NoTable

\* createSession throws: the page shows the error and swallows it, so that the
\* input clears its text as after a success.
SessionFails(promise) ==
  /\ promise.for = "session"
  /\ level' = ""
  /\ banner' = TRUE
  /\ typed' = FALSE /\ submitting' = FALSE /\ loading' = FALSE
  /\ UNCHANGED <<stage, spread, dealt, modalOpen, tableVars>>

ChooseSpread(s) ==
  /\ stage = "selecting-spread"
  /\ IF level = ""
     THEN banner' = TRUE /\ UNCHANGED <<stage, spread, loading, promises>>
     ELSE /\ stage' = "drawing" /\ spread' = s
          /\ loading' = TRUE /\ banner' = FALSE
          /\ promises' = promises \union {[for |-> "reading", spread |-> s]}
  /\ UNCHANGED <<dealt, level, typed, submitting, modalOpen, tableVars>>

-----------------------------------------------------------------------------
(***************************************************************************)
(* The table.  A layout gives each of its cards the delay of its timer; it *)
(* is empty when the reading has fewer cards than it needs.                *)
(***************************************************************************)
SingleCardLayout(n) == IF n = 0 THEN <<>> ELSE <<3>>

ThreeCardLayout(n) ==
  IF n < 3 THEN <<>> ELSE [card \in 1 .. n |-> 3 + (card - 1) * 4]

\* Three rows: cards 1 to 3, card 4, and cards 5 to 7.
SevenCardLayout(n) ==
  IF n < 7 THEN <<>> ELSE [card \in 1 .. 7 |-> 3 + (card - 1) * 3]

\* The cross, cards 1 to 6, and the staff, cards 7 to 10.
CelticCrossLayout(n) ==
  IF n < 10 THEN <<>>
  ELSE <<3, 6, 9, 15, 12, 18>> \o [i \in 1 .. 4 |-> 21 + (i - 1) * 3]

SpreadLayout(s, n) ==
  CASE s = "1-card" -> SingleCardLayout(n)
    [] s = "3-card" -> ThreeCardLayout(n)
    [] s = "7-card" -> SevenCardLayout(n)
    [] s = "celtic-cross" -> CelticCrossLayout(n)

\* The backs that stand for the cards while they are drawn.
Placeholders(s) ==
  CASE s = "1-card" -> 1 [] s = "3-card" -> 3
    [] s = "7-card" -> 7 [] s = "celtic-cross" -> 10

\* createReading returns: the cards are laid, face down, and their timers start.
ReadingDrawn(promise) ==
  /\ promise.for = "reading"
  /\ stage' = "complete" /\ loading' = FALSE
  /\ dealt' = CardCount(promise.spread)
  /\ up' = {}
  /\ timers' = DOMAIN SpreadLayout(promise.spread, dealt')
  /\ expanded' = "" /\ clicked' = <<>>
  /\ UNCHANGED <<spread, level, typed, submitting, banner, modalOpen>>

ReadingFails(promise) ==
  /\ promise.for = "reading"
  /\ stage' = "selecting-spread" /\ loading' = FALSE /\ banner' = TRUE
  /\ UNCHANGED <<spread, level, typed, submitting, modalOpen>> /\ NoTable

PromiseEnds ==
  \E promise \in promises :
    /\ promises' = promises \ {promise}
    /\ \/ \E l \in CrisisLevels : SessionCreated(promise, l)
       \/ SessionFails(promise)
       \/ ReadingDrawn(promise)
       \/ ReadingFails(promise)

Lays(card) == SpreadLayout(spread, dealt)[card]

\* The timer of a card fires, those with a shorter delay before.
TurnCard(card) ==
  /\ card \in timers
  /\ \A other \in timers : Lays(other) >= Lays(card)
  /\ timers' = timers \ {card}
  /\ up' = up \union {card}
  /\ UNCHANGED <<stage, spread, dealt, level, typed, submitting, loading, banner,
                 modalOpen, promises, expanded, clicked>>

\* A click, or Enter or the space bar, on a card turns it over, and back.
ClickCard(card) ==
  /\ card \in DOMAIN SpreadLayout(spread, dealt)
  /\ Len(clicked) < MaxClicks
  /\ clicked' = Append(clicked, card)
  /\ up' = (up \ {card}) \union ({card} \ up)
  /\ UNCHANGED <<stage, spread, dealt, level, typed, submitting, loading, banner,
                 modalOpen, promises, timers, expanded>>

ToggleSection(section) ==
  /\ stage = "complete"
  /\ expanded' = IF expanded = section THEN "" ELSE section
  /\ UNCHANGED <<stage, spread, dealt, level, typed, submitting, loading, banner,
                 modalOpen, promises, up, timers, clicked>>

-----------------------------------------------------------------------------
StartNewReading ==
  /\ stage = "complete"
  /\ stage' = "input" /\ spread' = "" /\ banner' = FALSE
  /\ NoTable
  /\ UNCHANGED <<level, typed, submitting, loading, modalOpen, promises>>

DismissBanner ==
  /\ banner /\ banner' = FALSE
  /\ UNCHANGED <<stage, spread, dealt, level, typed, submitting, loading,
                 modalOpen, promises, tableVars>>

\* Its buttons and the backdrop are there only with resources to show; the
\* Escape key closes it, and the page stays locked, without them too.
DismissModal ==
  /\ modalOpen /\ modalOpen' = FALSE
  /\ UNCHANGED <<stage, spread, dealt, level, typed, submitting, loading, banner,
                 promises, tableVars>>

\* The page is loaded again; localStorage has the session.
LoadAgain ==
  /\ stage' = "input" /\ spread' = "" /\ promises' = {}
  /\ typed' = FALSE /\ submitting' = FALSE /\ loading' = FALSE
  /\ banner' = FALSE /\ modalOpen' = FALSE
  /\ UNCHANGED level /\ NoTable

ScreenNext ==
  \/ TypeText \/ SubmitText
  \/ \E s \in SpreadTypes : ChooseSpread(s)
  \/ PromiseEnds
  \/ \E card \in 1 .. dealt : TurnCard(card) \/ ClickCard(card)
  \/ \E section \in Sections : ToggleSection(section)
  \/ StartNewReading \/ DismissBanner \/ DismissModal \/ LoadAgain

ScreenSpec == ScreenInit /\ [][ScreenNext]_screenVars

-----------------------------------------------------------------------------
(***************************************************************************)
(* Properties                                                              *)
(***************************************************************************)

\* At most one call is under way, and the screen waits for it at the right
\* stage and for no other reason, however clicks, failures and reloads come:
\* the input is disabled while a session is created, and the backs lie there,
\* as many as the server draws cards, while a reading is.  A spread is never
\* chosen without a session.
WaitsForItsCall ==
  /\ \A p, q \in promises : p = q
  /\ loading = (promises # {})
  /\ submitting = (\E p \in promises : p.for = "session")
  /\ stage = "drawing" <=> \E p \in promises : p.for = "reading"
  /\ \A p \in promises : CASE p.for = "session" -> stage = "input"
                           [] p.for = "reading" -> spread = p.spread
  /\ stage = "drawing" => Placeholders(spread) = CardCount(spread)
  /\ stage # "input" => level # ""

\* No card the server has drawn is left face down: whatever the spread, it lies
\* face up, its timer is yet to fire, or the user has turned it himself.
EveryCardTurns ==
  stage = "complete" =>
    \A card \in 1 .. dealt : card \in up \union timers \union Range(clicked)

\* The reading page waits for its calls and lays no card that stays face down.
ScreenFollowsItsCalls == WaitsForItsCall /\ EveryCardTurns
=============================================================================
