------------------------------ MODULE Accounts ------------------------------
(***************************************************************************)
(* The users of TarotReading and their tokens: the script that makes them  *)
(* (backend/src/scripts/create-test-user.ts), the issue, renewal and check *)
(* of tokens (lib/auth.ts, api/middleware/auth.ts), the token the browser  *)
(* keeps (frontend/src/services/api-client.ts), and the requests it is     *)
(* sent with: GET /sessions/recent, GET /readings/:id and POST             *)
(* /readings/:id/feedback (api/sessions.ts, api/readings.ts), retried by   *)
(* the shared client.                                                      *)
(*                                                                         *)
(* Every user who exists may have one session with one reading, which is   *)
(* named by the user.                                                      *)
(***************************************************************************)
EXTENDS Naturals, FiniteSets

CONSTANTS
  Users,
  ScriptRuns,          \* bound: the runs of the script that makes users
  AccessLife,       \* JWT_EXPIRES_IN
  RefreshLife,      \* JWT_REFRESH_EXPIRES_IN
  MaxDays,          \* bound: the time that passes
  MaxTries,         \* the attempts of one request
  MaxEvents         \* bound: the requests, and what happens around them

ASSUME AccountsAssumption ==
  /\ {AccessLife, RefreshLife, MaxDays, MaxTries, MaxEvents} \subseteq Nat \ {0}
  /\ Users # {}

VARIABLES
  day,        \* the time
  account,    \* the rows of users: "none", "active" or "suspended"
  script,     \* each run of the script: whom it makes and how far it is
  read,       \* the users with a session and a reading
  tokens,     \* the tokens made so far
  stored,     \* auth_token in localStorage: no token, or one
  held,       \* the token in the memory of the client: none, or one
  call,       \* the request under way
  feedback,   \* the rows of feedback on each reading
  events      \* the requests made so far, and what happened around them

accountVars ==
  <<day, account, script, read, tokens, stored, held, call, feedback, events>>

JwtTokens ==
  [user : Users, type : {"access", "refresh"}, until : Nat]

Ops == {"recent", "reading", "feedback"}

AtRest == {"free", "ok", "refused", "failed"}   \* no request is under way

\* try: the attempt; by: the token it is sent with; stage: how far it is;
\* user: whom the middleware found; status: of the answer; history: rows created
\* by the request, whether one of its answers was lost, and the account when the
\* token was sent.
NoCall ==
  [op |-> "recent", about |-> CHOOSE u \in Users : TRUE, valid |-> TRUE,
   try |-> 0, by |-> {}, stage |-> "free", user |-> {}, status |-> 0,
   rows |-> 0, lost |-> FALSE, then |-> {}]

Calls ==
  [op : Ops, about : Users, valid : BOOLEAN, try : 0 .. MaxTries,
   by : SUBSET JwtTokens,
   stage : AtRest \union {"attach", "sent", "verified", "handler", "create",
                        "answered"},
   user : SUBSET Users, status : {0, 200, 201, 401, 403, 404, 500},
   rows : 0 .. MaxTries, lost : BOOLEAN, then : SUBSET Users]

AccountsTypeOK ==
  /\ day \in 0 .. MaxDays
  /\ account \in [Users -> {"none", "active", "suspended"}]
  /\ script \in [ScriptRuns -> [for : Users, at : {"start", "create", "issue", "done", "failed"}]]
  /\ read \subseteq Users
  /\ tokens \subseteq JwtTokens
  /\ stored \subseteq tokens /\ held \subseteq tokens
  /\ call \in Calls
  /\ feedback \in [Users -> 0 .. MaxTries * MaxEvents]
  /\ events \in 0 .. MaxEvents

AccountsInit ==
  /\ day = 0 /\ account = [u \in Users |-> "none"]
  /\ script \in [ScriptRuns -> [for : Users, at : {"start"}]]
  /\ read = {} /\ tokens = {} /\ stored = {} /\ held = {}
  /\ call = NoCall /\ feedback = [u \in Users |-> 0] /\ events = 0

-----------------------------------------------------------------------------
(***************************************************************************)
(* Users and tokens.                                                       *)
(***************************************************************************)

\* bound: every event is counted, and none comes before the users are made.
Event ==
  /\ \A r \in ScriptRuns : script[r].at \in {"done", "failed"}
  /\ events < MaxEvents /\ events' = events + 1

Sign(u, type) ==
  [user |-> u, type |-> type,
   until |-> day + (IF type = "access" THEN AccessLife ELSE RefreshLife)]

RunGoes(r, stage) == script' = [script EXCEPT ![r].at = stage]

FindTestUser(r) ==
  /\ script[r].at = "start"
  /\ RunGoes(r, IF account[script[r].for] = "none" THEN "create" ELSE "issue")
  /\ UNCHANGED <<day, account, read, tokens, stored, held, call, feedback, events>>

\* The email is unique: the slower of two runs fails.
CreateTestUser(r) ==
  /\ script[r].at = "create"
  /\ IF account[script[r].for] = "none"
     THEN account' = [account EXCEPT ![script[r].for] = "active"] /\ RunGoes(r, "issue")
     ELSE RunGoes(r, "failed") /\ UNCHANGED account
  /\ UNCHANGED <<day, read, tokens, stored, held, call, feedback, events>>

GenerateTokenPair(r) ==
  /\ script[r].at = "issue"
  /\ tokens' = tokens \union {Sign(script[r].for, t) : t \in {"access", "refresh"}}
  /\ RunGoes(r, "done")
  /\ UNCHANGED <<day, account, read, stored, held, call, feedback, events>>

Expired(t) == day >= t.until

\* The account is not looked at.
RefreshAccessToken(t) ==
  /\ Event
  /\ t \in tokens /\ ~Expired(t) /\ t.type = "refresh"
  /\ tokens' = tokens \union {Sign(t.user, "access")}
  /\ UNCHANGED <<day, account, script, read, stored, held, call, feedback>>

\* An operator suspends a user; POST /sessions and POST /readings make the rows
\* of a session and its reading.
Suspend(u) ==
  /\ Event
  /\ account[u] = "active" /\ account' = [account EXCEPT ![u] = "suspended"]
  /\ UNCHANGED <<day, script, read, tokens, stored, held, call, feedback>>

DrawFor(u) ==
  /\ Event
  /\ account[u] = "active" /\ u \notin read /\ read' = read \union {u}
  /\ UNCHANGED <<day, account, script, tokens, stored, held, call, feedback>>

DayPasses ==
  /\ Event
  /\ day < MaxDays /\ day' = day + 1
  /\ UNCHANGED <<account, script, read, tokens, stored, held, call, feedback>>

SetAuthToken(t) ==
  /\ Event
  /\ t \in tokens
  /\ stored' = {t} /\ held' = {t}
  /\ UNCHANGED <<day, account, script, read, tokens, call, feedback>>

ClearAuthToken ==
  /\ Event
  /\ stored' = {} /\ held' = {}
  /\ UNCHANGED <<day, account, script, read, tokens, call, feedback>>

\* Another tab, or its user at the console, as the script tells him to, changes
\* what this one has stored but not what it holds.
StoredElsewhere ==
  /\ Event
  /\ stored' \in {{}} \union {{t} : t \in tokens}
  /\ UNCHANGED <<day, account, script, read, tokens, held, call, feedback>>

\* The page is loaded again.  bound: between two requests; ReadingFlow has
\* reloads during one.
LoadPage ==
  /\ Event /\ call.stage \in AtRest
  /\ held' = {}
  /\ UNCHANGED <<day, account, script, read, tokens, stored, call, feedback>>

-----------------------------------------------------------------------------
(***************************************************************************)
(* A request.                                                              *)
(***************************************************************************)

Ask(op, about, valid) ==
  /\ call.stage \in AtRest /\ Event
  /\ op # "feedback" => valid
  /\ op = "recent" => about = NoCall.about
  /\ call' = [NoCall EXCEPT !.op = op, !.about = about, !.valid = valid,
                            !.try = 1, !.stage = "attach"]
  /\ UNCHANGED <<day, account, script, read, tokens, stored, held, feedback>>

\* Each attempt asks for the token again.
GetAuthToken ==
  /\ call.stage = "attach"
  /\ held' = IF held = {} THEN stored ELSE held
  /\ call' = [call EXCEPT !.stage = "sent", !.by = held',
                          !.then = {t.user : t \in {k \in held' : account[k.user] = "active"}}]
  /\ UNCHANGED <<day, account, script, read, tokens, stored, feedback, events>>

\* The errors a handler throws.
errors ==
  [badRequest |-> 400, unauthorized |-> 401, forbidden |-> 403, notFound |-> 404,
   conflict |-> 409, quotaExceeded |-> 429, premiumRequired |-> 403, internal |-> 500]

Answered(c, status) == [c EXCEPT !.stage = "answered", !.status = status]

Verify ==
  /\ call.stage = "sent"
  /\ call' = IF call.by = {} \/ \E t \in call.by : Expired(t) \/ t.type # "access"
             THEN Answered(call, 401) ELSE [call EXCEPT !.stage = "verified"]
  /\ UNCHANGED <<day, account, script, read, tokens, stored, held, feedback, events>>

\* The user is looked up, which may fail.
FindUser ==
  /\ call.stage = "verified"
  /\ \E t \in call.by :
       \/ call' = IF account[t.user] = "active"
                  THEN [call EXCEPT !.stage = "handler", !.user = {t.user}]
                  ELSE Answered(call, IF account[t.user] = "none" THEN 401 ELSE 403)
       \/ call' = Answered(call, 500)
  /\ UNCHANGED <<day, account, script, read, tokens, stored, held, feedback, events>>

GetRecent ==
  /\ call.stage = "handler" /\ call.op = "recent"
  /\ call' = Answered(call, IF call.user \subseteq read THEN 200 ELSE errors.notFound)
  /\ UNCHANGED <<day, account, script, read, tokens, stored, held, feedback, events>>

\* What GET /readings/:id and the feedback on a reading find.
FindReading(c) ==
  IF c.about \notin read THEN errors.notFound
  ELSE IF c.user # {c.about} THEN errors.forbidden ELSE 200

GetReading ==
  /\ call.stage = "handler" /\ call.op = "reading"
  /\ call' = Answered(call, FindReading(call))
  /\ UNCHANGED <<day, account, script, read, tokens, stored, held, feedback, events>>

\* The error of the schema has the name ZodError, and errorHandler looks for
\* ValidationError.
SubmitFeedback ==
  /\ call.stage = "handler" /\ call.op = "feedback"
  /\ call' = IF ~call.valid THEN Answered(call, 500)
             ELSE IF FindReading(call) # 200 THEN Answered(call, FindReading(call))
             ELSE [call EXCEPT !.stage = "create"]
  /\ UNCHANGED <<day, account, script, read, tokens, stored, held, feedback, events>>

CreateFeedback ==
  /\ call.stage = "create"
  /\ \/ /\ feedback' = [feedback EXCEPT ![call.about] = @ + 1]
        /\ call' = Answered([call EXCEPT !.rows = @ + 1], 201)
     \/ call' = Answered(call, 500) /\ UNCHANGED feedback
  /\ UNCHANGED <<day, account, script, read, tokens, stored, held, events>>

\* The client settles the request; what it was sent with matters no more.
EndsAs(c, how) ==
  [c EXCEPT !.stage = how, !.by = {}, !.user = {}, !.status = 0, !.then = {}]

\* The next attempt, after a sleep, unless there are none left.
RetryOrFail(c) ==
  IF c.try < MaxTries THEN [EndsAs(c, "attach") EXCEPT !.try = @ + 1]
  ELSE EndsAs(c, "failed")

AnswerComes ==
  /\ call.stage = "answered"
  /\ call' = IF call.status < 300 THEN EndsAs(call, "ok")
             ELSE IF call.status < 500 THEN EndsAs(call, "refused")
             ELSE RetryOrFail(call)
  /\ UNCHANGED <<day, account, script, read, tokens, stored, held, feedback, events>>

\* The connection breaks before the answer comes.
AnswerIsLost ==
  /\ call.stage \in {"sent", "answered"}
  /\ call' = RetryOrFail([call EXCEPT !.lost = TRUE])
  /\ UNCHANGED <<day, account, script, read, tokens, stored, held, feedback, events>>

\* (gracefulShutdown.)  It waits for no request: the database is disconnected under
\* those that run, and the process exits.
ServerStops ==
  /\ Event
  /\ call.stage \in {"sent", "verified", "handler", "create", "answered"}
  /\ \/ call' = RetryOrFail([call EXCEPT !.lost = TRUE])
     \/ call.stage # "answered" /\ call' = Answered(call, errors.internal)
  /\ UNCHANGED <<day, account, script, read, tokens, stored, held, feedback>>

\* The timer ends the request when the answer is late; the server has done its part.
AnswerIsLate ==
  /\ call.stage = "answered"
  /\ call' = EndsAs([call EXCEPT !.lost = TRUE], "failed")
  /\ UNCHANGED <<day, account, script, read, tokens, stored, held, feedback, events>>

AccountsNext ==
  \/ \E r \in ScriptRuns : FindTestUser(r) \/ CreateTestUser(r) \/ GenerateTokenPair(r)
  \/ \E t \in tokens : RefreshAccessToken(t) \/ SetAuthToken(t)
  \/ \E u \in Users : Suspend(u) \/ DrawFor(u)
  \/ DayPasses \/ ClearAuthToken \/ StoredElsewhere \/ LoadPage
  \/ \E op \in Ops, about \in Users, valid \in BOOLEAN : Ask(op, about, valid)
  \/ GetAuthToken \/ Verify \/ FindUser \/ GetRecent \/ GetReading
  \/ SubmitFeedback \/ CreateFeedback
  \/ AnswerComes \/ ServerStops \/ AnswerIsLost \/ AnswerIsLate

AccountsSpec == AccountsInit /\ [][AccountsNext]_accountVars

-----------------------------------------------------------------------------
(***************************************************************************)
(* Properties                                                              *)
(***************************************************************************)

Served == call.stage = "answered" /\ call.status \in {200, 201}

\* Whatever token the attempt that succeeds goes out with, after a login, a logout
\* or a suspension in between, it is served only to a user who was active when it
\* was sent, with an access token, and only about his own reading.
ServedToItsUser ==
  Served =>
    /\ call.user # {} /\ call.user = {t.user : t \in call.by}
    /\ call.user \subseteq call.then
    /\ \A t \in call.by : t.type = "access"
    /\ call.op # "recent" => call.user = {call.about}

\* A user stays logged in no longer than the lives of his pair: a renewed token
\* outlives the refresh token of its user by less than its own life.
TokensEndWithTheirPair ==
  \A t \in tokens :
    \E p \in tokens : /\ p.user = t.user /\ p.type = "refresh"
                      /\ t.until <= p.until + AccessLife

\* Each row of feedback is one of an attempt of a request for it: at most as many
\* as there were attempts, and one unless an answer was lost; at least one if the
\* request succeeded; none if it was refused with no answer lost, if its input was
\* out of range, or if there is no reading.
FeedbackIsAccountedFor ==
  /\ call.rows <= call.try
  /\ ~call.lost => call.rows <= 1
  /\ call.stage = "ok" /\ call.op = "feedback" => call.rows >= 1
  /\ call.stage = "refused" /\ ~call.lost => call.rows = 0
  /\ ~call.valid => call.rows = 0 /\ call.stage # "ok"
  /\ \A u \in Users : feedback[u] > 0 => u \in read

\* The accounts of TarotReading serve the right users and count their feedback.
AccountsAreServed ==
  ServedToItsUser /\ TokensEndWithTheirPair /\ FeedbackIsAccountedFor
=============================================================================
