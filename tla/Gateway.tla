------------------------------- MODULE Gateway -------------------------------
(***************************************************************************)
(* A request on its way through the Express application of                 *)
(* CustomerManagement (index.ts): the parsers, the routers in the order of *)
(* their mounts with the limiter before each (api/routes), authentication  *)
(* (middleware/auth.ts), the validation of ids and input, the operation of *)
(* a service, and the error handlers (middleware/error-handler.ts).        *)
(*                                                                         *)
(* A path is the sequence of its segments behind /api/v1 (or / or          *)
(* /internal/v1); a segment is a word of a route, "uuid" for an id that is *)
(* well formed, "text" for one that is not and "broken" for what does not  *)
(* decode, as a % with no code behind it.                                  *)
(***************************************************************************)
EXTENDS Naturals, Sequences, SequencesExt

VARIABLES
  req,       \* the request
  step,      \* how far it is
  mount,     \* the mount it is at
  route,     \* the route that takes it
  user,      \* has a middleware found out who asks?
  counted,   \* the limiters that have counted it, in order
  called,    \* the operations it has called, in order
  answers,   \* the statuses it was answered with
  checks     \* the checks of a request for /health

gatewayVars ==
  <<req, step, mount, route, user, counted, called, answers, checks>>

Checks == {"database", "redis"}

Id == ":id"   \* a parameter of a route

\* A route: its method and path, the middleware before it, the schema of its
\* input, the operation it calls and the status of its success.
Route(method, path, auth, schema, calls, status) ==
  [method |-> method, path |-> path, auth |-> auth, schema |-> schema,
   calls |-> calls, status |-> status]

-----------------------------------------------------------------------------
(***************************************************************************)
(* The routers.                                                            *)
(***************************************************************************)

CustomersRouter ==
  << Route("POST", <<>>, "user", "createCustomer", "create_customer", 201),
     Route("GET", <<>>, "user", "customerListQuery", "list_customers", 200),
     Route("GET", <<Id>>, "user", "none", "find_customer", 200),
     Route("PATCH", <<Id>>, "user", "updateCustomer", "update_customer", 200),
     Route("DELETE", <<Id>>, "user", "none", "delete_customer", 200) >>

ContactsRouter ==
  << Route("POST", <<>>, "user", "createContact", "add_contact", 201),
     Route("GET", <<>>, "user", "none", "list_contacts", 200),
     Route("PATCH", <<Id>>, "user", "updateContact", "update_contact", 200),
     Route("DELETE", <<Id>>, "user", "none", "remove_contact", 200) >>

BirthChartsRouter ==
  << Route("POST", <<>>, "user", "createBirthChart", "create_chart", 201),
     Route("GET", <<>>, "user", "query", "list_charts", 200),
     Route("GET", <<Id>>, "user", "none", "find_chart", 200) >>

FinanceRouter ==
  << Route("POST", <<>>, "user", "createFinanceRecord", "create_record", 201),
     Route("GET", <<>>, "user", "query", "list_records", 200),
     Route("GET", <<"summary">>, "user", "none", "summary", 200) >>

ComplianceRouter ==
  << Route("POST", <<"consents">>, "user", "createConsent", "record_consent", 201),
     Route("GET", <<"consents">>, "user", "none", "list_consents", 200),
     Route("POST", <<"notes">>, "user", "createNote", "add_note", 201),
     Route("GET", <<"notes">>, "user", "query", "list_notes", 200) >>

TagsRouter ==
  << Route("POST", <<>>, "user", "createTag", "create_tag", 201),
     Route("GET", <<>>, "user", "query", "list_tags", 200) >>

CustomerTagRouter ==
  << Route("GET", <<>>, "user", "none", "customer_tags", 200),
     Route("POST", <<>>, "user", "assignTag", "assign_tag", 201),
     Route("DELETE", <<Id>>, "user", "none", "remove_tag", 200) >>

AddressesRouter ==
  << Route("POST", <<>>, "user", "createAddress", "create_address", 201),
     Route("GET", <<>>, "user", "none", "list_addresses", 200),
     Route("PATCH", <<Id>>, "user", "updateAddress", "update_address", 200),
     Route("DELETE", <<Id>>, "user", "none", "delete_address", 200) >>

SessionsRouter ==
  << Route("POST", <<>>, "user", "deviceInfo", "login", 201),
     Route("DELETE", <<Id>>, "user", "none", "logout", 200),
     Route("GET", <<"me">>, "user", "none", "my_sessions", 200),
     Route("POST", <<"heartbeat">>, "user", "none", "heartbeat", 200),
     Route("GET", <<"presence", Id>>, "optional", "none", "presence", 200),
     Route("GET", <<"stats">>, "user", "none", "stats", 200) >>

InternalRouter ==
  << Route("GET", <<"customers", Id, "profile">>, "service", "none", "profile", 200) >>

Mount(prefix, limiter, merges, router) ==
  [prefix |-> prefix, limiter |-> limiter, merges |-> merges, router |-> router]

\* merges: Router({ mergeParams: true }).
Mounts ==
  << Mount(<<"customers">>, "api", FALSE, CustomersRouter),
     Mount(<<"customers", Id, "contacts">>, "api", TRUE, ContactsRouter),
     Mount(<<"customers", Id, "birth-charts">>, "api", TRUE, BirthChartsRouter),
     Mount(<<"customers", Id, "finance-records">>, "api", TRUE, FinanceRouter),
     Mount(<<"customers", Id>>, "api", TRUE, ComplianceRouter),
     Mount(<<"customers", Id, "tags">>, "api", TRUE, CustomerTagRouter),
     Mount(<<"customers", Id, "addresses">>, "api", TRUE, AddressesRouter),
     Mount(<<"tags">>, "api", FALSE, TagsRouter),
     Mount(<<"auth", "sessions">>, "auth", FALSE, SessionsRouter),
     Mount(<<"internal">>, "none", FALSE, InternalRouter) >>

-----------------------------------------------------------------------------
\* The schemas that want a field; the others are content with an empty object.
Requiring ==
  {"createCustomer", "createContact", "createBirthChart", "createFinanceRecord",
   "createConsent", "createNote", "createTag", "assignTag", "createAddress"}

\* input: every field in order, none at all, one out of its range, or a body that
\* the parsers refuse: no JSON, over 100 kB, of another charset or encoding.
Parses(schema, input) ==
  \/ schema = "none"
  \/ input = "full"
  \/ input = "empty" /\ schema \notin Requiring

Fits(pattern, path) ==
  /\ Len(path) = Len(pattern)
  /\ \A i \in 1 .. Len(path) : pattern[i] \in {Id, path[i]}

Reaches(m, path) ==
  /\ Len(m.prefix) <= Len(path)
  /\ Fits(m.prefix, SubSeq(path, 1, Len(m.prefix)))

\* The routes of a router that take a request, by their places.
Takes(m, r) ==
  LET rest == SubSeq(r.path, Len(m.prefix) + 1, Len(r.path))
  IN {i \in 1 .. Len(m.router) : /\ m.router[i].method = r.method
                                 /\ Fits(m.router[i].path, rest)}

\* mutant: no router sees the parameters of the path it is mounted at.
OwnParams(m) == Len(m.prefix) + 1

\* Where the segments begin whose parameters a router sees in req.params.
Seen(m) == IF m.merges THEN 1 ELSE Len(m.prefix) + 1

\* Every parameter of a route is parsed as an id; one that is not seen is not one.
ParsesIds(m, t, path) ==
  LET pattern == m.prefix \o t.path
  IN \A i \in 1 .. Len(path) : pattern[i] = Id => i >= Seen(m) /\ path[i] = "uuid"

-----------------------------------------------------------------------------
\* Paths that the comments of the routes, or a slip, lead to.
Literals == {"customers", "contacts", "birth-charts", "finance-records", "consents",
             "notes", "tags", "addresses", "presence", "finance-summary"}
Ids == {"uuid", "text", "broken"}
Paths ==
       {<<c>> : c \in {"customers", "tags", "health", "metrics", "customer"}}
  \union {<<"customers", i>> : i \in Ids}
  \union {<<"customers", i, l>> : i \in Ids, l \in Literals \ {"customers"}}
  \union {<<"customers", i, l, j>> : i \in Ids, l \in Literals \ {"customers"},
                                     j \in Ids \union {"summary"}}
  \union {<<"auth", "sessions">>}
  \union {<<"auth", "sessions", l>> : l \in Ids \union {"me", "heartbeat", "stats"}}
  \union {<<"auth", "sessions", "presence", i>> : i \in Ids}
  \union {<<"internal", "customers", i, "profile">> : i \in Ids}

Requests ==
  [method : {"GET", "POST", "PATCH", "DELETE"}, path : Paths,
   token : {"none", "bad", "refresh", "access", "service"},
   input : {"full", "empty", "wrong", "unread"}]

NoRequest == [path |-> <<>>]
NoRoute == [method |-> "none"]

GatewayInit ==
  /\ req = NoRequest /\ step = "free" /\ mount = 0 /\ route = NoRoute
  /\ user = FALSE /\ counted = <<>> /\ called = <<>> /\ answers = <<>>
  /\ checks = [c \in Checks |-> "idle"]

GatewayTypeOK ==
  /\ req \in Requests \union {NoRequest}
  /\ step \in {"free", "parse", "health", "checks", "mount", "router", "auth", "handler", "over"}
  /\ mount \in 0 .. Len(Mounts) + 1
  /\ \/ route = NoRoute
     \/ mount \in 1 .. Len(Mounts) /\ route \in Range(Mounts[mount].router)
  /\ user \in BOOLEAN
  /\ counted \in Seq({"api", "auth"})
  /\ Len(called) <= 1
  /\ checks \in [Checks -> {"idle", "running", "ok", "error"}]

Respond(status) == answers' = Append(answers, status) /\ step' = "over"

\* errorHandler.  Errors of the parsers and of the router have no case of their own,
\* and their status is not looked at.
ErrorStatus(error) ==
  CASE error = "bad_request" -> 400 [] error = "not_found" -> 404
    [] error = "conflict" -> 409
    [] error = "P2002" -> 409 [] error = "P2025" -> 404 [] error = "P2003" -> 400
    [] error = "ZodError" -> 400
    [] OTHER -> 500

ServiceErrors == {"bad_request", "not_found", "conflict", "P2002", "P2025", "P2003",
                  "database_error", "other_error"}

Arrive ==
  /\ step = "free"
  /\ req' \in Requests
  /\ step' = "parse"
  /\ UNCHANGED <<mount, route, user, counted, called, answers, checks>>

Parse ==
  /\ step = "parse"
  /\ IF req.input = "unread" THEN Respond(ErrorStatus("HttpError"))
     ELSE step' = "health" /\ UNCHANGED answers
  /\ UNCHANGED <<req, mount, route, user, counted, called, checks>>

\* /health and /metrics are before the mounts.
Health ==
  /\ step = "health"
  /\ IF req.method # "GET" \/ req.path \notin {<<"health">>, <<"metrics">>}
     THEN step' = "mount" /\ mount' = 1 /\ UNCHANGED <<checks, answers>>
     ELSE /\ IF req.path = <<"metrics">> THEN Respond(200) /\ UNCHANGED checks
             ELSE /\ step' = "checks" /\ checks' = [c \in Checks |-> "running"]
                  /\ UNCHANGED answers
          /\ UNCHANGED mount
  /\ UNCHANGED <<req, route, user, counted, called>>

\* The checks run at the same time; one that throws has failed.
CheckSettles(c) ==
  /\ step = "checks" /\ checks[c] = "running"
  /\ \E result \in {"ok", "error", "throws"} :
       checks' = [checks EXCEPT ![c] = IF result = "ok" THEN "ok" ELSE "error"]
  /\ UNCHANGED <<req, step, mount, route, user, counted, called, answers>>

Overall == CASE \A c \in Checks : checks[c] = "error" -> "down"
             [] \A c \in Checks : checks[c] = "ok" -> "ok"
             [] OTHER -> "degraded"

HealthEnds ==
  /\ step = "checks" /\ \A c \in Checks : checks[c] # "running"
  /\ Respond(IF Overall = "ok" THEN 200 ELSE 503)
  /\ UNCHANGED <<req, mount, route, user, counted, called, checks>>

Malformed == \E i \in 1 .. Len(req.path) : req.path[i] = "broken"

\* Where a pattern fits, its parameters are decoded before the method is looked
\* at, and before the limiter if the pattern is that of a mount.
DecodeThrows ==
  /\ Malformed
  /\ LET m == Mounts[mount]
     IN \/ /\ step = "mount" /\ mount <= Len(Mounts) /\ Reaches(m, req.path)
           /\ \E i \in 1 .. Len(m.prefix) : req.path[i] = "broken"
        \/ /\ step = "router"
           /\ \E i \in 1 .. Len(m.router) : Fits(m.prefix \o m.router[i].path, req.path)

\* The error goes past all that would match later, to errorHandler.
PathFails ==
  /\ DecodeThrows
  /\ Respond(ErrorStatus("URIError"))
  /\ UNCHANGED <<req, mount, route, user, counted, called, checks>>

\* A mount whose prefix fits: its limiter first, which fails open.
EnterMount ==
  /\ step = "mount" /\ mount <= Len(Mounts) /\ ~DecodeThrows
  /\ LET m == Mounts[mount]
     IN IF ~Reaches(m, req.path)
        THEN mount' = mount + 1 /\ UNCHANGED <<step, counted, answers>>
        ELSE /\ counted' = IF m.limiter = "none" THEN counted
                           ELSE Append(counted, m.limiter)
             /\ UNCHANGED mount
             /\ \/ step' = "router" /\ UNCHANGED answers
                \/ m.limiter # "none" /\ Respond(429)
  /\ UNCHANGED <<req, route, user, called, checks>>

EnterRouter ==
  /\ step = "router" /\ ~DecodeThrows
  /\ LET taking == Takes(Mounts[mount], req)
     IN IF taking = {}
        THEN mount' = mount + 1 /\ step' = "mount" /\ UNCHANGED route
        ELSE /\ \E i \in taking : /\ \A j \in taking : i <= j
                                 /\ route' = Mounts[mount].router[i]
             /\ step' = "auth" /\ UNCHANGED mount
  /\ UNCHANGED <<req, user, counted, called, answers, checks>>

NotFoundHandler ==
  /\ step = "mount" /\ mount = Len(Mounts) + 1
  /\ Respond(404)
  /\ UNCHANGED <<req, mount, route, user, counted, called, checks>>

\* Whatever throws in it is answered 500.
Authenticate ==
  /\ step = "auth" /\ route.auth = "user"
  /\ \/ /\ user' = (req.token = "access")
        /\ IF user' THEN step' = "handler" /\ UNCHANGED answers ELSE Respond(401)
     \/ user' = FALSE /\ Respond(500)
  /\ UNCHANGED <<req, mount, route, counted, called, checks>>

OptionalAuthenticate ==
  /\ step = "auth" /\ route.auth = "optional"
  /\ user' = (req.token = "access")
  /\ step' = "handler"
  /\ UNCHANGED <<req, mount, route, counted, called, answers, checks>>

ServiceAuth ==
  /\ step = "auth" /\ route.auth = "service"
  /\ IF req.token = "service" THEN step' = "handler" /\ UNCHANGED answers
     ELSE Respond(401)
  /\ UNCHANGED <<req, mount, route, user, counted, called, checks>>

\* The handler of a route, in asyncHandler.
Handler ==
  /\ step = "handler"
  /\ IF /\ ParsesIds(Mounts[mount], route, req.path)
        /\ Parses(route.schema, req.input)
     THEN /\ called' = Append(called, route.calls)
          /\ \E error \in ServiceErrors \union {"none"} :
               Respond(IF error = "none" THEN route.status ELSE ErrorStatus(error))
     ELSE Respond(ErrorStatus("ZodError")) /\ UNCHANGED called
  /\ UNCHANGED <<req, mount, route, user, counted, checks>>

GatewayNext ==
  \/ Arrive \/ Parse \/ Health \/ (\E c \in Checks : CheckSettles(c)) \/ HealthEnds
  \/ PathFails \/ EnterMount \/ EnterRouter \/ NotFoundHandler \/ Authenticate
  \/ OptionalAuthenticate \/ ServiceAuth \/ Handler

GatewaySpec == GatewayInit /\ [][GatewayNext]_gatewayVars

-----------------------------------------------------------------------------
(***************************************************************************)
(* Properties                                                              *)
(***************************************************************************)

\* The endpoints as the comments above the routes name them.
Of(id) == <<"customers", Id>> \o id
Endpoints ==
  { <<"POST", <<"customers">>, "create_customer">>,
    <<"GET", <<"customers">>, "list_customers">>,
    <<"GET", Of(<<>>), "find_customer">>,
    <<"PATCH", Of(<<>>), "update_customer">>,
    <<"DELETE", Of(<<>>), "delete_customer">>,
    <<"POST", Of(<<"contacts">>), "add_contact">>,
    <<"GET", Of(<<"contacts">>), "list_contacts">>,
    <<"PATCH", Of(<<"contacts", Id>>), "update_contact">>,
    <<"DELETE", Of(<<"contacts", Id>>), "remove_contact">>,
    <<"POST", Of(<<"birth-charts">>), "create_chart">>,
    <<"GET", Of(<<"birth-charts">>), "list_charts">>,
    <<"GET", Of(<<"birth-charts", Id>>), "find_chart">>,
    <<"POST", Of(<<"finance-records">>), "create_record">>,
    <<"GET", Of(<<"finance-records">>), "list_records">>,
    <<"GET", Of(<<"finance-summary">>), "summary">>,
    <<"POST", Of(<<"consents">>), "record_consent">>,
    <<"GET", Of(<<"consents">>), "list_consents">>,
    <<"POST", Of(<<"notes">>), "add_note">>,
    <<"GET", Of(<<"notes">>), "list_notes">>,
    <<"POST", <<"tags">>, "create_tag">>,
    <<"GET", <<"tags">>, "list_tags">>,
    <<"GET", Of(<<"tags">>), "customer_tags">>,
    <<"POST", Of(<<"tags">>), "assign_tag">>,
    <<"DELETE", Of(<<"tags", Id>>), "remove_tag">>,
    <<"POST", Of(<<"addresses">>), "create_address">>,
    <<"GET", Of(<<"addresses">>), "list_addresses">>,
    <<"PATCH", Of(<<"addresses", Id>>), "update_address">>,
    <<"DELETE", Of(<<"addresses", Id>>), "delete_address">>,
    <<"POST", <<"auth", "sessions">>, "login">>,
    <<"DELETE", <<"auth", "sessions", Id>>, "logout">>,
    <<"GET", <<"auth", "sessions", "me">>, "my_sessions">>,
    <<"POST", <<"auth", "sessions", "heartbeat">>, "heartbeat">>,
    <<"GET", Of(<<"presence">>), "presence">>,
    <<"GET", <<"auth", "sessions", "stats">>, "stats">>,
    <<"GET", <<"internal", "customers", Id, "profile">>, "profile">> }

\* The two that are served at another path than their comment says.
Misnamed == {"summary", "presence"}
Asked(e) == /\ req.method = e[1] /\ Len(req.path) = Len(e[2])
            /\ \A i \in 1 .. Len(e[2]) :
                 IF e[2][i] = Id THEN req.path[i] = "uuid" ELSE req.path[i] = e[2][i]

\* Authentication threw before it knew who asks.
AuthenticationFailed ==
  answers = <<500>> /\ route # NoRoute /\ route.auth = "user" /\ ~user

\* What an endpoint wants is there: its input and the token of its callers.
Brings(e) == /\ req.input = "full"
             /\ req.token = (IF e[3] = "profile" THEN "service" ELSE "access")

\* A request for an endpoint reaches the operation the endpoint is documented
\* for, through whichever of the overlapping mounts, if it brings what is wanted,
\* a limiter lets it and authentication does not fail; and no request calls
\* another operation than that of the endpoint it asks for, which two endpoints
\* have at another path (CommentedPathsAreServed).
EndpointsAreServed ==
  step = "over" =>
    /\ \A e \in Endpoints :
         /\ Asked(e) /\ e[3] \notin Misnamed /\ Brings(e)
         /\ answers # <<429>> /\ ~AuthenticationFailed
         => called = <<e[3]>>
    /\ called # <<>> => \/ called[1] \in Misnamed
                        \/ \E e \in Endpoints : Asked(e) /\ called[1] = e[3]

\* The same of the two whose comments name a path of their own: that of the
\* summary ends in finance-summary, that of the presence begins with customers.
CommentedPathsAreServed ==
  step = "over" =>
    \A e \in Endpoints :
      Asked(e) /\ e[3] \in Misnamed /\ Brings(e) /\ answers # <<429>> => called = <<e[3]>>

\* A request has one answer, which tells what became of it: a success only if the
\* operation was called, for somebody known unless it asks who is online; a refusal
\* for want of a token or at a limiter only if nothing was called; a conflict only
\* of a call; 500 only after a call, if authentication failed, or, though both are
\* the client's fault, for a body that cannot be read or a path that does not
\* decode; and a server is healthy only when all of its checks have found it so.
AnswersTellTheOutcome ==
  /\ Len(answers) <= 1
  /\ called # <<>> => user \/ req.token = "service" \/ called = <<"presence">>
  /\ answers # <<>> =>
       LET status == answers[1]
       IN /\ status < 300 => called # <<>> \/ req.path \in {<<"health">>, <<"metrics">>}
          /\ status \in {401, 429} => called = <<>>
          /\ status = 409 => called # <<>>
          /\ status = 500 => \/ called # <<>> \/ AuthenticationFailed
                             \/ req.input = "unread" \/ Malformed
          /\ status = 429 => counted # <<>>
          /\ req.path = <<"health">> /\ status = 200 =>
               \A c \in Checks : checks[c] = "ok"
=============================================================================
