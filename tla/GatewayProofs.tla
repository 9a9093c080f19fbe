---------------------------- MODULE GatewayProofs ---------------------------
(*****************************************************************************)
(* Proofs about the requests of CustomerManagement: each has one answer,     *)
(* which tells what became of it, and each that is documented reaches the    *)
(* handler of its endpoint, whatever the path, the token and the parameters. *)
(*****************************************************************************)
EXTENDS Gateway, FiniteSetTheorems, SequenceTheorems, TLAPS

-----------------------------------------------------------------------------
(***************************************************************************)
(* The requests of CustomerManagement and their answers.                   *)
(***************************************************************************)

\* What a route says of who may call it and of its success; where a mount is.
TellsWho(t) == t.auth = "optional" => t.calls = "presence"
RouteOK(t) == TellsWho(t) /\ t.status \in {200, 201} /\ t.method # "none"
MountOK(m) ==
  /\ m.limiter \in {"api", "auth", "none"}
  /\ Len(m.prefix) \in Nat \ {0}
  /\ m.prefix[1] \in {"customers", "tags", "auth", "internal"}
  /\ \A i \in 1 .. Len(m.router) : RouteOK(m.router[i])

LEMMA RoutersAreOK ==
  /\ \A i \in 1 .. Len(CustomersRouter) : RouteOK(CustomersRouter[i])
  /\ \A i \in 1 .. Len(ContactsRouter) : RouteOK(ContactsRouter[i])
  /\ \A i \in 1 .. Len(BirthChartsRouter) : RouteOK(BirthChartsRouter[i])
  /\ \A i \in 1 .. Len(FinanceRouter) : RouteOK(FinanceRouter[i])
  /\ \A i \in 1 .. Len(ComplianceRouter) : RouteOK(ComplianceRouter[i])
  /\ \A i \in 1 .. Len(CustomerTagRouter) : RouteOK(CustomerTagRouter[i])
  /\ \A i \in 1 .. Len(AddressesRouter) : RouteOK(AddressesRouter[i])
  /\ \A i \in 1 .. Len(TagsRouter) : RouteOK(TagsRouter[i])
  /\ \A i \in 1 .. Len(SessionsRouter) : RouteOK(SessionsRouter[i])
  /\ \A i \in 1 .. Len(InternalRouter) : RouteOK(InternalRouter[i])
<1>1. \A i \in 1 .. Len(CustomersRouter) : RouteOK(CustomersRouter[i])
  BY DEF CustomersRouter, Route, RouteOK, TellsWho
<1>2. \A i \in 1 .. Len(ContactsRouter) : RouteOK(ContactsRouter[i])
  BY DEF ContactsRouter, Route, RouteOK, TellsWho
<1>3. \A i \in 1 .. Len(BirthChartsRouter) : RouteOK(BirthChartsRouter[i])
  BY DEF BirthChartsRouter, Route, RouteOK, TellsWho
<1>4. \A i \in 1 .. Len(FinanceRouter) : RouteOK(FinanceRouter[i])
  BY DEF FinanceRouter, Route, RouteOK, TellsWho
<1>5. \A i \in 1 .. Len(ComplianceRouter) : RouteOK(ComplianceRouter[i])
  BY DEF ComplianceRouter, Route, RouteOK, TellsWho
<1>6. \A i \in 1 .. Len(CustomerTagRouter) : RouteOK(CustomerTagRouter[i])
  BY DEF CustomerTagRouter, Route, RouteOK, TellsWho
<1>7. \A i \in 1 .. Len(AddressesRouter) : RouteOK(AddressesRouter[i])
  BY DEF AddressesRouter, Route, RouteOK, TellsWho
<1>8. \A i \in 1 .. Len(TagsRouter) : RouteOK(TagsRouter[i])
  BY DEF TagsRouter, Route, RouteOK, TellsWho
<1>9. \A i \in 1 .. Len(SessionsRouter) : RouteOK(SessionsRouter[i])
  BY DEF SessionsRouter, Route, RouteOK, TellsWho
<1>10. \A i \in 1 .. Len(InternalRouter) : RouteOK(InternalRouter[i])
  BY DEF InternalRouter, Route, RouteOK, TellsWho
<1> QED BY <1>1, <1>2, <1>3, <1>4, <1>5, <1>6, <1>7, <1>8, <1>9, <1>10

LEMMA MountsAreOK == Len(Mounts) = 10 /\ \A i \in 1 .. Len(Mounts) : MountOK(Mounts[i])
<1>1. Len(Mounts) = 10
  BY DEF Mounts
<1>2. MountOK(Mounts[1])
  <2>1. Mounts[1].prefix = <<"customers">> /\ Mounts[1].router = CustomersRouter
        /\ Mounts[1].limiter \in {"api", "auth", "none"}
    BY DEF Mounts, Mount
  <2>2. Len(<<"customers">>) = 1 /\ <<"customers">>[1] = "customers"
    OBVIOUS
  <2>3. \A i \in 1 .. Len(CustomersRouter) : RouteOK(CustomersRouter[i])
    BY RoutersAreOK
  <2> QED BY ONLY <2>1, <2>2, <2>3 DEF MountOK
<1>3. MountOK(Mounts[2])
  <2>1. Mounts[2].prefix = <<"customers", Id, "contacts">> /\ Mounts[2].router = ContactsRouter
        /\ Mounts[2].limiter \in {"api", "auth", "none"}
    BY DEF Mounts, Mount
  <2>2. Len(<<"customers", Id, "contacts">>) = 3 /\ <<"customers", Id, "contacts">>[1] = "customers"
    OBVIOUS
  <2>3. \A i \in 1 .. Len(ContactsRouter) : RouteOK(ContactsRouter[i])
    BY RoutersAreOK
  <2> QED BY ONLY <2>1, <2>2, <2>3 DEF MountOK
<1>4. MountOK(Mounts[3])
  <2>1. Mounts[3].prefix = <<"customers", Id, "birth-charts">> /\ Mounts[3].router = BirthChartsRouter
        /\ Mounts[3].limiter \in {"api", "auth", "none"}
    BY DEF Mounts, Mount
  <2>2. Len(<<"customers", Id, "birth-charts">>) = 3 /\ <<"customers", Id, "birth-charts">>[1] = "customers"
    OBVIOUS
  <2>3. \A i \in 1 .. Len(BirthChartsRouter) : RouteOK(BirthChartsRouter[i])
    BY RoutersAreOK
  <2> QED BY ONLY <2>1, <2>2, <2>3 DEF MountOK
<1>5. MountOK(Mounts[4])
  <2>1. Mounts[4].prefix = <<"customers", Id, "finance-records">> /\ Mounts[4].router = FinanceRouter
        /\ Mounts[4].limiter \in {"api", "auth", "none"}
    BY DEF Mounts, Mount
  <2>2. Len(<<"customers", Id, "finance-records">>) = 3 /\ <<"customers", Id, "finance-records">>[1] = "customers"
    OBVIOUS
  <2>3. \A i \in 1 .. Len(FinanceRouter) : RouteOK(FinanceRouter[i])
    BY RoutersAreOK
  <2> QED BY ONLY <2>1, <2>2, <2>3 DEF MountOK
<1>6. MountOK(Mounts[5])
  <2>1. Mounts[5].prefix = <<"customers", Id>> /\ Mounts[5].router = ComplianceRouter
        /\ Mounts[5].limiter \in {"api", "auth", "none"}
    BY DEF Mounts, Mount
  <2>2. Len(<<"customers", Id>>) = 2 /\ <<"customers", Id>>[1] = "customers"
    OBVIOUS
  <2>3. \A i \in 1 .. Len(ComplianceRouter) : RouteOK(ComplianceRouter[i])
    BY RoutersAreOK
  <2> QED BY ONLY <2>1, <2>2, <2>3 DEF MountOK
<1>7. MountOK(Mounts[6])
  <2>1. Mounts[6].prefix = <<"customers", Id, "tags">> /\ Mounts[6].router = CustomerTagRouter
        /\ Mounts[6].limiter \in {"api", "auth", "none"}
    BY DEF Mounts, Mount
  <2>2. Len(<<"customers", Id, "tags">>) = 3 /\ <<"customers", Id, "tags">>[1] = "customers"
    OBVIOUS
  <2>3. \A i \in 1 .. Len(CustomerTagRouter) : RouteOK(CustomerTagRouter[i])
    BY RoutersAreOK
  <2> QED BY ONLY <2>1, <2>2, <2>3 DEF MountOK
<1>8. MountOK(Mounts[7])
  <2>1. Mounts[7].prefix = <<"customers", Id, "addresses">> /\ Mounts[7].router = AddressesRouter
        /\ Mounts[7].limiter \in {"api", "auth", "none"}
    BY DEF Mounts, Mount
  <2>2. Len(<<"customers", Id, "addresses">>) = 3 /\ <<"customers", Id, "addresses">>[1] = "customers"
    OBVIOUS
  <2>3. \A i \in 1 .. Len(AddressesRouter) : RouteOK(AddressesRouter[i])
    BY RoutersAreOK
  <2> QED BY ONLY <2>1, <2>2, <2>3 DEF MountOK
<1>9. MountOK(Mounts[8])
  <2>1. Mounts[8].prefix = <<"tags">> /\ Mounts[8].router = TagsRouter
        /\ Mounts[8].limiter \in {"api", "auth", "none"}
    BY DEF Mounts, Mount
  <2>2. Len(<<"tags">>) = 1 /\ <<"tags">>[1] = "tags"
    OBVIOUS
  <2>3. \A i \in 1 .. Len(TagsRouter) : RouteOK(TagsRouter[i])
    BY RoutersAreOK
  <2> QED BY ONLY <2>1, <2>2, <2>3 DEF MountOK
<1>10. MountOK(Mounts[9])
  <2>1. Mounts[9].prefix = <<"auth", "sessions">> /\ Mounts[9].router = SessionsRouter
        /\ Mounts[9].limiter \in {"api", "auth", "none"}
    BY DEF Mounts, Mount
  <2>2. Len(<<"auth", "sessions">>) = 2 /\ <<"auth", "sessions">>[1] = "auth"
    OBVIOUS
  <2>3. \A i \in 1 .. Len(SessionsRouter) : RouteOK(SessionsRouter[i])
    BY RoutersAreOK
  <2> QED BY ONLY <2>1, <2>2, <2>3 DEF MountOK
<1>11. MountOK(Mounts[10])
  <2>1. Mounts[10].prefix = <<"internal">> /\ Mounts[10].router = InternalRouter
        /\ Mounts[10].limiter \in {"api", "auth", "none"}
    BY DEF Mounts, Mount
  <2>2. Len(<<"internal">>) = 1 /\ <<"internal">>[1] = "internal"
    OBVIOUS
  <2>3. \A i \in 1 .. Len(InternalRouter) : RouteOK(InternalRouter[i])
    BY RoutersAreOK
  <2> QED BY ONLY <2>1, <2>2, <2>3 DEF MountOK
<1> QED BY <1>1, <1>2, <1>3, <1>4, <1>5, <1>6, <1>7, <1>8, <1>9, <1>10, <1>11

\* /health is at no mount.
LEMMA HealthIsNotMounted ==
  ASSUME NEW m, MountOK(m), NEW path, Reaches(m, path)
  PROVE  path # <<"health">>
<1> SUFFICES ASSUME path = <<"health">>
             PROVE  FALSE
  OBVIOUS
<1>1. path \in Seq({"health"}) /\ Len(path) = 1 /\ path[1] = "health"
  OBVIOUS
<1>2. Len(m.prefix) = 1
  <2>1. Len(m.prefix) <= Len(path)
    BY DEF Reaches
  <2>2. Len(m.prefix) \in Nat \ {0}
    BY DEF MountOK
  <2> QED BY ONLY <1>1, <2>1, <2>2
<1>3. Len(SubSeq(path, 1, 1)) = 1 /\ SubSeq(path, 1, 1)[1] = "health"
  BY ONLY <1>1, SubSeqProperties
<1>4. m.prefix[1] \in {Id, "health"}
  BY <1>2, <1>3 DEF Reaches, Fits
<1> QED BY <1>4 DEF MountOK, Id

Reached ==
  /\ counted \in Seq({"api", "auth"})
  /\ \/ step # "over" /\ answers = <<>> /\ called = <<>>
     \/ step = "over" /\ Len(answers) = 1 /\ Len(called) <= 1
  /\ step = "checks" => req.path = <<"health">>
  /\ step = "mount" => mount \in 1 .. Len(Mounts) + 1
  /\ step \in {"router", "auth", "handler"} =>
       mount \in 1 .. Len(Mounts) /\ req.path # <<"health">>
  /\ step \in {"auth", "handler"} => RouteOK(route)
  /\ step = "handler" => user \/ req.token = "service" \/ route.calls = "presence"

GatewayInv == Reached /\ AnswersTellTheOutcome

\* One answer ends a request.
LEMMA OneAnswer ==
  ASSUME answers = <<>>, NEW status, Respond(status)
  PROVE  answers' = << status >> /\ Len(answers') = 1 /\ answers'[1] = status
         /\ step' = "over" /\ answers' # <<>>
<1>1. answers' = << status >> /\ step' = "over"
  BY DEF Respond
<1> QED BY <1>1

\* A request that goes on has had no answer.
LEMMA GoesOn ==
  ASSUME answers' = <<>>, called' = <<>>
  PROVE  AnswersTellTheOutcome'
BY DEF AnswersTellTheOutcome

\* One that is refused has called nothing, and is over.
LEMMA IsRefused ==
  ASSUME Reached, step # "over", NEW status, Respond(status),
         UNCHANGED <<called, req>>, counted' \in Seq({"api", "auth"}),
         \/ status \in {400, 401, 404}
         \/ status = 429 /\ counted' # <<>>
         \/ status = 500 /\ (req.input = "unread" \/ Malformed)
         \/ /\ status = 500 /\ RouteOK(route) /\ route' = route
            /\ route.auth = "user" /\ user' = FALSE
  PROVE  GatewayInv'
<1>1. answers = <<>> /\ called = <<>>
  BY DEF Reached
<1>2. /\ Len(answers') = 1 /\ answers'[1] = status /\ step' = "over"
      /\ called' = <<>> /\ Len(called') = 0 /\ req' = req
  BY <1>1, OneAnswer
<1>3. Reached'
  BY <1>2 DEF Reached
<1>4. CASE \/ status \in {400, 401, 404}
           \/ status = 429 /\ counted' # <<>>
           \/ status = 500 /\ req.input = "unread"
  <2>1. AnswersTellTheOutcome'
    BY <1>2, <1>4 DEF AnswersTellTheOutcome
  <2> QED BY <1>3, <2>1 DEF GatewayInv
<1>5. CASE status = 500 /\ Malformed
  <2>1. Malformed'
    BY <1>2, <1>5 DEF Malformed
  <2>2. AnswersTellTheOutcome'
    BY <1>2, <1>5, <2>1 DEF AnswersTellTheOutcome
  <2> QED BY <1>3, <2>2 DEF GatewayInv
<1>6. CASE /\ status = 500 /\ RouteOK(route) /\ route' = route
           /\ route.auth = "user" /\ user' = FALSE
  <2>1. AuthenticationFailed'
    <3>1. answers' = << 500 >>
      BY <1>1, <1>6, OneAnswer
    <3> QED BY <1>6, <3>1 DEF AuthenticationFailed, RouteOK, NoRoute
  <2>2. AnswersTellTheOutcome'
    BY <1>2, <1>6, <2>1 DEF AnswersTellTheOutcome
  <2> QED BY <1>3, <2>2 DEF GatewayInv
<1> QED BY <1>4, <1>5, <1>6

LEMMA GatewaySteps ==
  ASSUME GatewayInv, GatewayNext
  PROVE  GatewayInv'
<1>1. /\ counted \in Seq({"api", "auth"})
      /\ step # "over" => answers = <<>> /\ called = <<>>
      /\ Len(Mounts) = 10
  BY MountsAreOK DEF GatewayInv, Reached
<1>2. ASSUME step # "over", answers' = <<>>, called' = <<>>, Reached'
      PROVE  GatewayInv'
  BY <1>2, GoesOn DEF GatewayInv
<1>3. CASE Arrive
  <2>1. step = "free" /\ step' = "parse" /\ UNCHANGED <<counted, called, answers>>
    BY <1>3 DEF Arrive
  <2>2. Reached'
    BY <1>1, <2>1 DEF Reached
  <2> QED BY <1>1, <1>2, <2>1, <2>2
<1>4. CASE Parse
  <2>1. step = "parse" /\ UNCHANGED <<req, mount, route, user, counted, called, checks>>
    BY <1>4 DEF Parse
  <2>2. CASE req.input = "unread" /\ Respond(ErrorStatus("HttpError"))
    <3>1. ErrorStatus("HttpError") = 500
      BY DEF ErrorStatus
    <3>2. Respond(500) /\ Reached /\ counted' \in Seq({"api", "auth"})
      BY <1>1, <2>1, <2>2, <3>1 DEF GatewayInv
    <3> QED BY ONLY <2>1, <2>2, <3>2, IsRefused
  <2>3. CASE step' = "health" /\ UNCHANGED answers
    <3>1. Reached'
      BY <1>1, <2>1, <2>3 DEF Reached
    <3> QED BY <1>1, <1>2, <2>1, <2>3, <3>1
  <2> QED BY <1>4, <2>2, <2>3 DEF Parse
<1>5. CASE Health
  <2>1. step = "health" /\ UNCHANGED <<req, route, user, counted, called>>
    BY <1>5 DEF Health
  <2>2. CASE step' = "mount" /\ mount' = 1 /\ UNCHANGED answers
    <3>1. Reached'
      BY <1>1, <2>1, <2>2 DEF Reached
    <3> QED BY <1>1, <1>2, <2>1, <2>2, <3>1
  <2>3. CASE req.path = <<"health">> /\ step' = "checks" /\ UNCHANGED answers
    <3>1. Reached'
      BY <1>1, <2>1, <2>3 DEF Reached
    <3> QED BY <1>1, <1>2, <2>1, <2>3, <3>1
  <2>4. CASE req.path = <<"metrics">> /\ Respond(200)
    <3>1. /\ Len(answers') = 1 /\ answers'[1] = 200 /\ step' = "over"
          /\ called' = <<>> /\ Len(called') = 0 /\ req' = req
      BY <1>1, <2>1, <2>4, OneAnswer
    <3>2. <<"metrics">>[1] # <<"health">>[1]
      OBVIOUS
    <3>3. req'.path = <<"metrics">> /\ req'.path # <<"health">>
      BY <2>4, <3>1, <3>2
    <3>4. Reached'
      BY <1>1, <2>1, <3>1 DEF Reached
    <3>5. AnswersTellTheOutcome'
      BY <3>1, <3>3 DEF AnswersTellTheOutcome
    <3> QED BY <3>4, <3>5 DEF GatewayInv
  <2> QED BY <1>5, <2>2, <2>3, <2>4 DEF Health
<1>6. CASE \E c \in Checks : CheckSettles(c)
  <2>1. step = "checks"
        /\ UNCHANGED <<req, step, mount, route, user, counted, called, answers>>
    BY <1>6 DEF CheckSettles
  <2>2. Reached'
    BY <1>1, <2>1 DEF GatewayInv, Reached
  <2> QED BY <1>1, <1>2, <2>1, <2>2
<1>7. CASE HealthEnds
  <2> DEFINE status == IF Overall = "ok" THEN 200 ELSE 503
  <2>1. /\ step = "checks" /\ Respond(status)
        /\ UNCHANGED <<req, mount, route, user, counted, called, checks>>
    BY <1>7 DEF HealthEnds
  <2>2. /\ status \in {200, 503}
        /\ status = 200 => \A c \in Checks : checks[c] = "ok"
    BY DEF Overall, Checks
  <2> HIDE DEF status
  <2>3. /\ Len(answers') = 1 /\ answers'[1] = status /\ step' = "over"
        /\ called' = <<>> /\ Len(called') = 0 /\ req' = req
    BY <1>1, <2>1, OneAnswer
  <2>4. req'.path = <<"health">>
    BY <2>1, <2>3 DEF GatewayInv, Reached
  <2>5. Reached'
    BY <1>1, <2>1, <2>3 DEF Reached
  <2>6. AnswersTellTheOutcome'
    BY <2>1, <2>2, <2>3, <2>4 DEF AnswersTellTheOutcome
  <2> QED BY <2>5, <2>6 DEF GatewayInv
<1>8. CASE EnterMount
  <2> DEFINE m == Mounts[mount]
  <2>1. /\ step = "mount" /\ mount \in 1 .. 10 /\ mount <= Len(Mounts)
        /\ UNCHANGED <<req, route, user, called, checks>>
    BY <1>1, <1>8 DEF EnterMount, GatewayInv, Reached
  <2>2. CASE mount' = mount + 1 /\ UNCHANGED <<step, counted, answers>>
    <3>1. Reached'
      BY <1>1, <2>1, <2>2 DEF Reached
    <3> QED BY <1>1, <1>2, <2>1, <2>2, <3>1
  <2>3. CASE /\ Reaches(m, req.path) /\ UNCHANGED mount
             /\ counted' = IF m.limiter = "none" THEN counted
                           ELSE Append(counted, m.limiter)
             /\ \/ step' = "router" /\ UNCHANGED answers
                \/ m.limiter # "none" /\ Respond(429)
    <3>1. MountOK(m)
      BY <1>1, <2>1, MountsAreOK
    <3>2. req.path # <<"health">>
      BY <2>3, <3>1, HealthIsNotMounted
    <3>3. counted' \in Seq({"api", "auth"})
          /\ (m.limiter # "none" => counted' # <<>>)
      <4>1. CASE m.limiter = "none"
        BY <1>1, <2>3, <4>1
      <4>2. CASE m.limiter # "none"
        <5>1. m.limiter \in {"api", "auth"}
          BY <3>1, <4>2 DEF MountOK
        <5>2. counted' = Append(counted, m.limiter)
          BY <2>3, <4>2
        <5>3. counted' \in Seq({"api", "auth"}) /\ counted' # <<>>
          BY ONLY <1>1, <5>1, <5>2, AppendProperties
        <5> QED BY <4>2, <5>3
      <4> QED BY <4>1, <4>2
    <3>4. CASE step' = "router" /\ UNCHANGED answers
      <4>1. Reached'
        BY <1>1, <2>1, <2>3, <3>2, <3>3, <3>4 DEF Reached
      <4> QED BY <1>1, <1>2, <2>1, <3>4, <4>1
    <3>5. CASE m.limiter # "none" /\ Respond(429)
      BY <2>1, <3>3, <3>5, IsRefused DEF GatewayInv
    <3> QED BY <2>3, <3>4, <3>5
  <2> QED BY <1>8, <2>2, <2>3 DEF EnterMount
<1>9. CASE EnterRouter
  <2>1. /\ step = "router" /\ UNCHANGED <<req, user, counted, called, answers, checks>>
        /\ mount \in 1 .. 10 /\ req.path # <<"health">>
    BY <1>1, <1>9 DEF EnterRouter, GatewayInv, Reached
  <2>2. CASE mount' = mount + 1 /\ step' = "mount"
    <3>1. Reached'
      BY <1>1, <2>1, <2>2 DEF Reached
    <3> QED BY <1>1, <1>2, <2>1, <3>1
  <2>3. CASE /\ \E i \in 1 .. Len(Mounts[mount].router) : route' = Mounts[mount].router[i]
             /\ step' = "auth" /\ UNCHANGED mount
    <3>1. RouteOK(route')
      BY <1>1, <2>1, <2>3, MountsAreOK DEF MountOK
    <3>2. Reached'
      BY <1>1, <2>1, <2>3, <3>1 DEF Reached, RouteOK, TellsWho
    <3> QED BY <1>1, <1>2, <2>1, <3>2
  <2> QED BY <1>9, <2>2, <2>3 DEF EnterRouter, Takes
<1>10. CASE NotFoundHandler
  <2>1. /\ Respond(404) /\ Reached /\ counted' \in Seq({"api", "auth"})
        /\ step = "mount" /\ UNCHANGED <<called, req>>
    BY <1>1, <1>10 DEF NotFoundHandler, GatewayInv
  <2> QED BY ONLY <2>1, IsRefused
<1>11. CASE Authenticate \/ OptionalAuthenticate \/ ServiceAuth
  <2>1. /\ step = "auth" /\ UNCHANGED <<req, mount, route, counted, called, checks>>
        /\ mount \in 1 .. Len(Mounts) /\ req.path # <<"health">> /\ RouteOK(route)
    BY <1>11 DEF Authenticate, OptionalAuthenticate, ServiceAuth, GatewayInv, Reached
  <2>2. \/ Respond(401)
        \/ route.auth = "user" /\ user' = FALSE /\ Respond(500)
        \/ step' = "handler" /\ UNCHANGED answers
           /\ (user' \/ req.token = "service" \/ route.calls = "presence")
    <3>1. CASE Authenticate
      BY <3>1 DEF Authenticate
    <3>2. CASE OptionalAuthenticate
      BY <2>1, <3>2 DEF OptionalAuthenticate, RouteOK, TellsWho
    <3>3. CASE ServiceAuth
      BY <3>3 DEF ServiceAuth
    <3> QED BY <1>11, <3>1, <3>2, <3>3
  <2>3. CASE Respond(401)
    BY <1>1, <2>1, <2>3, IsRefused DEF GatewayInv
  <2>5. CASE route.auth = "user" /\ user' = FALSE /\ Respond(500)
    BY <1>1, <2>1, <2>5, IsRefused DEF GatewayInv
  <2>4. CASE step' = "handler" /\ UNCHANGED answers
             /\ (user' \/ req.token = "service" \/ route.calls = "presence")
    <3>1. RouteOK(route')
      BY <2>1
    <3>2. Reached'
      BY <1>1, <2>1, <2>4, <3>1 DEF Reached
    <3> QED BY <1>1, <1>2, <2>1, <2>4, <3>2
  <2> QED BY <2>2, <2>3, <2>4, <2>5
<1>12. CASE Handler
  <2>1. /\ step = "handler" /\ UNCHANGED <<req, mount, route, user, counted, checks>>
        /\ req.path # <<"health">> /\ RouteOK(route)
        /\ user \/ req.token = "service" \/ route.calls = "presence"
    BY <1>12 DEF Handler, GatewayInv, Reached
  <2>2. CASE Respond(ErrorStatus("ZodError")) /\ UNCHANGED called
    <3>1. ErrorStatus("ZodError") = 400
      BY DEF ErrorStatus
    <3> QED BY <1>1, <2>1, <2>2, <3>1, IsRefused DEF GatewayInv
  <2>3. CASE /\ called' = Append(called, route.calls)
             /\ \E error \in ServiceErrors \union {"none"} :
                  Respond(IF error = "none" THEN route.status ELSE ErrorStatus(error))
    <3>1. PICK status \in {200, 201, 400, 404, 409, 500} : Respond(status)
      BY <2>1, <2>3 DEF RouteOK, ErrorStatus
    <3>2. called' = << route.calls >> /\ Len(called') = 1 /\ called' # <<>>
      BY <1>1, <2>1, <2>3
    <3>3. Len(answers') = 1 /\ answers'[1] = status /\ step' = "over" /\ req' = req
      BY <1>1, <2>1, <3>1, OneAnswer
    <3>4. Reached'
      BY <1>1, <2>1, <3>2, <3>3 DEF Reached
    <3>5. /\ user' = user
          /\ user \/ req'.token = "service" \/ called' = <<"presence">>
      BY <2>1, <3>2, <3>3
    <3>6. AnswersTellTheOutcome'
      BY <2>1, <3>2, <3>3, <3>5 DEF AnswersTellTheOutcome
    <3> QED BY <3>4, <3>6 DEF GatewayInv
  <2> QED BY <1>12, <2>2, <2>3 DEF Handler
<1>13. CASE PathFails
  <2>1. /\ Malformed /\ Respond(ErrorStatus("URIError"))
        /\ UNCHANGED <<req, mount, route, user, counted, called, checks>>
        /\ step # "over"
    BY <1>13 DEF PathFails, DecodeThrows
  <2>2. ErrorStatus("URIError") = 500
    BY DEF ErrorStatus
  <2>3. Respond(500) /\ Reached /\ counted' \in Seq({"api", "auth"})
    BY <1>1, <2>1, <2>2 DEF GatewayInv
  <2> QED BY ONLY <2>1, <2>3, IsRefused
<1> QED BY <1>3, <1>4, <1>5, <1>6, <1>7, <1>8, <1>9, <1>10, <1>11, <1>12, <1>13
        DEF GatewayNext

\* What a request is told is what became of it, whichever mount, limiter,
\* middleware, schema and error it meets (CustomerManagement's index.ts,
\* middleware/auth.ts and error-handler.ts).
THEOREM AnswersAreRight == GatewaySpec => []AnswersTellTheOutcome
<1>1. GatewayInit => GatewayInv
  <2> SUFFICES ASSUME GatewayInit PROVE GatewayInv
    OBVIOUS
  <2>1. Reached
    BY DEF GatewayInit, Reached
  <2>2. AnswersTellTheOutcome
    BY DEF GatewayInit, AnswersTellTheOutcome
  <2> QED BY <2>1, <2>2 DEF GatewayInv
<1>2. GatewayInv /\ [GatewayNext]_gatewayVars => GatewayInv'
  <2>1. ASSUME GatewayInv, UNCHANGED gatewayVars
        PROVE  GatewayInv'
    BY <2>1 DEF gatewayVars, GatewayInv, Reached, AnswersTellTheOutcome,
                AuthenticationFailed, Malformed
  <2> QED BY <2>1, GatewaySteps
<1>3. GatewayInv => AnswersTellTheOutcome
  BY DEF GatewayInv
<1> QED BY <1>1, <1>2, <1>3, PTL DEF GatewaySpec

-----------------------------------------------------------------------------
(***************************************************************************)
(* The routes that serve the documented endpoints: the whole path of each, *)
(* that no two of them take one request, and that a request walks past no  *)
(* mount that would serve it.                                              *)
(***************************************************************************)

\* The path of a route is that of its mount followed by its own.
LEMMA Joined ==
  /\ \A a : <<a>> \o <<>> = <<a>>
  /\ \A a, b : <<a>> \o <<b>> = <<a, b>>
  /\ \A a, b, c, d : <<a>> \o <<b, c, d>> = <<a, b, c, d>>
  /\ \A a, b : <<a, b>> \o <<>> = <<a, b>>
  /\ \A a, b, c : <<a, b>> \o <<c>> = <<a, b, c>>
  /\ \A a, b, c, d : <<a, b>> \o <<c, d>> = <<a, b, c, d>>
  /\ \A a, b, c : <<a, b, c>> \o <<>> = <<a, b, c>>
  /\ \A a, b, c, d : <<a, b, c>> \o <<d>> = <<a, b, c, d>>
<1>1. ASSUME NEW a, NEW b
      PROVE  <<a>> \o <<b>> = <<a, b>>
  <2> DEFINE s == <<a>> \o <<b>>
  <2>1. s \in Seq({a, b}) /\ Len(s) = 2 /\ s[1] = a /\ s[2] = b
    OBVIOUS
  <2> HIDE DEF s
  <2>2. s = <<a, b>>
    BY <2>1
  <2> QED BY <2>2 DEF s
<1>2. ASSUME NEW a, NEW b, NEW c, NEW d
      PROVE  <<a>> \o <<b, c, d>> = <<a, b, c, d>>
  <2> DEFINE s == <<a>> \o <<b, c, d>>
  <2>1. s \in Seq({a, b, c, d}) /\ Len(s) = 4
    OBVIOUS
  <2>2. s[1] = a /\ s[2] = b /\ s[3] = c /\ s[4] = d
    OBVIOUS
  <2> HIDE DEF s
  <2>3. s = <<a, b, c, d>>
    BY <2>1, <2>2
  <2> QED BY <2>3 DEF s
<1>3. ASSUME NEW a, NEW b, NEW c
      PROVE  <<a, b>> \o <<c>> = <<a, b, c>>
  <2> DEFINE s == <<a, b>> \o <<c>>
  <2>1. s \in Seq({a, b, c}) /\ Len(s) = 3
    OBVIOUS
  <2>2. s[1] = a /\ s[2] = b /\ s[3] = c
    OBVIOUS
  <2> HIDE DEF s
  <2>3. s = <<a, b, c>>
    BY <2>1, <2>2
  <2> QED BY <2>3 DEF s
<1>4. ASSUME NEW a, NEW b, NEW c, NEW d
      PROVE  <<a, b>> \o <<c, d>> = <<a, b, c, d>>
  <2> DEFINE s == <<a, b>> \o <<c, d>>
  <2>1. s \in Seq({a, b, c, d}) /\ Len(s) = 4
    OBVIOUS
  <2>2. s[1] = a /\ s[2] = b /\ s[3] = c /\ s[4] = d
    OBVIOUS
  <2> HIDE DEF s
  <2>3. s = <<a, b, c, d>>
    BY <2>1, <2>2
  <2> QED BY <2>3 DEF s
<1>5. ASSUME NEW a, NEW b, NEW c, NEW d
      PROVE  <<a, b, c>> \o <<d>> = <<a, b, c, d>>
  <2> DEFINE s == <<a, b, c>> \o <<d>>
  <2>1. s \in Seq({a, b, c, d}) /\ Len(s) = 4
    OBVIOUS
  <2>2. s[1] = a /\ s[2] = b /\ s[3] = c /\ s[4] = d
    OBVIOUS
  <2> HIDE DEF s
  <2>3. s = <<a, b, c, d>>
    BY <2>1, <2>2
  <2> QED BY <2>3 DEF s
<1>6. /\ \A a : <<a>> \o <<>> = <<a>>
      /\ \A a, b : <<a, b>> \o <<>> = <<a, b>>
      /\ \A a, b, c : <<a, b, c>> \o <<>> = <<a, b, c>>
  OBVIOUS
<1> QED BY ONLY <1>1, <1>2, <1>3, <1>4, <1>5, <1>6

LEMMA OfJoined ==
  /\ Of(<<>>) = <<"customers", Id>>
  /\ \A a : Of(<<a>>) = <<"customers", Id, a>>
  /\ \A a, b : Of(<<a, b>>) = <<"customers", Id, a, b>>
BY ONLY Joined DEF Of

\* Patterns are sequences of these words, and paths of these and the ids.
Segments ==
  {Id} \union Literals
    \union {"customer", "health", "metrics", "auth", "sessions", "me", "heartbeat",
            "stats", "summary", "internal", "profile"}
Words == Segments \union Ids

LEMMA TuplesAreSequences ==
  ASSUME NEW S, NEW a \in S, NEW b \in S, NEW c \in S, NEW d \in S
  PROVE  /\ <<a>> \in Seq(S) /\ <<a, b>> \in Seq(S) /\ <<a, b, c>> \in Seq(S)
         /\ <<a, b, c, d>> \in Seq(S)
OBVIOUS

LEMMA PathsAreSequences == \A p \in Paths : p \in Seq(Words)
<1>1. \A a, b, c, d \in Words :
        /\ <<a>> \in Seq(Words) /\ <<a, b>> \in Seq(Words)
        /\ <<a, b, c>> \in Seq(Words) /\ <<a, b, c, d>> \in Seq(Words)
  BY TuplesAreSequences
<1>2. /\ Ids \subseteq Words /\ Literals \subseteq Words
      /\ {"customer", "health", "metrics", "auth", "sessions", "me", "heartbeat",
          "stats", "summary", "internal", "profile"} \subseteq Words
      /\ {"customers", "tags", "presence"} \subseteq Words
  BY DEF Words, Segments, Literals
<1>3. Literals \ {"customers"} \subseteq Words
  BY <1>2
<1> HIDE DEF Words
<1> SUFFICES ASSUME NEW p \in Paths
             PROVE  p \in Seq(Words)
  OBVIOUS
<1>4. CASE p \in {<<c>> : c \in {"customers", "tags", "health", "metrics", "customer"}}
  BY <1>1, <1>2, <1>4
<1>5. CASE p \in {<<"customers", i>> : i \in Ids}
  BY <1>1, <1>2, <1>5
<1>6. CASE p \in {<<"customers", i, l>> : i \in Ids, l \in Literals \ {"customers"}}
  <2>1. PICK i \in Ids, l \in Literals : p = <<"customers", i, l>>
    BY <1>6
  <2>2. "customers" \in Words /\ i \in Words /\ l \in Words
    BY <1>2
  <2> QED BY <2>1, <2>2, TuplesAreSequences
<1>7. CASE p \in {<<"customers", i, l, j>> : i \in Ids, l \in Literals \ {"customers"},
                                           j \in Ids \union {"summary"}}
  <2>1. PICK i \in Ids, l \in Literals, j \in Ids \union {"summary"} :
          p = <<"customers", i, l, j>>
    BY <1>7
  <2>2. "customers" \in Words /\ i \in Words /\ l \in Words /\ j \in Words
    BY <1>2
  <2> QED BY <2>1, <2>2, TuplesAreSequences
<1>8. CASE p = <<"auth", "sessions">>
  BY <1>1, <1>2, <1>8
<1>9. CASE p \in {<<"auth", "sessions", l>> : l \in Ids \union {"me", "heartbeat", "stats"}}
  <2>1. PICK l \in Ids \union {"me", "heartbeat", "stats"} : p = <<"auth", "sessions", l>>
    BY <1>9
  <2>2. "auth" \in Words /\ "sessions" \in Words /\ l \in Words
    BY <1>2
  <2> QED BY <2>1, <2>2, TuplesAreSequences
<1>10. CASE p \in {<<"auth", "sessions", "presence", i>> : i \in Ids}
  <2>1. PICK i \in Ids : p = <<"auth", "sessions", "presence", i>>
    BY <1>10
  <2>2. {"auth", "sessions", "presence", i} \subseteq Words
    BY <1>2
  <2> QED BY <2>1, <2>2, TuplesAreSequences
<1>11. CASE p \in {<<"internal", "customers", i, "profile">> : i \in Ids}
  <2>1. PICK i \in Ids : p = <<"internal", "customers", i, "profile">>
    BY <1>11
  <2>2. {"internal", "customers", i, "profile"} \subseteq Words
    BY <1>2
  <2> QED BY <2>1, <2>2, TuplesAreSequences
<1> QED BY <1>4, <1>5, <1>6, <1>7, <1>8, <1>9, <1>10, <1>11 DEF Paths

\* A route takes a request if the path of the mount and its own fit the path.
LEMMA TakenPath ==
  ASSUME NEW m, NEW r, NEW j \in 1 .. Len(m.router),
         m.prefix \in Seq(Segments), m.router[j].path \in Seq(Segments), r.path \in Seq(Words)
  PROVE  (Reaches(m, r.path) /\ j \in Takes(m, r)) <=>
           /\ m.router[j].method = r.method
           /\ Fits(m.prefix \o m.router[j].path, r.path)
<1> DEFINE p == m.prefix
           q == m.router[j].path
           path == r.path
           k == Len(p)
           n == Len(path)
           head == SubSeq(path, 1, k)
           rest == SubSeq(path, k + 1, n)
<1>1. k \in Nat /\ n \in Nat /\ Len(q) \in Nat
  BY LenProperties
<1>2. /\ p \o q \in Seq(Segments) /\ Len(p \o q) = k + Len(q)
      /\ \A i \in 1 .. k : (p \o q)[i] = p[i]
      /\ \A i \in 1 .. Len(q) : (p \o q)[k + i] = q[i]
  <2>1. /\ p \o q \in Seq(Segments) /\ Len(p \o q) = k + Len(q)
        /\ \A i \in 1 .. k + Len(q) : (p \o q)[i] = IF i <= k THEN p[i] ELSE q[i - k]
    BY ConcatProperties
  <2> HIDE DEF p, q, k
  <2>2. \A i \in 1 .. Len(q) : k + i \in 1 .. k + Len(q) /\ ~(k + i <= k) /\ (k + i) - k = i
    BY <1>1
  <2>3. \A i \in 1 .. k : i \in 1 .. k + Len(q) /\ i <= k
    BY <1>1
  <2> QED BY ONLY <2>1, <2>2, <2>3
<1>3. CASE k <= n
  <2>1. /\ Len(head) = k /\ \A i \in 1 .. k : head[i] = path[i]
        /\ Len(rest) = n - k /\ \A i \in 1 .. (n - k) : rest[i] = path[k + i]
    <3>1. \A i \in 1 .. n : path[i] \in Words
      BY ElementOfSeq
    <3> HIDE DEF p, q, path, k, n
    <3>2. \A i \in 1 .. k : path[i] \in Words
      BY <1>1, <1>3, <3>1
    <3>3. \A i \in k + 1 .. n : path[i] \in Words
      BY <1>1, <1>3, <3>1
    <3>4. Len(head) = k /\ \A i \in 1 .. k : head[i] = path[i]
      <4>1. /\ Len(head) = IF 1 <= k THEN k - 1 + 1 ELSE 0
            /\ \A i \in 1 .. k - 1 + 1 : head[i] = path[1 + i - 1]
        BY <1>1, <3>2, SubSeqProperties
      <4> QED BY <1>1, <4>1
    <3>5. Len(rest) = n - k /\ \A i \in 1 .. (n - k) : rest[i] = path[k + i]
      <4>1. /\ Len(rest) = IF k + 1 <= n THEN n - (k + 1) + 1 ELSE 0
            /\ \A i \in 1 .. n - (k + 1) + 1 : rest[i] = path[(k + 1) + i - 1]
        BY <1>1, <3>3, SubSeqProperties
      <4> QED BY <1>1, <1>3, <4>1
    <3> QED BY <3>4, <3>5
  <2> HIDE DEF p, q, path, k, n, head, rest
  <2>2. Fits(p, head) <=> \A i \in 1 .. k : p[i] \in {Id, path[i]}
    BY <1>1, <2>1 DEF Fits, k
  <2>3. Fits(q, rest) <=> n = k + Len(q) /\ \A i \in 1 .. Len(q) : q[i] \in {Id, path[k + i]}
    <3>1. n - k \in Nat /\ (n - k = Len(q) <=> n = k + Len(q))
      <4>1. \A x, y, z \in Nat : x <= y => y - x \in Nat /\ (y - x = z <=> y = x + z)
        OBVIOUS
      <4> QED BY ONLY <1>1, <1>3, <4>1
    <3>2. Len(rest) = n - k /\ \A i \in 1 .. n - k : rest[i] = path[k + i]
      BY ONLY <2>1
    <3>3. Fits(q, rest) <=>
            n - k = Len(q) /\ \A i \in 1 .. n - k : q[i] \in {Id, path[k + i]}
      BY ONLY <3>2 DEF Fits
    <3> QED BY ONLY <3>1, <3>3
  <2>4. Fits(p \o q, path) <=>
          /\ n = k + Len(q)
          /\ \A i \in 1 .. n : (p \o q)[i] \in {Id, path[i]}
    BY <1>2 DEF Fits, n
  <2>5. ASSUME n = k + Len(q)
        PROVE  (\A i \in 1 .. n : (p \o q)[i] \in {Id, path[i]}) <=>
                 /\ \A i \in 1 .. k : p[i] \in {Id, path[i]}
                 /\ \A i \in 1 .. Len(q) : q[i] \in {Id, path[k + i]}
    <3>1. \A i \in 1 .. n : i \in 1 .. k \/ \E l \in 1 .. Len(q) : i = k + l
      <4> TAKE i \in 1 .. n
      <4>1. i > k => i - k \in 1 .. Len(q) /\ i = k + (i - k)
        BY <1>1, <2>5
      <4> QED BY <1>1, <4>1
    <3>2. \A i \in 1 .. k : i \in 1 .. n
      BY <1>1, <2>5
    <3>3. \A l \in 1 .. Len(q) : k + l \in 1 .. n
      BY <1>1, <2>5
    <3> QED BY <1>2, <3>1, <3>2, <3>3
  <2>6. Fits(p \o q, path) <=> Fits(p, head) /\ Fits(q, rest)
    BY <2>2, <2>3, <2>4, <2>5
  <2>7. Reaches(m, path) <=> Fits(p, head)
    BY <1>3 DEF Reaches, p, head, k, n
  <2>8. j \in Takes(m, r) <=> m.router[j].method = r.method /\ Fits(q, rest)
    BY DEF Takes, q, rest, k, n, p, path
  <2> QED BY <2>6, <2>7, <2>8 DEF p, q, path
<1>4. CASE k > n
  <2>1. ~Reaches(m, path)
    BY <1>1, <1>4 DEF Reaches
  <2>2. ~Fits(p \o q, path)
    <3> HIDE DEF p, q, k, n, path
    <3>1. Fits(p \o q, path) => n = k + Len(q)
      BY <1>2 DEF Fits, n
    <3> QED BY <1>1, <1>4, <3>1
  <2> QED BY <2>1, <2>2
<1> QED BY <1>1, <1>3, <1>4

\* What the route at a place of a mount serves, in the form of Endpoints.
Entry(i, j) ==
  LET m == Mounts[i] IN <<m.router[j].method, m.prefix \o m.router[j].path, m.router[j].calls>>

\* Who a route lets in; a router that does not merge has no ids before it.
LetsIn(t) ==
  /\ t.auth = (IF t.calls = "profile" THEN "service"
               ELSE IF t.calls = "presence" THEN "optional" ELSE "user")
  /\ t.path \in Seq(Segments)
KeepsItsIds(m) ==
  /\ m.prefix \in Seq(Segments)
  /\ ~m.merges => \A k \in 1 .. Len(m.prefix) : m.prefix[k] # Id

\* The routes of each mount, with their whole paths.
LEMMA CustomersServe ==
  /\ Len(Mounts[1].router) = 5 /\ KeepsItsIds(Mounts[1])
  /\ \A j \in 1 .. 5 : LetsIn(Mounts[1].router[j])
  /\ Entry(1, 1) = <<"POST", <<"customers">>, "create_customer">>
  /\ Entry(1, 2) = <<"GET", <<"customers">>, "list_customers">>
  /\ Entry(1, 3) = <<"GET", <<"customers", Id>>, "find_customer">>
  /\ Entry(1, 4) = <<"PATCH", <<"customers", Id>>, "update_customer">>
  /\ Entry(1, 5) = <<"DELETE", <<"customers", Id>>, "delete_customer">>
<1> DEFINE m == Mounts[1]
<1>1. m.prefix = <<"customers">> /\ m.router = CustomersRouter /\ m.merges = FALSE
  BY DEF Mounts, Mount
<1> HIDE DEF m
<1>2. /\ <<"customers">> \in Seq(Segments)
      /\ <<>> \in Seq(Segments)
      /\ <<Id>> \in Seq(Segments)
  BY TuplesAreSequences DEF Segments, Literals, Ids
<1>3. Len(CustomersRouter) = 5
  BY DEF CustomersRouter
<1>4. /\ CustomersRouter[1].method = "POST" /\ CustomersRouter[1].path = <<>>
      /\ CustomersRouter[1].auth = "user" /\ CustomersRouter[1].calls = "create_customer"
      /\ LetsIn(CustomersRouter[1])
  BY <1>2 DEF CustomersRouter, Route, LetsIn
<1>5. /\ CustomersRouter[2].method = "GET" /\ CustomersRouter[2].path = <<>>
      /\ CustomersRouter[2].auth = "user" /\ CustomersRouter[2].calls = "list_customers"
      /\ LetsIn(CustomersRouter[2])
  BY <1>2 DEF CustomersRouter, Route, LetsIn
<1>6. /\ CustomersRouter[3].method = "GET" /\ CustomersRouter[3].path = <<Id>>
      /\ CustomersRouter[3].auth = "user" /\ CustomersRouter[3].calls = "find_customer"
      /\ LetsIn(CustomersRouter[3])
  BY <1>2 DEF CustomersRouter, Route, LetsIn
<1>7. /\ CustomersRouter[4].method = "PATCH" /\ CustomersRouter[4].path = <<Id>>
      /\ CustomersRouter[4].auth = "user" /\ CustomersRouter[4].calls = "update_customer"
      /\ LetsIn(CustomersRouter[4])
  BY <1>2 DEF CustomersRouter, Route, LetsIn
<1>8. /\ CustomersRouter[5].method = "DELETE" /\ CustomersRouter[5].path = <<Id>>
      /\ CustomersRouter[5].auth = "user" /\ CustomersRouter[5].calls = "delete_customer"
      /\ LetsIn(CustomersRouter[5])
  BY <1>2 DEF CustomersRouter, Route, LetsIn
<1>9. /\ <<"customers">> \o <<>> = <<"customers">>
      /\ <<"customers">> \o <<Id>> = <<"customers", Id>>
  BY ONLY Joined
<1>10. KeepsItsIds(m)
  BY <1>1, <1>2 DEF KeepsItsIds, Id
<1>11. \A j \in 1 .. 5 : LetsIn(CustomersRouter[j])
  BY <1>4, <1>5, <1>6, <1>7, <1>8
<1>12. /\ Entry(1, 1) = <<"POST", <<"customers">>, "create_customer">>
      /\ Entry(1, 2) = <<"GET", <<"customers">>, "list_customers">>
      /\ Entry(1, 3) = <<"GET", <<"customers", Id>>, "find_customer">>
      /\ Entry(1, 4) = <<"PATCH", <<"customers", Id>>, "update_customer">>
      /\ Entry(1, 5) = <<"DELETE", <<"customers", Id>>, "delete_customer">>
  BY ONLY <1>1, <1>4, <1>5, <1>6, <1>7, <1>8, <1>9 DEF Entry, m
<1> QED BY <1>1, <1>3, <1>10, <1>11, <1>12 DEF m

LEMMA ContactsServe ==
  /\ Len(Mounts[2].router) = 4 /\ KeepsItsIds(Mounts[2])
  /\ \A j \in 1 .. 4 : LetsIn(Mounts[2].router[j])
  /\ Entry(2, 1) = <<"POST", <<"customers", Id, "contacts">>, "add_contact">>
  /\ Entry(2, 2) = <<"GET", <<"customers", Id, "contacts">>, "list_contacts">>
  /\ Entry(2, 3) = <<"PATCH", <<"customers", Id, "contacts", Id>>, "update_contact">>
  /\ Entry(2, 4) = <<"DELETE", <<"customers", Id, "contacts", Id>>, "remove_contact">>
<1> DEFINE m == Mounts[2]
<1>1. m.prefix = <<"customers", Id, "contacts">> /\ m.router = ContactsRouter /\ m.merges = TRUE
  BY DEF Mounts, Mount
<1> HIDE DEF m
<1>2. /\ <<"customers", Id, "contacts">> \in Seq(Segments)
      /\ <<>> \in Seq(Segments)
      /\ <<Id>> \in Seq(Segments)
  BY TuplesAreSequences DEF Segments, Literals, Ids
<1>3. Len(ContactsRouter) = 4
  BY DEF ContactsRouter
<1>4. /\ ContactsRouter[1].method = "POST" /\ ContactsRouter[1].path = <<>>
      /\ ContactsRouter[1].auth = "user" /\ ContactsRouter[1].calls = "add_contact"
      /\ LetsIn(ContactsRouter[1])
  BY <1>2 DEF ContactsRouter, Route, LetsIn
<1>5. /\ ContactsRouter[2].method = "GET" /\ ContactsRouter[2].path = <<>>
      /\ ContactsRouter[2].auth = "user" /\ ContactsRouter[2].calls = "list_contacts"
      /\ LetsIn(ContactsRouter[2])
  BY <1>2 DEF ContactsRouter, Route, LetsIn
<1>6. /\ ContactsRouter[3].method = "PATCH" /\ ContactsRouter[3].path = <<Id>>
      /\ ContactsRouter[3].auth = "user" /\ ContactsRouter[3].calls = "update_contact"
      /\ LetsIn(ContactsRouter[3])
  BY <1>2 DEF ContactsRouter, Route, LetsIn
<1>7. /\ ContactsRouter[4].method = "DELETE" /\ ContactsRouter[4].path = <<Id>>
      /\ ContactsRouter[4].auth = "user" /\ ContactsRouter[4].calls = "remove_contact"
      /\ LetsIn(ContactsRouter[4])
  BY <1>2 DEF ContactsRouter, Route, LetsIn
<1>8. /\ <<"customers", Id, "contacts">> \o <<>> = <<"customers", Id, "contacts">>
      /\ <<"customers", Id, "contacts">> \o <<Id>> = <<"customers", Id, "contacts", Id>>
  BY ONLY Joined
<1>9. KeepsItsIds(m)
  BY <1>1, <1>2 DEF KeepsItsIds, Id
<1>10. \A j \in 1 .. 4 : LetsIn(ContactsRouter[j])
  BY <1>4, <1>5, <1>6, <1>7
<1>11. /\ Entry(2, 1) = <<"POST", <<"customers", Id, "contacts">>, "add_contact">>
      /\ Entry(2, 2) = <<"GET", <<"customers", Id, "contacts">>, "list_contacts">>
      /\ Entry(2, 3) = <<"PATCH", <<"customers", Id, "contacts", Id>>, "update_contact">>
      /\ Entry(2, 4) = <<"DELETE", <<"customers", Id, "contacts", Id>>, "remove_contact">>
  BY ONLY <1>1, <1>4, <1>5, <1>6, <1>7, <1>8 DEF Entry, m
<1> QED BY <1>1, <1>3, <1>9, <1>10, <1>11 DEF m

LEMMA BirthChartsServe ==
  /\ Len(Mounts[3].router) = 3 /\ KeepsItsIds(Mounts[3])
  /\ \A j \in 1 .. 3 : LetsIn(Mounts[3].router[j])
  /\ Entry(3, 1) = <<"POST", <<"customers", Id, "birth-charts">>, "create_chart">>
  /\ Entry(3, 2) = <<"GET", <<"customers", Id, "birth-charts">>, "list_charts">>
  /\ Entry(3, 3) = <<"GET", <<"customers", Id, "birth-charts", Id>>, "find_chart">>
<1> DEFINE m == Mounts[3]
<1>1. /\ m.prefix = <<"customers", Id, "birth-charts">>
      /\ m.router = BirthChartsRouter /\ m.merges = TRUE
  BY DEF Mounts, Mount
<1> HIDE DEF m
<1>2. /\ <<"customers", Id, "birth-charts">> \in Seq(Segments)
      /\ <<>> \in Seq(Segments)
      /\ <<Id>> \in Seq(Segments)
  BY TuplesAreSequences DEF Segments, Literals, Ids
<1>3. Len(BirthChartsRouter) = 3
  BY DEF BirthChartsRouter
<1>4. /\ BirthChartsRouter[1].method = "POST" /\ BirthChartsRouter[1].path = <<>>
      /\ BirthChartsRouter[1].auth = "user" /\ BirthChartsRouter[1].calls = "create_chart"
      /\ LetsIn(BirthChartsRouter[1])
  BY <1>2 DEF BirthChartsRouter, Route, LetsIn
<1>5. /\ BirthChartsRouter[2].method = "GET" /\ BirthChartsRouter[2].path = <<>>
      /\ BirthChartsRouter[2].auth = "user" /\ BirthChartsRouter[2].calls = "list_charts"
      /\ LetsIn(BirthChartsRouter[2])
  BY <1>2 DEF BirthChartsRouter, Route, LetsIn
<1>6. /\ BirthChartsRouter[3].method = "GET" /\ BirthChartsRouter[3].path = <<Id>>
      /\ BirthChartsRouter[3].auth = "user" /\ BirthChartsRouter[3].calls = "find_chart"
      /\ LetsIn(BirthChartsRouter[3])
  BY <1>2 DEF BirthChartsRouter, Route, LetsIn
<1>7. /\ <<"customers", Id, "birth-charts">> \o <<>> = <<"customers", Id, "birth-charts">>
      /\ <<"customers", Id, "birth-charts">> \o <<Id>> = <<"customers", Id, "birth-charts", Id>>
  BY ONLY Joined
<1>8. KeepsItsIds(m)
  BY <1>1, <1>2 DEF KeepsItsIds, Id
<1>9. \A j \in 1 .. 3 : LetsIn(BirthChartsRouter[j])
  BY <1>4, <1>5, <1>6
<1>10. /\ Entry(3, 1) = <<"POST", <<"customers", Id, "birth-charts">>, "create_chart">>
      /\ Entry(3, 2) = <<"GET", <<"customers", Id, "birth-charts">>, "list_charts">>
      /\ Entry(3, 3) = <<"GET", <<"customers", Id, "birth-charts", Id>>, "find_chart">>
  BY ONLY <1>1, <1>4, <1>5, <1>6, <1>7 DEF Entry, m
<1> QED BY <1>1, <1>3, <1>8, <1>9, <1>10 DEF m

LEMMA FinanceServe ==
  /\ Len(Mounts[4].router) = 3 /\ KeepsItsIds(Mounts[4])
  /\ \A j \in 1 .. 3 : LetsIn(Mounts[4].router[j])
  /\ Entry(4, 1) = <<"POST", <<"customers", Id, "finance-records">>, "create_record">>
  /\ Entry(4, 2) = <<"GET", <<"customers", Id, "finance-records">>, "list_records">>
  /\ Entry(4, 3) = <<"GET", <<"customers", Id, "finance-records", "summary">>, "summary">>
<1> DEFINE m == Mounts[4]
<1>1. /\ m.prefix = <<"customers", Id, "finance-records">>
      /\ m.router = FinanceRouter /\ m.merges = TRUE
  BY DEF Mounts, Mount
<1> HIDE DEF m
<1>2. /\ <<"customers", Id, "finance-records">> \in Seq(Segments)
      /\ <<"summary">> \in Seq(Segments)
      /\ <<>> \in Seq(Segments)
  BY TuplesAreSequences DEF Segments, Literals, Ids
<1>3. Len(FinanceRouter) = 3
  BY DEF FinanceRouter
<1>4. /\ FinanceRouter[1].method = "POST" /\ FinanceRouter[1].path = <<>>
      /\ FinanceRouter[1].auth = "user" /\ FinanceRouter[1].calls = "create_record"
      /\ LetsIn(FinanceRouter[1])
  BY <1>2 DEF FinanceRouter, Route, LetsIn
<1>5. /\ FinanceRouter[2].method = "GET" /\ FinanceRouter[2].path = <<>>
      /\ FinanceRouter[2].auth = "user" /\ FinanceRouter[2].calls = "list_records"
      /\ LetsIn(FinanceRouter[2])
  BY <1>2 DEF FinanceRouter, Route, LetsIn
<1>6. /\ FinanceRouter[3].method = "GET" /\ FinanceRouter[3].path = <<"summary">>
      /\ FinanceRouter[3].auth = "user" /\ FinanceRouter[3].calls = "summary"
      /\ LetsIn(FinanceRouter[3])
  BY <1>2 DEF FinanceRouter, Route, LetsIn
<1>7. /\ <<"customers", Id, "finance-records">> \o <<"summary">> =
           <<"customers", Id, "finance-records", "summary">>
      /\ <<"customers", Id, "finance-records">> \o <<>> = <<"customers", Id, "finance-records">>
  BY ONLY Joined
<1>8. KeepsItsIds(m)
  BY <1>1, <1>2 DEF KeepsItsIds, Id
<1>9. \A j \in 1 .. 3 : LetsIn(FinanceRouter[j])
  BY <1>4, <1>5, <1>6
<1>10. /\ Entry(4, 1) = <<"POST", <<"customers", Id, "finance-records">>, "create_record">>
      /\ Entry(4, 2) = <<"GET", <<"customers", Id, "finance-records">>, "list_records">>
      /\ Entry(4, 3) = <<"GET", <<"customers", Id, "finance-records", "summary">>, "summary">>
  BY ONLY <1>1, <1>4, <1>5, <1>6, <1>7 DEF Entry, m
<1> QED BY <1>1, <1>3, <1>8, <1>9, <1>10 DEF m

LEMMA ComplianceServe ==
  /\ Len(Mounts[5].router) = 4 /\ KeepsItsIds(Mounts[5])
  /\ \A j \in 1 .. 4 : LetsIn(Mounts[5].router[j])
  /\ Entry(5, 1) = <<"POST", <<"customers", Id, "consents">>, "record_consent">>
  /\ Entry(5, 2) = <<"GET", <<"customers", Id, "consents">>, "list_consents">>
  /\ Entry(5, 3) = <<"POST", <<"customers", Id, "notes">>, "add_note">>
  /\ Entry(5, 4) = <<"GET", <<"customers", Id, "notes">>, "list_notes">>
<1> DEFINE m == Mounts[5]
<1>1. m.prefix = <<"customers", Id>> /\ m.router = ComplianceRouter /\ m.merges = TRUE
  BY DEF Mounts, Mount
<1> HIDE DEF m
<1>2. /\ <<"customers", Id>> \in Seq(Segments)
      /\ <<"consents">> \in Seq(Segments)
      /\ <<"notes">> \in Seq(Segments)
  BY TuplesAreSequences DEF Segments, Literals, Ids
<1>3. Len(ComplianceRouter) = 4
  BY DEF ComplianceRouter
<1>4. /\ ComplianceRouter[1].method = "POST" /\ ComplianceRouter[1].path = <<"consents">>
      /\ ComplianceRouter[1].auth = "user" /\ ComplianceRouter[1].calls = "record_consent"
      /\ LetsIn(ComplianceRouter[1])
  BY <1>2 DEF ComplianceRouter, Route, LetsIn
<1>5. /\ ComplianceRouter[2].method = "GET" /\ ComplianceRouter[2].path = <<"consents">>
      /\ ComplianceRouter[2].auth = "user" /\ ComplianceRouter[2].calls = "list_consents"
      /\ LetsIn(ComplianceRouter[2])
  BY <1>2 DEF ComplianceRouter, Route, LetsIn
<1>6. /\ ComplianceRouter[3].method = "POST" /\ ComplianceRouter[3].path = <<"notes">>
      /\ ComplianceRouter[3].auth = "user" /\ ComplianceRouter[3].calls = "add_note"
      /\ LetsIn(ComplianceRouter[3])
  BY <1>2 DEF ComplianceRouter, Route, LetsIn
<1>7. /\ ComplianceRouter[4].method = "GET" /\ ComplianceRouter[4].path = <<"notes">>
      /\ ComplianceRouter[4].auth = "user" /\ ComplianceRouter[4].calls = "list_notes"
      /\ LetsIn(ComplianceRouter[4])
  BY <1>2 DEF ComplianceRouter, Route, LetsIn
<1>8. /\ <<"customers", Id>> \o <<"consents">> = <<"customers", Id, "consents">>
      /\ <<"customers", Id>> \o <<"notes">> = <<"customers", Id, "notes">>
  BY ONLY Joined
<1>9. KeepsItsIds(m)
  BY <1>1, <1>2 DEF KeepsItsIds, Id
<1>10. \A j \in 1 .. 4 : LetsIn(ComplianceRouter[j])
  BY <1>4, <1>5, <1>6, <1>7
<1>11. /\ Entry(5, 1) = <<"POST", <<"customers", Id, "consents">>, "record_consent">>
      /\ Entry(5, 2) = <<"GET", <<"customers", Id, "consents">>, "list_consents">>
      /\ Entry(5, 3) = <<"POST", <<"customers", Id, "notes">>, "add_note">>
      /\ Entry(5, 4) = <<"GET", <<"customers", Id, "notes">>, "list_notes">>
  BY ONLY <1>1, <1>4, <1>5, <1>6, <1>7, <1>8 DEF Entry, m
<1> QED BY <1>1, <1>3, <1>9, <1>10, <1>11 DEF m

LEMMA CustomerTagServe ==
  /\ Len(Mounts[6].router) = 3 /\ KeepsItsIds(Mounts[6])
  /\ \A j \in 1 .. 3 : LetsIn(Mounts[6].router[j])
  /\ Entry(6, 1) = <<"GET", <<"customers", Id, "tags">>, "customer_tags">>
  /\ Entry(6, 2) = <<"POST", <<"customers", Id, "tags">>, "assign_tag">>
  /\ Entry(6, 3) = <<"DELETE", <<"customers", Id, "tags", Id>>, "remove_tag">>
<1> DEFINE m == Mounts[6]
<1>1. m.prefix = <<"customers", Id, "tags">> /\ m.router = CustomerTagRouter /\ m.merges = TRUE
  BY DEF Mounts, Mount
<1> HIDE DEF m
<1>2. /\ <<"customers", Id, "tags">> \in Seq(Segments)
      /\ <<>> \in Seq(Segments)
      /\ <<Id>> \in Seq(Segments)
  BY TuplesAreSequences DEF Segments, Literals, Ids
<1>3. Len(CustomerTagRouter) = 3
  BY DEF CustomerTagRouter
<1>4. /\ CustomerTagRouter[1].method = "GET" /\ CustomerTagRouter[1].path = <<>>
      /\ CustomerTagRouter[1].auth = "user" /\ CustomerTagRouter[1].calls = "customer_tags"
      /\ LetsIn(CustomerTagRouter[1])
  BY <1>2 DEF CustomerTagRouter, Route, LetsIn
<1>5. /\ CustomerTagRouter[2].method = "POST" /\ CustomerTagRouter[2].path = <<>>
      /\ CustomerTagRouter[2].auth = "user" /\ CustomerTagRouter[2].calls = "assign_tag"
      /\ LetsIn(CustomerTagRouter[2])
  BY <1>2 DEF CustomerTagRouter, Route, LetsIn
<1>6. /\ CustomerTagRouter[3].method = "DELETE" /\ CustomerTagRouter[3].path = <<Id>>
      /\ CustomerTagRouter[3].auth = "user" /\ CustomerTagRouter[3].calls = "remove_tag"
      /\ LetsIn(CustomerTagRouter[3])
  BY <1>2 DEF CustomerTagRouter, Route, LetsIn
<1>7. /\ <<"customers", Id, "tags">> \o <<>> = <<"customers", Id, "tags">>
      /\ <<"customers", Id, "tags">> \o <<Id>> = <<"customers", Id, "tags", Id>>
  BY ONLY Joined
<1>8. KeepsItsIds(m)
  BY <1>1, <1>2 DEF KeepsItsIds, Id
<1>9. \A j \in 1 .. 3 : LetsIn(CustomerTagRouter[j])
  BY <1>4, <1>5, <1>6
<1>10. /\ Entry(6, 1) = <<"GET", <<"customers", Id, "tags">>, "customer_tags">>
      /\ Entry(6, 2) = <<"POST", <<"customers", Id, "tags">>, "assign_tag">>
      /\ Entry(6, 3) = <<"DELETE", <<"customers", Id, "tags", Id>>, "remove_tag">>
  BY ONLY <1>1, <1>4, <1>5, <1>6, <1>7 DEF Entry, m
<1> QED BY <1>1, <1>3, <1>8, <1>9, <1>10 DEF m

LEMMA AddressesServe ==
  /\ Len(Mounts[7].router) = 4 /\ KeepsItsIds(Mounts[7])
  /\ \A j \in 1 .. 4 : LetsIn(Mounts[7].router[j])
  /\ Entry(7, 1) = <<"POST", <<"customers", Id, "addresses">>, "create_address">>
  /\ Entry(7, 2) = <<"GET", <<"customers", Id, "addresses">>, "list_addresses">>
  /\ Entry(7, 3) = <<"PATCH", <<"customers", Id, "addresses", Id>>, "update_address">>
  /\ Entry(7, 4) = <<"DELETE", <<"customers", Id, "addresses", Id>>, "delete_address">>
<1> DEFINE m == Mounts[7]
<1>1. m.prefix = <<"customers", Id, "addresses">> /\ m.router = AddressesRouter /\ m.merges = TRUE
  BY DEF Mounts, Mount
<1> HIDE DEF m
<1>2. /\ <<"customers", Id, "addresses">> \in Seq(Segments)
      /\ <<>> \in Seq(Segments)
      /\ <<Id>> \in Seq(Segments)
  BY TuplesAreSequences DEF Segments, Literals, Ids
<1>3. Len(AddressesRouter) = 4
  BY DEF AddressesRouter
<1>4. /\ AddressesRouter[1].method = "POST" /\ AddressesRouter[1].path = <<>>
      /\ AddressesRouter[1].auth = "user" /\ AddressesRouter[1].calls = "create_address"
      /\ LetsIn(AddressesRouter[1])
  BY <1>2 DEF AddressesRouter, Route, LetsIn
<1>5. /\ AddressesRouter[2].method = "GET" /\ AddressesRouter[2].path = <<>>
      /\ AddressesRouter[2].auth = "user" /\ AddressesRouter[2].calls = "list_addresses"
      /\ LetsIn(AddressesRouter[2])
  BY <1>2 DEF AddressesRouter, Route, LetsIn
<1>6. /\ AddressesRouter[3].method = "PATCH" /\ AddressesRouter[3].path = <<Id>>
      /\ AddressesRouter[3].auth = "user" /\ AddressesRouter[3].calls = "update_address"
      /\ LetsIn(AddressesRouter[3])
  BY <1>2 DEF AddressesRouter, Route, LetsIn
<1>7. /\ AddressesRouter[4].method = "DELETE" /\ AddressesRouter[4].path = <<Id>>
      /\ AddressesRouter[4].auth = "user" /\ AddressesRouter[4].calls = "delete_address"
      /\ LetsIn(AddressesRouter[4])
  BY <1>2 DEF AddressesRouter, Route, LetsIn
<1>8. /\ <<"customers", Id, "addresses">> \o <<>> = <<"customers", Id, "addresses">>
      /\ <<"customers", Id, "addresses">> \o <<Id>> = <<"customers", Id, "addresses", Id>>
  BY ONLY Joined
<1>9. KeepsItsIds(m)
  BY <1>1, <1>2 DEF KeepsItsIds, Id
<1>10. \A j \in 1 .. 4 : LetsIn(AddressesRouter[j])
  BY <1>4, <1>5, <1>6, <1>7
<1>11. /\ Entry(7, 1) = <<"POST", <<"customers", Id, "addresses">>, "create_address">>
      /\ Entry(7, 2) = <<"GET", <<"customers", Id, "addresses">>, "list_addresses">>
      /\ Entry(7, 3) = <<"PATCH", <<"customers", Id, "addresses", Id>>, "update_address">>
      /\ Entry(7, 4) = <<"DELETE", <<"customers", Id, "addresses", Id>>, "delete_address">>
  BY ONLY <1>1, <1>4, <1>5, <1>6, <1>7, <1>8 DEF Entry, m
<1> QED BY <1>1, <1>3, <1>9, <1>10, <1>11 DEF m

LEMMA TagsServe ==
  /\ Len(Mounts[8].router) = 2 /\ KeepsItsIds(Mounts[8])
  /\ \A j \in 1 .. 2 : LetsIn(Mounts[8].router[j])
  /\ Entry(8, 1) = <<"POST", <<"tags">>, "create_tag">>
  /\ Entry(8, 2) = <<"GET", <<"tags">>, "list_tags">>
<1> DEFINE m == Mounts[8]
<1>1. m.prefix = <<"tags">> /\ m.router = TagsRouter /\ m.merges = FALSE
  BY DEF Mounts, Mount
<1> HIDE DEF m
<1>2. /\ <<"tags">> \in Seq(Segments)
      /\ <<>> \in Seq(Segments)
  BY TuplesAreSequences DEF Segments, Literals, Ids
<1>3. Len(TagsRouter) = 2
  BY DEF TagsRouter
<1>4. /\ TagsRouter[1].method = "POST" /\ TagsRouter[1].path = <<>>
      /\ TagsRouter[1].auth = "user" /\ TagsRouter[1].calls = "create_tag"
      /\ LetsIn(TagsRouter[1])
  BY <1>2 DEF TagsRouter, Route, LetsIn
<1>5. /\ TagsRouter[2].method = "GET" /\ TagsRouter[2].path = <<>>
      /\ TagsRouter[2].auth = "user" /\ TagsRouter[2].calls = "list_tags"
      /\ LetsIn(TagsRouter[2])
  BY <1>2 DEF TagsRouter, Route, LetsIn
<1>6. <<"tags">> \o <<>> = <<"tags">>
  BY ONLY Joined
<1>7. KeepsItsIds(m)
  BY <1>1, <1>2 DEF KeepsItsIds, Id
<1>8. \A j \in 1 .. 2 : LetsIn(TagsRouter[j])
  BY <1>4, <1>5
<1>9. /\ Entry(8, 1) = <<"POST", <<"tags">>, "create_tag">>
      /\ Entry(8, 2) = <<"GET", <<"tags">>, "list_tags">>
  BY ONLY <1>1, <1>4, <1>5, <1>6 DEF Entry, m
<1> QED BY <1>1, <1>3, <1>7, <1>8, <1>9 DEF m

LEMMA SessionsServe ==
  /\ Len(Mounts[9].router) = 6 /\ KeepsItsIds(Mounts[9])
  /\ \A j \in 1 .. 6 : LetsIn(Mounts[9].router[j])
  /\ Entry(9, 1) = <<"POST", <<"auth", "sessions">>, "login">>
  /\ Entry(9, 2) = <<"DELETE", <<"auth", "sessions", Id>>, "logout">>
  /\ Entry(9, 3) = <<"GET", <<"auth", "sessions", "me">>, "my_sessions">>
  /\ Entry(9, 4) = <<"POST", <<"auth", "sessions", "heartbeat">>, "heartbeat">>
  /\ Entry(9, 5) = <<"GET", <<"auth", "sessions", "presence", Id>>, "presence">>
  /\ Entry(9, 6) = <<"GET", <<"auth", "sessions", "stats">>, "stats">>
<1> DEFINE m == Mounts[9]
<1>1. m.prefix = <<"auth", "sessions">> /\ m.router = SessionsRouter /\ m.merges = FALSE
  BY DEF Mounts, Mount
<1> HIDE DEF m
<1>2. /\ <<"auth", "sessions">> \in Seq(Segments)
      /\ <<"heartbeat">> \in Seq(Segments)
      /\ <<"me">> \in Seq(Segments)
      /\ <<"presence", Id>> \in Seq(Segments)
      /\ <<"stats">> \in Seq(Segments)
      /\ <<>> \in Seq(Segments)
      /\ <<Id>> \in Seq(Segments)
  BY TuplesAreSequences DEF Segments, Literals, Ids
<1>3. Len(SessionsRouter) = 6
  BY DEF SessionsRouter
<1>4. /\ SessionsRouter[1].method = "POST" /\ SessionsRouter[1].path = <<>>
      /\ SessionsRouter[1].auth = "user" /\ SessionsRouter[1].calls = "login"
      /\ LetsIn(SessionsRouter[1])
  BY <1>2 DEF SessionsRouter, Route, LetsIn
<1>5. /\ SessionsRouter[2].method = "DELETE" /\ SessionsRouter[2].path = <<Id>>
      /\ SessionsRouter[2].auth = "user" /\ SessionsRouter[2].calls = "logout"
      /\ LetsIn(SessionsRouter[2])
  BY <1>2 DEF SessionsRouter, Route, LetsIn
<1>6. /\ SessionsRouter[3].method = "GET" /\ SessionsRouter[3].path = <<"me">>
      /\ SessionsRouter[3].auth = "user" /\ SessionsRouter[3].calls = "my_sessions"
      /\ LetsIn(SessionsRouter[3])
  BY <1>2 DEF SessionsRouter, Route, LetsIn
<1>7. /\ SessionsRouter[4].method = "POST" /\ SessionsRouter[4].path = <<"heartbeat">>
      /\ SessionsRouter[4].auth = "user" /\ SessionsRouter[4].calls = "heartbeat"
      /\ LetsIn(SessionsRouter[4])
  BY <1>2 DEF SessionsRouter, Route, LetsIn
<1>8. /\ SessionsRouter[5].method = "GET" /\ SessionsRouter[5].path = <<"presence", Id>>
      /\ SessionsRouter[5].auth = "optional" /\ SessionsRouter[5].calls = "presence"
      /\ LetsIn(SessionsRouter[5])
  BY <1>2 DEF SessionsRouter, Route, LetsIn
<1>9. /\ SessionsRouter[6].method = "GET" /\ SessionsRouter[6].path = <<"stats">>
      /\ SessionsRouter[6].auth = "user" /\ SessionsRouter[6].calls = "stats"
      /\ LetsIn(SessionsRouter[6])
  BY <1>2 DEF SessionsRouter, Route, LetsIn
<1>10. /\ <<"auth", "sessions">> \o <<"heartbeat">> = <<"auth", "sessions", "heartbeat">>
      /\ <<"auth", "sessions">> \o <<"me">> = <<"auth", "sessions", "me">>
      /\ <<"auth", "sessions">> \o <<"presence", Id>> = <<"auth", "sessions", "presence", Id>>
      /\ <<"auth", "sessions">> \o <<"stats">> = <<"auth", "sessions", "stats">>
      /\ <<"auth", "sessions">> \o <<>> = <<"auth", "sessions">>
      /\ <<"auth", "sessions">> \o <<Id>> = <<"auth", "sessions", Id>>
  BY ONLY Joined
<1>11. KeepsItsIds(m)
  BY <1>1, <1>2 DEF KeepsItsIds, Id
<1>12. \A j \in 1 .. 6 : LetsIn(SessionsRouter[j])
  BY <1>4, <1>5, <1>6, <1>7, <1>8, <1>9
<1>13. /\ Entry(9, 1) = <<"POST", <<"auth", "sessions">>, "login">>
      /\ Entry(9, 2) = <<"DELETE", <<"auth", "sessions", Id>>, "logout">>
      /\ Entry(9, 3) = <<"GET", <<"auth", "sessions", "me">>, "my_sessions">>
      /\ Entry(9, 4) = <<"POST", <<"auth", "sessions", "heartbeat">>, "heartbeat">>
      /\ Entry(9, 5) = <<"GET", <<"auth", "sessions", "presence", Id>>, "presence">>
      /\ Entry(9, 6) = <<"GET", <<"auth", "sessions", "stats">>, "stats">>
  BY ONLY <1>1, <1>4, <1>5, <1>6, <1>7, <1>8, <1>9, <1>10 DEF Entry, m
<1> QED BY <1>1, <1>3, <1>11, <1>12, <1>13 DEF m

LEMMA InternalServe ==
  /\ Len(Mounts[10].router) = 1 /\ KeepsItsIds(Mounts[10])
  /\ \A j \in 1 .. 1 : LetsIn(Mounts[10].router[j])
  /\ Entry(10, 1) = <<"GET", <<"internal", "customers", Id, "profile">>, "profile">>
<1> DEFINE m == Mounts[10]
<1>1. m.prefix = <<"internal">> /\ m.router = InternalRouter /\ m.merges = FALSE
  BY DEF Mounts, Mount
<1> HIDE DEF m
<1>2. /\ <<"internal">> \in Seq(Segments)
      /\ <<"customers", Id, "profile">> \in Seq(Segments)
  BY TuplesAreSequences DEF Segments, Literals, Ids
<1>3. Len(InternalRouter) = 1
  BY DEF InternalRouter
<1>4. /\ InternalRouter[1].method = "GET" /\ InternalRouter[1].path = <<"customers", Id, "profile">>
      /\ InternalRouter[1].auth = "service" /\ InternalRouter[1].calls = "profile"
      /\ LetsIn(InternalRouter[1])
  BY <1>2 DEF InternalRouter, Route, LetsIn
<1>5. <<"internal">> \o <<"customers", Id, "profile">> = <<"internal", "customers", Id, "profile">>
  BY ONLY Joined
<1>6. KeepsItsIds(m)
  BY <1>1, <1>2 DEF KeepsItsIds, Id
<1>7. \A j \in 1 .. 1 : LetsIn(InternalRouter[j])
  BY <1>4
<1>8. Entry(10, 1) = <<"GET", <<"internal", "customers", Id, "profile">>, "profile">>
  BY ONLY <1>1, <1>4, <1>5 DEF Entry, m
<1> QED BY <1>1, <1>3, <1>6, <1>7, <1>8 DEF m

\* The only mount that can serve a path.
MountOf(p) ==
  IF p[1] = "tags" THEN 8 ELSE IF p[1] = "auth" THEN 9 ELSE IF p[1] = "internal" THEN 10
  ELSE IF Len(p) <= 2 THEN 1 ELSE IF p[3] = "contacts" THEN 2
  ELSE IF p[3] = "birth-charts" THEN 3 ELSE IF p[3] = "finance-records" THEN 4
  ELSE IF p[3] = "tags" THEN 6 ELSE IF p[3] = "addresses" THEN 7 ELSE 5

\* No two routes take one request, be they of one mount or of two.
LEMMA OneRouteTakesIt ==
  ASSUME NEW p,
         NEW i \in 1 .. 10, NEW j \in 1 .. Len(Mounts[i].router), Fits(Entry(i, j)[2], p)
  PROVE  /\ MountOf(p) = i /\ p[1] \in {"customers", "tags", "auth", "internal"}
         /\ \A k \in 1 .. Len(Mounts[i].router) :
              Entry(i, k)[1] = Entry(i, j)[1] /\ Fits(Entry(i, k)[2], p) => k = j
<1>1. CASE i = 1
  <2>1. Fits(<<"customers">>, p) =>
          Len(p) = 1 /\ p[1] = "customers"
    BY DEF Fits, Id
  <2>2. Fits(<<"customers", Id>>, p) =>
          Len(p) = 2 /\ p[1] = "customers"
    BY DEF Fits, Id
  <2>3. /\ Len(Mounts[1].router) = 5
        /\ Entry(1, 1)[1] = "POST" /\ Entry(1, 1)[2] = <<"customers">>
        /\ Entry(1, 2)[1] = "GET" /\ Entry(1, 2)[2] = <<"customers">>
        /\ Entry(1, 3)[1] = "GET" /\ Entry(1, 3)[2] = <<"customers", Id>>
        /\ Entry(1, 4)[1] = "PATCH" /\ Entry(1, 4)[2] = <<"customers", Id>>
        /\ Entry(1, 5)[1] = "DELETE" /\ Entry(1, 5)[2] = <<"customers", Id>>
    BY ONLY CustomersServe
  <2>4. MountOf(p) = 1 /\ p[1] = "customers"
    <3>1. (Len(p) = 1 \/ Len(p) = 2) /\ p[1] = "customers"
      BY <1>1, <2>1, <2>2, <2>3
    <3>2. CASE Len(p) = 1
      BY ONLY <3>1, <3>2 DEF MountOf
    <3>3. CASE Len(p) = 2
      BY ONLY <3>1, <3>3 DEF MountOf
    <3> QED BY <3>1, <3>2, <3>3
  <2>5. ASSUME NEW k \in 1 .. Len(Mounts[i].router),
               Entry(i, k)[1] = Entry(i, j)[1], Fits(Entry(i, k)[2], p)
        PROVE  k = j
    BY <1>1, <2>1, <2>2, <2>3, <2>5
  <2> QED BY <1>1, <2>4, <2>5
<1>2. CASE i = 2
  <2>1. Fits(<<"customers", Id, "contacts">>, p) =>
          Len(p) = 3 /\ p[1] = "customers" /\ p[3] = "contacts"
    BY DEF Fits, Id
  <2>2. Fits(<<"customers", Id, "contacts", Id>>, p) =>
          Len(p) = 4 /\ p[1] = "customers" /\ p[3] = "contacts"
    BY DEF Fits, Id
  <2>3. /\ Len(Mounts[2].router) = 4
        /\ Entry(2, 1)[1] = "POST" /\ Entry(2, 1)[2] = <<"customers", Id, "contacts">>
        /\ Entry(2, 2)[1] = "GET" /\ Entry(2, 2)[2] = <<"customers", Id, "contacts">>
        /\ Entry(2, 3)[1] = "PATCH" /\ Entry(2, 3)[2] = <<"customers", Id, "contacts", Id>>
        /\ Entry(2, 4)[1] = "DELETE" /\ Entry(2, 4)[2] = <<"customers", Id, "contacts", Id>>
    BY ONLY ContactsServe
  <2> QED BY <1>2, <2>1, <2>2, <2>3 DEF MountOf
<1>3. CASE i = 3
  <2>1. Fits(<<"customers", Id, "birth-charts">>, p) =>
          Len(p) = 3 /\ p[1] = "customers" /\ p[3] = "birth-charts"
    BY DEF Fits, Id
  <2>2. Fits(<<"customers", Id, "birth-charts", Id>>, p) =>
          Len(p) = 4 /\ p[1] = "customers" /\ p[3] = "birth-charts"
    BY DEF Fits, Id
  <2>3. /\ Len(Mounts[3].router) = 3
        /\ Entry(3, 1)[1] = "POST" /\ Entry(3, 1)[2] = <<"customers", Id, "birth-charts">>
        /\ Entry(3, 2)[1] = "GET" /\ Entry(3, 2)[2] = <<"customers", Id, "birth-charts">>
        /\ Entry(3, 3)[1] = "GET" /\ Entry(3, 3)[2] = <<"customers", Id, "birth-charts", Id>>
    BY ONLY BirthChartsServe
  <2> QED BY <1>3, <2>1, <2>2, <2>3 DEF MountOf
<1>4. CASE i = 4
  <2>1. Fits(<<"customers", Id, "finance-records">>, p) =>
          Len(p) = 3 /\ p[1] = "customers" /\ p[3] = "finance-records"
    BY DEF Fits, Id
  <2>2. Fits(<<"customers", Id, "finance-records", "summary">>, p) =>
          Len(p) = 4 /\ p[1] = "customers" /\ p[3] = "finance-records" /\ p[4] = "summary"
    BY DEF Fits, Id
  <2>3. /\ Len(Mounts[4].router) = 3
        /\ Entry(4, 1)[1] = "POST" /\ Entry(4, 1)[2] = <<"customers", Id, "finance-records">>
        /\ Entry(4, 2)[1] = "GET" /\ Entry(4, 2)[2] = <<"customers", Id, "finance-records">>
        /\ Entry(4, 3)[1] = "GET"
        /\ Entry(4, 3)[2] = <<"customers", Id, "finance-records", "summary">>
    BY ONLY FinanceServe
  <2> QED BY <1>4, <2>1, <2>2, <2>3 DEF MountOf
<1>5. CASE i = 5
  <2>1. Fits(<<"customers", Id, "consents">>, p) =>
          Len(p) = 3 /\ p[1] = "customers" /\ p[3] = "consents"
    BY DEF Fits, Id
  <2>2. Fits(<<"customers", Id, "notes">>, p) =>
          Len(p) = 3 /\ p[1] = "customers" /\ p[3] = "notes"
    BY DEF Fits, Id
  <2>3. /\ Len(Mounts[5].router) = 4
        /\ Entry(5, 1)[1] = "POST" /\ Entry(5, 1)[2] = <<"customers", Id, "consents">>
        /\ Entry(5, 2)[1] = "GET" /\ Entry(5, 2)[2] = <<"customers", Id, "consents">>
        /\ Entry(5, 3)[1] = "POST" /\ Entry(5, 3)[2] = <<"customers", Id, "notes">>
        /\ Entry(5, 4)[1] = "GET" /\ Entry(5, 4)[2] = <<"customers", Id, "notes">>
    BY ONLY ComplianceServe
  <2> QED BY <1>5, <2>1, <2>2, <2>3 DEF MountOf
<1>6. CASE i = 6
  <2>1. Fits(<<"customers", Id, "tags">>, p) =>
          Len(p) = 3 /\ p[1] = "customers" /\ p[3] = "tags"
    BY DEF Fits, Id
  <2>2. Fits(<<"customers", Id, "tags", Id>>, p) =>
          Len(p) = 4 /\ p[1] = "customers" /\ p[3] = "tags"
    BY DEF Fits, Id
  <2>3. /\ Len(Mounts[6].router) = 3
        /\ Entry(6, 1)[1] = "GET" /\ Entry(6, 1)[2] = <<"customers", Id, "tags">>
        /\ Entry(6, 2)[1] = "POST" /\ Entry(6, 2)[2] = <<"customers", Id, "tags">>
        /\ Entry(6, 3)[1] = "DELETE" /\ Entry(6, 3)[2] = <<"customers", Id, "tags", Id>>
    BY ONLY CustomerTagServe
  <2> QED BY <1>6, <2>1, <2>2, <2>3 DEF MountOf
<1>7. CASE i = 7
  <2>1. Fits(<<"customers", Id, "addresses">>, p) =>
          Len(p) = 3 /\ p[1] = "customers" /\ p[3] = "addresses"
    BY DEF Fits, Id
  <2>2. Fits(<<"customers", Id, "addresses", Id>>, p) =>
          Len(p) = 4 /\ p[1] = "customers" /\ p[3] = "addresses"
    BY DEF Fits, Id
  <2>3. /\ Len(Mounts[7].router) = 4
        /\ Entry(7, 1)[1] = "POST" /\ Entry(7, 1)[2] = <<"customers", Id, "addresses">>
        /\ Entry(7, 2)[1] = "GET" /\ Entry(7, 2)[2] = <<"customers", Id, "addresses">>
        /\ Entry(7, 3)[1] = "PATCH" /\ Entry(7, 3)[2] = <<"customers", Id, "addresses", Id>>
        /\ Entry(7, 4)[1] = "DELETE" /\ Entry(7, 4)[2] = <<"customers", Id, "addresses", Id>>
    BY ONLY AddressesServe
  <2> QED BY <1>7, <2>1, <2>2, <2>3 DEF MountOf
<1>8. CASE i = 8
  <2>1. Fits(<<"tags">>, p) =>
          Len(p) = 1 /\ p[1] = "tags"
    BY DEF Fits, Id
  <2>2. /\ Len(Mounts[8].router) = 2
        /\ Entry(8, 1)[1] = "POST" /\ Entry(8, 1)[2] = <<"tags">>
        /\ Entry(8, 2)[1] = "GET" /\ Entry(8, 2)[2] = <<"tags">>
    BY ONLY TagsServe
  <2> QED BY <1>8, <2>1, <2>2 DEF MountOf
<1>9. CASE i = 9
  <2>1. Fits(<<"auth", "sessions">>, p) =>
          Len(p) = 2 /\ p[1] = "auth" /\ p[2] = "sessions"
    BY DEF Fits, Id
  <2>2. Fits(<<"auth", "sessions", Id>>, p) =>
          Len(p) = 3 /\ p[1] = "auth" /\ p[2] = "sessions"
    BY DEF Fits, Id
  <2>3. Fits(<<"auth", "sessions", "me">>, p) =>
          Len(p) = 3 /\ p[1] = "auth" /\ p[2] = "sessions" /\ p[3] = "me"
    BY DEF Fits, Id
  <2>4. Fits(<<"auth", "sessions", "heartbeat">>, p) =>
          Len(p) = 3 /\ p[1] = "auth" /\ p[2] = "sessions" /\ p[3] = "heartbeat"
    BY DEF Fits, Id
  <2>5. Fits(<<"auth", "sessions", "presence", Id>>, p) =>
          Len(p) = 4 /\ p[1] = "auth" /\ p[2] = "sessions" /\ p[3] = "presence"
    BY DEF Fits, Id
  <2>6. Fits(<<"auth", "sessions", "stats">>, p) =>
          Len(p) = 3 /\ p[1] = "auth" /\ p[2] = "sessions" /\ p[3] = "stats"
    BY DEF Fits, Id
  <2>7. /\ Len(Mounts[9].router) = 6
        /\ Entry(9, 1)[1] = "POST" /\ Entry(9, 1)[2] = <<"auth", "sessions">>
        /\ Entry(9, 2)[1] = "DELETE" /\ Entry(9, 2)[2] = <<"auth", "sessions", Id>>
        /\ Entry(9, 3)[1] = "GET" /\ Entry(9, 3)[2] = <<"auth", "sessions", "me">>
        /\ Entry(9, 4)[1] = "POST" /\ Entry(9, 4)[2] = <<"auth", "sessions", "heartbeat">>
        /\ Entry(9, 5)[1] = "GET" /\ Entry(9, 5)[2] = <<"auth", "sessions", "presence", Id>>
        /\ Entry(9, 6)[1] = "GET" /\ Entry(9, 6)[2] = <<"auth", "sessions", "stats">>
    BY ONLY SessionsServe
  <2> QED BY <1>9, <2>1, <2>2, <2>3, <2>4, <2>5, <2>6, <2>7 DEF MountOf
<1>10. CASE i = 10
  <2>1. Fits(<<"internal", "customers", Id, "profile">>, p) =>
          Len(p) = 4 /\ p[1] = "internal" /\ p[2] = "customers" /\ p[4] = "profile"
    BY DEF Fits, Id
  <2>2. /\ Len(Mounts[10].router) = 1
        /\ Entry(10, 1)[1] = "GET" /\ Entry(10, 1)[2] = <<"internal", "customers", Id, "profile">>
    BY ONLY InternalServe
  <2> QED BY <1>10, <2>1, <2>2 DEF MountOf
<1> QED BY <1>1, <1>2, <1>3, <1>4, <1>5, <1>6, <1>7, <1>8, <1>9, <1>10

\* The paths of the comments, written out.
LEMMA DocumentedPaths ==
  /\ Of(<<>>) = <<"customers", Id>>
  /\ Of(<<"contacts">>) = <<"customers", Id, "contacts">>
  /\ Of(<<"contacts", Id>>) = <<"customers", Id, "contacts", Id>>
  /\ Of(<<"birth-charts">>) = <<"customers", Id, "birth-charts">>
  /\ Of(<<"birth-charts", Id>>) = <<"customers", Id, "birth-charts", Id>>
  /\ Of(<<"finance-records">>) = <<"customers", Id, "finance-records">>
  /\ Of(<<"consents">>) = <<"customers", Id, "consents">>
  /\ Of(<<"notes">>) = <<"customers", Id, "notes">>
  /\ Of(<<"tags">>) = <<"customers", Id, "tags">>
  /\ Of(<<"tags", Id>>) = <<"customers", Id, "tags", Id>>
  /\ Of(<<"addresses">>) = <<"customers", Id, "addresses">>
  /\ Of(<<"addresses", Id>>) = <<"customers", Id, "addresses", Id>>
  /\ Of(<<"finance-summary">>) = <<"customers", Id, "finance-summary">>
  /\ Of(<<"presence">>) = <<"customers", Id, "presence">>
BY ONLY Joined DEF Of

\* Every route serves an endpoint, but for the misnamed ones.
LEMMA RoutesAreEndpoints ==
  ASSUME NEW i \in 1 .. 10, NEW j \in 1 .. Len(Mounts[i].router)
  PROVE  Entry(i, j) \in Endpoints \/ Entry(i, j)[3] \in Misnamed
<1>1. CASE i = 1
  <2>1. Entry(1, 1) \in Endpoints
    <3>1. Entry(1, 1) = <<"POST", <<"customers">>, "create_customer">>
      BY CustomersServe
    <3> QED BY ONLY <3>1, DocumentedPaths DEF Endpoints
  <2>2. Entry(1, 2) \in Endpoints
    <3>1. Entry(1, 2) = <<"GET", <<"customers">>, "list_customers">>
      BY CustomersServe
    <3> QED BY ONLY <3>1, DocumentedPaths DEF Endpoints
  <2>3. Entry(1, 3) \in Endpoints
    <3>1. Entry(1, 3) = <<"GET", <<"customers", Id>>, "find_customer">>
      BY CustomersServe
    <3> QED BY ONLY <3>1, DocumentedPaths DEF Endpoints
  <2>4. Entry(1, 4) \in Endpoints
    <3>1. Entry(1, 4) = <<"PATCH", <<"customers", Id>>, "update_customer">>
      BY CustomersServe
    <3> QED BY ONLY <3>1, DocumentedPaths DEF Endpoints
  <2>5. Entry(1, 5) \in Endpoints
    <3>1. Entry(1, 5) = <<"DELETE", <<"customers", Id>>, "delete_customer">>
      BY CustomersServe
    <3> QED BY ONLY <3>1, DocumentedPaths DEF Endpoints
  <2> QED BY <1>1, <2>1, <2>2, <2>3, <2>4, <2>5, CustomersServe
<1>2. CASE i = 2
  <2>1. Entry(2, 1) \in Endpoints
    <3>1. Entry(2, 1) = <<"POST", <<"customers", Id, "contacts">>, "add_contact">>
      BY ContactsServe
    <3> QED BY ONLY <3>1, DocumentedPaths DEF Endpoints
  <2>2. Entry(2, 2) \in Endpoints
    <3>1. Entry(2, 2) = <<"GET", <<"customers", Id, "contacts">>, "list_contacts">>
      BY ContactsServe
    <3> QED BY ONLY <3>1, DocumentedPaths DEF Endpoints
  <2>3. Entry(2, 3) \in Endpoints
    <3>1. Entry(2, 3) = <<"PATCH", <<"customers", Id, "contacts", Id>>, "update_contact">>
      BY ContactsServe
    <3> QED BY ONLY <3>1, DocumentedPaths DEF Endpoints
  <2>4. Entry(2, 4) \in Endpoints
    <3>1. Entry(2, 4) = <<"DELETE", <<"customers", Id, "contacts", Id>>, "remove_contact">>
      BY ContactsServe
    <3> QED BY ONLY <3>1, DocumentedPaths DEF Endpoints
  <2> QED BY <1>2, <2>1, <2>2, <2>3, <2>4, ContactsServe
<1>3. CASE i = 3
  <2>1. Entry(3, 1) \in Endpoints
    <3>1. Entry(3, 1) = <<"POST", <<"customers", Id, "birth-charts">>, "create_chart">>
      BY BirthChartsServe
    <3> QED BY ONLY <3>1, DocumentedPaths DEF Endpoints
  <2>2. Entry(3, 2) \in Endpoints
    <3>1. Entry(3, 2) = <<"GET", <<"customers", Id, "birth-charts">>, "list_charts">>
      BY BirthChartsServe
    <3> QED BY ONLY <3>1, DocumentedPaths DEF Endpoints
  <2>3. Entry(3, 3) \in Endpoints
    <3>1. Entry(3, 3) = <<"GET", <<"customers", Id, "birth-charts", Id>>, "find_chart">>
      BY BirthChartsServe
    <3> QED BY ONLY <3>1, DocumentedPaths DEF Endpoints
  <2> QED BY <1>3, <2>1, <2>2, <2>3, BirthChartsServe
<1>4. CASE i = 4
  <2>1. Entry(4, 1) \in Endpoints
    <3>1. Entry(4, 1) = <<"POST", <<"customers", Id, "finance-records">>, "create_record">>
      BY FinanceServe
    <3> QED BY ONLY <3>1, DocumentedPaths DEF Endpoints
  <2>2. Entry(4, 2) \in Endpoints
    <3>1. Entry(4, 2) = <<"GET", <<"customers", Id, "finance-records">>, "list_records">>
      BY FinanceServe
    <3> QED BY ONLY <3>1, DocumentedPaths DEF Endpoints
  <2>3. Entry(4, 3)[3] \in Misnamed
    BY FinanceServe DEF Misnamed
  <2> QED BY <1>4, <2>1, <2>2, <2>3, FinanceServe
<1>5. CASE i = 5
  <2>1. Entry(5, 1) \in Endpoints
    <3>1. Entry(5, 1) = <<"POST", <<"customers", Id, "consents">>, "record_consent">>
      BY ComplianceServe
    <3> QED BY ONLY <3>1, DocumentedPaths DEF Endpoints
  <2>2. Entry(5, 2) \in Endpoints
    <3>1. Entry(5, 2) = <<"GET", <<"customers", Id, "consents">>, "list_consents">>
      BY ComplianceServe
    <3> QED BY ONLY <3>1, DocumentedPaths DEF Endpoints
  <2>3. Entry(5, 3) \in Endpoints
    <3>1. Entry(5, 3) = <<"POST", <<"customers", Id, "notes">>, "add_note">>
      BY ComplianceServe
    <3> QED BY ONLY <3>1, DocumentedPaths DEF Endpoints
  <2>4. Entry(5, 4) \in Endpoints
    <3>1. Entry(5, 4) = <<"GET", <<"customers", Id, "notes">>, "list_notes">>
      BY ComplianceServe
    <3> QED BY ONLY <3>1, DocumentedPaths DEF Endpoints
  <2> QED BY <1>5, <2>1, <2>2, <2>3, <2>4, ComplianceServe
<1>6. CASE i = 6
  <2>1. Entry(6, 1) \in Endpoints
    <3>1. Entry(6, 1) = <<"GET", <<"customers", Id, "tags">>, "customer_tags">>
      BY CustomerTagServe
    <3> QED BY ONLY <3>1, DocumentedPaths DEF Endpoints
  <2>2. Entry(6, 2) \in Endpoints
    <3>1. Entry(6, 2) = <<"POST", <<"customers", Id, "tags">>, "assign_tag">>
      BY CustomerTagServe
    <3> QED BY ONLY <3>1, DocumentedPaths DEF Endpoints
  <2>3. Entry(6, 3) \in Endpoints
    <3>1. Entry(6, 3) = <<"DELETE", <<"customers", Id, "tags", Id>>, "remove_tag">>
      BY CustomerTagServe
    <3> QED BY ONLY <3>1, DocumentedPaths DEF Endpoints
  <2> QED BY <1>6, <2>1, <2>2, <2>3, CustomerTagServe
<1>7. CASE i = 7
  <2>1. Entry(7, 1) \in Endpoints
    <3>1. Entry(7, 1) = <<"POST", <<"customers", Id, "addresses">>, "create_address">>
      BY AddressesServe
    <3> QED BY ONLY <3>1, DocumentedPaths DEF Endpoints
  <2>2. Entry(7, 2) \in Endpoints
    <3>1. Entry(7, 2) = <<"GET", <<"customers", Id, "addresses">>, "list_addresses">>
      BY AddressesServe
    <3> QED BY ONLY <3>1, DocumentedPaths DEF Endpoints
  <2>3. Entry(7, 3) \in Endpoints
    <3>1. Entry(7, 3) = <<"PATCH", <<"customers", Id, "addresses", Id>>, "update_address">>
      BY AddressesServe
    <3> QED BY ONLY <3>1, DocumentedPaths DEF Endpoints
  <2>4. Entry(7, 4) \in Endpoints
    <3>1. Entry(7, 4) = <<"DELETE", <<"customers", Id, "addresses", Id>>, "delete_address">>
      BY AddressesServe
    <3> QED BY ONLY <3>1, DocumentedPaths DEF Endpoints
  <2> QED BY <1>7, <2>1, <2>2, <2>3, <2>4, AddressesServe
<1>8. CASE i = 8
  <2>1. Entry(8, 1) \in Endpoints
    <3>1. Entry(8, 1) = <<"POST", <<"tags">>, "create_tag">>
      BY TagsServe
    <3> QED BY ONLY <3>1, DocumentedPaths DEF Endpoints
  <2>2. Entry(8, 2) \in Endpoints
    <3>1. Entry(8, 2) = <<"GET", <<"tags">>, "list_tags">>
      BY TagsServe
    <3> QED BY ONLY <3>1, DocumentedPaths DEF Endpoints
  <2> QED BY <1>8, <2>1, <2>2, TagsServe
<1>9. CASE i = 9
  <2>1. Entry(9, 1) \in Endpoints
    <3>1. Entry(9, 1) = <<"POST", <<"auth", "sessions">>, "login">>
      BY SessionsServe
    <3> QED BY ONLY <3>1, DocumentedPaths DEF Endpoints
  <2>2. Entry(9, 2) \in Endpoints
    <3>1. Entry(9, 2) = <<"DELETE", <<"auth", "sessions", Id>>, "logout">>
      BY SessionsServe
    <3> QED BY ONLY <3>1, DocumentedPaths DEF Endpoints
  <2>3. Entry(9, 3) \in Endpoints
    <3>1. Entry(9, 3) = <<"GET", <<"auth", "sessions", "me">>, "my_sessions">>
      BY SessionsServe
    <3> QED BY ONLY <3>1, DocumentedPaths DEF Endpoints
  <2>4. Entry(9, 4) \in Endpoints
    <3>1. Entry(9, 4) = <<"POST", <<"auth", "sessions", "heartbeat">>, "heartbeat">>
      BY SessionsServe
    <3> QED BY ONLY <3>1, DocumentedPaths DEF Endpoints
  <2>5. Entry(9, 5)[3] \in Misnamed
    BY SessionsServe DEF Misnamed
  <2>6. Entry(9, 6) \in Endpoints
    <3>1. Entry(9, 6) = <<"GET", <<"auth", "sessions", "stats">>, "stats">>
      BY SessionsServe
    <3> QED BY ONLY <3>1, DocumentedPaths DEF Endpoints
  <2> QED BY <1>9, <2>1, <2>2, <2>3, <2>4, <2>5, <2>6, SessionsServe
<1>10. CASE i = 10
  <2>1. Entry(10, 1) \in Endpoints
    <3>1. Entry(10, 1) = <<"GET", <<"internal", "customers", Id, "profile">>, "profile">>
      BY InternalServe
    <3> QED BY ONLY <3>1, DocumentedPaths DEF Endpoints
  <2> QED BY <1>10, <2>1, InternalServe
<1> QED BY <1>1, <1>2, <1>3, <1>4, <1>5, <1>6, <1>7, <1>8, <1>9, <1>10

\* Every endpoint is served, but for the misnamed ones.
LEMMA EndpointsHaveRoutes ==
  ASSUME NEW e \in Endpoints, e[3] \notin Misnamed
  PROVE  \E i \in 1 .. 10 : \E j \in 1 .. Len(Mounts[i].router) : e = Entry(i, j)
<1> DEFINE Has(a) == \E i \in 1 .. 10 : \E j \in 1 .. Len(Mounts[i].router) : a = Entry(i, j)
<1>1. /\ Has(Entry(1, 1)) /\ Has(Entry(1, 2)) /\ Has(Entry(1, 3)) /\ Has(Entry(1, 4))
      /\ Has(Entry(1, 5))
  BY CustomersServe
<1>2. Has(Entry(2, 1)) /\ Has(Entry(2, 2)) /\ Has(Entry(2, 3)) /\ Has(Entry(2, 4))
  BY ContactsServe
<1>3. Has(Entry(3, 1)) /\ Has(Entry(3, 2)) /\ Has(Entry(3, 3))
  BY BirthChartsServe
<1>4. Has(Entry(4, 1)) /\ Has(Entry(4, 2)) /\ Has(Entry(4, 3))
  BY FinanceServe
<1>5. Has(Entry(5, 1)) /\ Has(Entry(5, 2)) /\ Has(Entry(5, 3)) /\ Has(Entry(5, 4))
  BY ComplianceServe
<1>6. Has(Entry(6, 1)) /\ Has(Entry(6, 2)) /\ Has(Entry(6, 3))
  BY CustomerTagServe
<1>7. Has(Entry(7, 1)) /\ Has(Entry(7, 2)) /\ Has(Entry(7, 3)) /\ Has(Entry(7, 4))
  BY AddressesServe
<1>8. Has(Entry(8, 1)) /\ Has(Entry(8, 2))
  BY TagsServe
<1>9. /\ Has(Entry(9, 1)) /\ Has(Entry(9, 2)) /\ Has(Entry(9, 3)) /\ Has(Entry(9, 4))
      /\ Has(Entry(9, 5)) /\ Has(Entry(9, 6))
  BY SessionsServe
<1>10. Has(Entry(10, 1))
  BY InternalServe
<1> HIDE DEF Has
<1>11. /\ Has(<<"POST", <<"customers">>, "create_customer">>)
       /\ Has(<<"GET", <<"customers">>, "list_customers">>)
       /\ Has(<<"GET", Of(<<>>), "find_customer">>)
       /\ Has(<<"PATCH", Of(<<>>), "update_customer">>)
       /\ Has(<<"DELETE", Of(<<>>), "delete_customer">>)
  BY ONLY <1>1, CustomersServe, DocumentedPaths
<1>12. /\ Has(<<"POST", Of(<<"contacts">>), "add_contact">>)
       /\ Has(<<"GET", Of(<<"contacts">>), "list_contacts">>)
       /\ Has(<<"PATCH", Of(<<"contacts", Id>>), "update_contact">>)
       /\ Has(<<"DELETE", Of(<<"contacts", Id>>), "remove_contact">>)
  BY ONLY <1>2, ContactsServe, DocumentedPaths
<1>13. /\ Has(<<"POST", Of(<<"birth-charts">>), "create_chart">>)
       /\ Has(<<"GET", Of(<<"birth-charts">>), "list_charts">>)
       /\ Has(<<"GET", Of(<<"birth-charts", Id>>), "find_chart">>)
  BY ONLY <1>3, BirthChartsServe, DocumentedPaths
<1>14. /\ Has(<<"POST", Of(<<"finance-records">>), "create_record">>)
       /\ Has(<<"GET", Of(<<"finance-records">>), "list_records">>)
  BY ONLY <1>4, FinanceServe, DocumentedPaths
<1>15. /\ Has(<<"POST", Of(<<"consents">>), "record_consent">>)
       /\ Has(<<"GET", Of(<<"consents">>), "list_consents">>)
       /\ Has(<<"POST", Of(<<"notes">>), "add_note">>)
       /\ Has(<<"GET", Of(<<"notes">>), "list_notes">>)
  BY ONLY <1>5, ComplianceServe, DocumentedPaths
<1>16. /\ Has(<<"GET", Of(<<"tags">>), "customer_tags">>)
       /\ Has(<<"POST", Of(<<"tags">>), "assign_tag">>)
       /\ Has(<<"DELETE", Of(<<"tags", Id>>), "remove_tag">>)
  BY ONLY <1>6, CustomerTagServe, DocumentedPaths
<1>17. /\ Has(<<"POST", Of(<<"addresses">>), "create_address">>)
       /\ Has(<<"GET", Of(<<"addresses">>), "list_addresses">>)
       /\ Has(<<"PATCH", Of(<<"addresses", Id>>), "update_address">>)
       /\ Has(<<"DELETE", Of(<<"addresses", Id>>), "delete_address">>)
  BY ONLY <1>7, AddressesServe, DocumentedPaths
<1>18. /\ Has(<<"POST", <<"tags">>, "create_tag">>)
       /\ Has(<<"GET", <<"tags">>, "list_tags">>)
  BY ONLY <1>8, TagsServe, DocumentedPaths
<1>19. /\ Has(<<"POST", <<"auth", "sessions">>, "login">>)
       /\ Has(<<"DELETE", <<"auth", "sessions", Id>>, "logout">>)
       /\ Has(<<"GET", <<"auth", "sessions", "me">>, "my_sessions">>)
       /\ Has(<<"POST", <<"auth", "sessions", "heartbeat">>, "heartbeat">>)
       /\ Has(<<"GET", <<"auth", "sessions", "stats">>, "stats">>)
  BY ONLY <1>9, SessionsServe, DocumentedPaths
<1>20. Has(<<"GET", <<"internal", "customers", Id, "profile">>, "profile">>)
  BY ONLY <1>10, InternalServe, DocumentedPaths
<1>21. /\ e # <<"GET", Of(<<"finance-summary">>), "summary">>
       /\ e # <<"GET", Of(<<"presence">>), "presence">>
  BY DEF Misnamed
<1>22. Has(e)
  BY <1>11, <1>12, <1>13, <1>14, <1>15, <1>16, <1>17, <1>18, <1>19, <1>20, <1>21 DEF Endpoints
<1> QED BY <1>22 DEF Has

\* A route of a mount takes the request.
Serves(i, j) ==
  /\ j \in 1 .. Len(Mounts[i].router)
  /\ Mounts[i].router[j].method = req.method
  /\ Fits(Entry(i, j)[2], req.path)

Unserved(i) == \A j \in 1 .. Len(Mounts[i].router) : ~Serves(i, j)

\* The mounts a request has passed do not take it; the one that has its router
\* does fit it, and its route serves it.
OnItsWay ==
  /\ step # "free" => req.path \in Seq(Words)
  /\ step # "over" => called = <<>> /\ answers = <<>>
  /\ step = "checks" => req.path = <<"health">>
  /\ step = "mount" => mount \in 1 .. 11 /\ \A i \in 1 .. 10 : i < mount => Unserved(i)
  /\ step = "router" => /\ mount \in 1 .. 10 /\ Reaches(Mounts[mount], req.path)
                        /\ \A i \in 1 .. 10 : i < mount => Unserved(i)
  /\ step \in {"auth", "handler"} =>
       /\ mount \in 1 .. 10
       /\ \E j \in 1 .. Len(Mounts[mount].router) :
            Serves(mount, j) /\ route = Mounts[mount].router[j]

DispatchInv == OnItsWay /\ EndpointsAreServed

LEMMA MountsKeepTheirIds ==
  ASSUME NEW i \in 1 .. 10
  PROVE  /\ KeepsItsIds(Mounts[i])
         /\ \A j \in 1 .. Len(Mounts[i].router) : LetsIn(Mounts[i].router[j])
<1>1. CASE i = 1
  BY <1>1, CustomersServe
<1>2. CASE i = 2
  BY <1>2, ContactsServe
<1>3. CASE i = 3
  BY <1>3, BirthChartsServe
<1>4. CASE i = 4
  BY <1>4, FinanceServe
<1>5. CASE i = 5
  BY <1>5, ComplianceServe
<1>6. CASE i = 6
  BY <1>6, CustomerTagServe
<1>7. CASE i = 7
  BY <1>7, AddressesServe
<1>8. CASE i = 8
  BY <1>8, TagsServe
<1>9. CASE i = 9
  BY <1>9, SessionsServe
<1>10. CASE i = 10
  BY <1>10, InternalServe
<1> QED BY <1>1, <1>2, <1>3, <1>4, <1>5, <1>6, <1>7, <1>8, <1>9, <1>10

LEMMA EntryIs ==
  ASSUME NEW i, NEW j
  PROVE  /\ Entry(i, j)[1] = Mounts[i].router[j].method
         /\ Entry(i, j)[2] = Mounts[i].prefix \o Mounts[i].router[j].path
         /\ Entry(i, j)[3] = Mounts[i].router[j].calls
BY DEF Entry

\* A mount takes a request by one of its routes, or none of them serves it.
LEMMA TakenIsServed ==
  ASSUME NEW i \in 1 .. 10, req.path \in Seq(Words)
  PROVE  \A j : Serves(i, j) <=> Reaches(Mounts[i], req.path) /\ j \in Takes(Mounts[i], req)
<1>1. ASSUME NEW j \in 1 .. Len(Mounts[i].router)
      PROVE  Serves(i, j) <=> Reaches(Mounts[i], req.path) /\ j \in Takes(Mounts[i], req)
  <2>1. Mounts[i].prefix \in Seq(Segments) /\ Mounts[i].router[j].path \in Seq(Segments)
    BY MountsKeepTheirIds DEF KeepsItsIds, LetsIn
  <2>2. (Reaches(Mounts[i], req.path) /\ j \in Takes(Mounts[i], req)) <=>
          /\ Mounts[i].router[j].method = req.method
          /\ Fits(Mounts[i].prefix \o Mounts[i].router[j].path, req.path)
    BY <2>1, TakenPath
  <2>3. Entry(i, j)[2] = Mounts[i].prefix \o Mounts[i].router[j].path
    BY EntryIs
  <2> QED BY ONLY <1>1, <2>2, <2>3 DEF Serves
<1>2. \A j : (j \in Takes(Mounts[i], req) => j \in 1 .. Len(Mounts[i].router))
             /\ (Serves(i, j) => j \in 1 .. Len(Mounts[i].router))
  BY DEF Takes, Serves
<1> QED BY <1>1, <1>2

\* Whoever asks for an endpoint is served by its route, with ids that parse.
LEMMA AskedIsServed ==
  ASSUME NEW i \in 1 .. 10, NEW j \in 1 .. Len(Mounts[i].router), req.path \in Seq(Words)
  PROVE  Asked(Entry(i, j)) <=>
           Serves(i, j) /\ ParsesIds(Mounts[i], Mounts[i].router[j], req.path)
<1> DEFINE w == Entry(i, j)[2]
           m == Mounts[i]
           n == Len(m.prefix)
<1>1. /\ w = m.prefix \o m.router[j].path /\ Len(w) \in Nat
      /\ m.prefix \in Seq(Segments) /\ n \in Nat
      /\ \A k \in 1 .. n : w[k] = m.prefix[k]
  <2>1. m.prefix \in Seq(Segments) /\ m.router[j].path \in Seq(Segments)
    BY MountsKeepTheirIds DEF KeepsItsIds, LetsIn
  <2>2. w = m.prefix \o m.router[j].path
    BY EntryIs
  <2>3. /\ m.prefix \o m.router[j].path \in Seq(Segments)
        /\ Len(m.prefix \o m.router[j].path) \in Nat
        /\ n \in Nat /\ Len(m.router[j].path) \in Nat
        /\ \A k \in 1 .. n + Len(m.router[j].path) :
             (m.prefix \o m.router[j].path)[k] =
               IF k <= n THEN m.prefix[k] ELSE (m.router[j].path)[k - n]
    BY <2>1, ConcatProperties, LenProperties
  <2> HIDE DEF m, n, w
  <2>4. \A k \in 1 .. n : k \in 1 .. n + Len(m.router[j].path) /\ k <= n
    BY <2>3
  <2> QED BY ONLY <2>1, <2>2, <2>3, <2>4
<1>2. \A k \in 1 .. Len(w) : w[k] = Id => k >= Seen(m)
  <2> HIDE DEF w
  <2> SUFFICES ASSUME NEW k \in 1 .. Len(w), w[k] = Id, ~m.merges
               PROVE  k >= n + 1
    <3>1. Len(w) \in Nat
      BY <1>1
    <3> QED BY <3>1 DEF Seen
  <2>1. Len(w) \in Nat /\ k \in Nat /\ k >= 1
    <3>1. Len(w) \in Nat
      BY <1>1
    <3> QED BY ONLY <3>1, k \in 1 .. Len(w)
  <2>2. \A l \in 1 .. n : m.prefix[l] # Id
    BY MountsKeepTheirIds DEF KeepsItsIds
  <2>3. k \notin 1 .. n
    BY <1>1, <2>2
  <2> HIDE DEF n, m
  <2> QED BY <1>1, <2>1, <2>3
<1>3. /\ Entry(i, j)[1] = m.router[j].method
      /\ ParsesIds(m, m.router[j], req.path) <=>
           \A k \in 1 .. Len(req.path) : w[k] = Id => k >= Seen(m) /\ req.path[k] = "uuid"
  BY <1>1, EntryIs DEF ParsesIds
<1>4. Serves(i, j) <=> /\ m.router[j].method = req.method
                       /\ Len(req.path) = Len(w)
                       /\ \A k \in 1 .. Len(req.path) : w[k] \in {Id, req.path[k]}
  BY DEF Serves, Fits
<1>5. Asked(Entry(i, j)) <=>
        /\ req.method = Entry(i, j)[1] /\ Len(req.path) = Len(w)
        /\ \A k \in 1 .. Len(w) :
             IF w[k] = Id THEN req.path[k] = "uuid" ELSE req.path[k] = w[k]
  BY DEF Asked
<1> HIDE DEF w, m
<1>6. ASSUME Asked(Entry(i, j))
      PROVE  Serves(i, j) /\ ParsesIds(m, m.router[j], req.path)
  <2>1. /\ Len(req.path) = Len(w) /\ req.method = m.router[j].method
        /\ \A k \in 1 .. Len(req.path) :
             IF w[k] = Id THEN req.path[k] = "uuid" ELSE req.path[k] = w[k]
    BY ONLY <1>3, <1>5, <1>6
  <2>2. \A k \in 1 .. Len(req.path) : w[k] = Id => k >= Seen(m)
    BY ONLY <1>2, <2>1
  <2> QED BY ONLY <1>3, <1>4, <2>1, <2>2
<1>7. ASSUME Serves(i, j), ParsesIds(m, m.router[j], req.path)
      PROVE  Asked(Entry(i, j))
  <2>1. /\ Len(req.path) = Len(w) /\ req.method = Entry(i, j)[1]
        /\ \A k \in 1 .. Len(req.path) : w[k] \in {Id, req.path[k]}
    BY ONLY <1>3, <1>4, <1>7
  <2>2. \A k \in 1 .. Len(req.path) : w[k] = Id => req.path[k] = "uuid"
    BY ONLY <1>3, <1>7
  <2> QED BY ONLY <1>5, <2>1, <2>2
<1> QED BY ONLY <1>6, <1>7 DEF m

\* Whoever asks for an endpoint gets to no other route than the endpoint's.
LEMMA AskedAtItsRoute ==
  ASSUME req.path \in Seq(Words), NEW i \in 1 .. 10, NEW j \in 1 .. Len(Mounts[i].router),
         Serves(i, j), NEW e \in Endpoints, e[3] \notin Misnamed, Asked(e)
  PROVE  e = Entry(i, j) /\ ParsesIds(Mounts[i], Mounts[i].router[j], req.path)
<1>1. PICK k \in 1 .. 10 : \E l \in 1 .. Len(Mounts[k].router) : e = Entry(k, l)
  BY EndpointsHaveRoutes
<1>2. PICK l \in 1 .. Len(Mounts[k].router) : e = Entry(k, l)
  BY <1>1
<1>3. Serves(k, l) /\ ParsesIds(Mounts[k], Mounts[k].router[l], req.path)
  BY <1>2, AskedIsServed
<1>4. MountOf(req.path) = k /\ MountOf(req.path) = i
  BY <1>3, OneRouteTakesIt DEF Serves
<1>5. Entry(i, l)[1] = Entry(i, j)[1] /\ Fits(Entry(i, l)[2], req.path)
  BY <1>3, <1>4, EntryIs DEF Serves
<1>6. l = j
  BY <1>4, <1>5, OneRouteTakesIt DEF Serves
<1> QED BY <1>2, <1>3, <1>4, <1>6

\* No endpoint is asked for where no route serves, nor before the mounts.
LEMMA NobodyIsAsked ==
  ASSUME req.path \in Seq(Words),
         \/ \A i \in 1 .. 10 : Unserved(i)
         \/ req.path \in {<<"health">>, <<"metrics">>}
  PROVE  \A e \in Endpoints : ~(Asked(e) /\ e[3] \notin Misnamed)
<1> SUFFICES ASSUME NEW e \in Endpoints, e[3] \notin Misnamed, Asked(e)
             PROVE  FALSE
  OBVIOUS
<1>1. PICK k \in 1 .. 10 : \E l \in 1 .. Len(Mounts[k].router) : e = Entry(k, l)
  BY EndpointsHaveRoutes
<1>2. PICK l \in 1 .. Len(Mounts[k].router) : e = Entry(k, l)
  BY <1>1
<1>3. Serves(k, l)
  BY <1>2, AskedIsServed
<1>4. req.path \in {<<"health">>, <<"metrics">>}
  BY <1>3 DEF Unserved
<1>5. req.path[1] \in {"customers", "tags", "auth", "internal"}
  BY <1>3, OneRouteTakesIt DEF Serves
<1> QED BY ONLY <1>4, <1>5

\* The path of whoever asks for an endpoint decodes.
LEMMA AskedDecodes ==
  ASSUME req.path \in Seq(Words), NEW e \in Endpoints, e[3] \notin Misnamed, Asked(e)
  PROVE  ~Malformed
<1>1. PICK i \in 1 .. 10 : \E j \in 1 .. Len(Mounts[i].router) : e = Entry(i, j)
  BY EndpointsHaveRoutes
<1>2. PICK j \in 1 .. Len(Mounts[i].router) : e = Entry(i, j)
  BY <1>1
<1>3. e[2] \in Seq(Segments)
  <2>1. e[2] = Mounts[i].prefix \o Mounts[i].router[j].path
    BY <1>2, EntryIs
  <2>2. Mounts[i].prefix \in Seq(Segments) /\ Mounts[i].router[j].path \in Seq(Segments)
    BY MountsKeepTheirIds DEF KeepsItsIds, LetsIn
  <2> QED BY ONLY <2>1, <2>2, ConcatProperties
<1>4. \A k \in 1 .. Len(e[2]) : e[2][k] \in Segments
  BY ONLY <1>3, ElementOfSeq
<1>5. "broken" \notin Segments
  BY DEF Segments, Literals, Id
<1> QED BY ONLY <1>4, <1>5, Asked(e) DEF Asked, Malformed

\* The end of a request that calls nothing.
LEMMA NothingIsCalled ==
  ASSUME step' = "over", called' = <<>>, req' = req, req.path \in Seq(Words),
         \A e \in Endpoints :
           Asked(e) /\ e[3] \notin Misnamed /\ req.input = "full"
             => \/ answers' = << 429 >> \/ AuthenticationFailed'
                \/ req.token # (IF e[3] = "profile" THEN "service" ELSE "access")
  PROVE  DispatchInv'
<1>1. OnItsWay'
  BY DEF OnItsWay
<1>2. \A e : Asked(e)' <=> Asked(e)
  BY DEF Asked
<1>3. EndpointsAreServed'
  BY <1>2 DEF EndpointsAreServed, Brings
<1> QED BY <1>1, <1>3 DEF DispatchInv

\* A request goes on to the next mount.
LEMMA WalksOn ==
  ASSUME mount \in 1 .. 10, step' = "mount", mount' = mount + 1, req' = req,
         called' = <<>>, answers' = <<>>, req.path \in Seq(Words),
         Unserved(mount), \A i \in 1 .. 10 : i < mount => Unserved(i)
  PROVE  DispatchInv'
<1>1. mount' \in 1 .. 11
  OBVIOUS
<1>2. \A i \in 1 .. 10 : i < mount' => i < mount \/ i = mount
  OBVIOUS
<1>3. \A i : Unserved(i)' <=> Unserved(i)
  BY DEF Unserved, Serves
<1>4. OnItsWay'
  BY <1>1, <1>2, <1>3 DEF OnItsWay
<1> QED BY <1>4 DEF DispatchInv, EndpointsAreServed

LEMMA DispatchSteps ==
  ASSUME DispatchInv, GatewayNext
  PROVE  DispatchInv'
<1>1. ASSUME step # "over"
      PROVE  /\ called = <<>> /\ answers = <<>>
             /\ step # "free" => req.path \in Seq(Words)
  BY <1>1 DEF DispatchInv, OnItsWay
<1>2. ASSUME req' = req
      PROVE  \A i, j : Serves(i, j)' <=> Serves(i, j)
  BY <1>2 DEF Serves
<1>3. Append(<<>>, 429) = <<429>>
  OBVIOUS
<1>4. CASE Arrive
  <2>1. req'.path \in Seq(Words)
    BY <1>4, PathsAreSequences DEF Arrive, Requests
  <2>2. step' = "parse" /\ step = "free" /\ UNCHANGED <<mount, route, called, answers>>
    BY <1>4 DEF Arrive
  <2> QED BY <1>1, <2>1, <2>2 DEF DispatchInv, OnItsWay, EndpointsAreServed
<1>5. CASE Parse
  <2>1. step = "parse" /\ req' = req /\ called' = <<>>
    BY <1>1, <1>5 DEF Parse
  <2>2. CASE req.input = "unread"
    <3>1. step' = "over"
      BY <1>5, <2>2 DEF Parse, Respond
    <3> QED BY <1>1, <2>1, <2>2, <3>1, NothingIsCalled
  <2>3. CASE req.input # "unread"
    <3>1. step' = "health" /\ answers' = answers
      BY <1>5, <2>3 DEF Parse
    <3> QED BY <1>1, <2>1, <3>1 DEF DispatchInv, OnItsWay, EndpointsAreServed
  <2> QED BY <2>2, <2>3
<1>6. CASE Health
  <2>1. step = "health" /\ req' = req /\ called' = <<>>
    BY <1>1, <1>6 DEF Health
  <2>2. CASE req.method # "GET" \/ req.path \notin {<<"health">>, <<"metrics">>}
    <3>1. step' = "mount" /\ mount' = 1 /\ answers' = answers
      BY <1>6, <2>2 DEF Health
    <3> QED BY <1>1, <2>1, <3>1 DEF DispatchInv, OnItsWay, EndpointsAreServed
  <2>3. CASE req.path = <<"metrics">> /\ req.method = "GET"
    <3>1. step' = "over"
      BY <1>6, <2>3 DEF Health, Respond
    <3> QED BY <1>1, <2>1, <2>3, <3>1, NothingIsCalled, NobodyIsAsked
  <2>4. CASE req.path = <<"health">> /\ req.method = "GET"
    <3>1. <<"health">> # <<"metrics">>
      OBVIOUS
    <3>2. step' = "checks" /\ answers' = answers
      BY <1>6, <2>4, <3>1 DEF Health
    <3> QED BY <1>1, <2>1, <2>4, <3>2 DEF DispatchInv, OnItsWay, EndpointsAreServed
  <2> QED BY <2>2, <2>3, <2>4
<1>7. CASE \E c \in Checks : CheckSettles(c)
  <2>1. step = "checks" /\ UNCHANGED <<req, step, called, answers>>
    BY <1>7 DEF CheckSettles
  <2> QED BY <1>1, <2>1 DEF DispatchInv, OnItsWay, EndpointsAreServed
<1>8. CASE HealthEnds
  <2>1. step = "checks" /\ step' = "over" /\ req' = req /\ called' = called
    BY <1>8 DEF HealthEnds, Respond
  <2>2. req.path = <<"health">>
    BY <2>1 DEF DispatchInv, OnItsWay
  <2> QED BY <1>1, <2>1, <2>2, NothingIsCalled, NobodyIsAsked
<1>9. CASE EnterMount
  <2>1. /\ step = "mount" /\ mount \in 1 .. 10 /\ req' = req /\ called' = <<>>
        /\ \A i \in 1 .. 10 : i < mount => Unserved(i)
    <3>1. step = "mount" /\ mount <= 10 /\ req' = req /\ called' = called
      BY <1>9, MountsAreOK DEF EnterMount
    <3> QED BY <1>1, <3>1 DEF DispatchInv, OnItsWay
  <2>2. CASE ~Reaches(Mounts[mount], req.path)
    <3>1. step' = "mount" /\ mount' = mount + 1 /\ answers' = answers
      BY <1>9, <2>1, <2>2 DEF EnterMount
    <3>2. Unserved(mount)
      BY <1>1, <2>1, <2>2, TakenIsServed DEF Unserved
    <3> QED BY <1>1, <1>2, <2>1, <3>1, <3>2, WalksOn
  <2>3. CASE Reaches(Mounts[mount], req.path)
    <3>1. mount' = mount
      BY <1>9, <2>3 DEF EnterMount
    <3>2. CASE step' = "router" /\ answers' = answers
      <4>1. \A i \in 1 .. 10 : i < mount' => Unserved(i)'
        BY <1>2, <2>1, <3>1 DEF Unserved
      <4>2. OnItsWay'
        BY <1>1, <2>1, <2>3, <3>1, <3>2, <4>1 DEF OnItsWay
      <4> QED BY <3>2, <4>2 DEF DispatchInv, EndpointsAreServed
    <3>3. CASE Respond(429)
      <4>1. step' = "over" /\ answers' = <<429>>
        BY <1>1, <1>3, <2>1, <3>3 DEF Respond
      <4> QED BY <1>1, <2>1, <4>1, NothingIsCalled
    <3> QED BY <1>9, <2>3, <3>2, <3>3 DEF EnterMount
  <2> QED BY <2>2, <2>3
<1>10. CASE EnterRouter
  <2>1. /\ step = "router" /\ mount \in 1 .. 10 /\ req' = req /\ called' = <<>> /\ answers' = <<>>
        /\ Reaches(Mounts[mount], req.path)
        /\ \A i \in 1 .. 10 : i < mount => Unserved(i)
    BY <1>1, <1>10 DEF EnterRouter, DispatchInv, OnItsWay
  <2>2. CASE Takes(Mounts[mount], req) = {}
    <3>1. step' = "mount" /\ mount' = mount + 1
      BY <1>10, <2>2 DEF EnterRouter
    <3>2. Unserved(mount)
      BY <1>1, <2>1, <2>2, TakenIsServed DEF Unserved
    <3> QED BY <1>1, <1>2, <2>1, <3>1, <3>2, WalksOn
  <2>3. CASE Takes(Mounts[mount], req) # {}
    <3>1. /\ step' = "auth" /\ mount' = mount
          /\ \E i \in Takes(Mounts[mount], req) : route' = Mounts[mount].router[i]
      BY <1>10, <2>3 DEF EnterRouter
    <3>2. PICK j \in Takes(Mounts[mount], req) : route' = Mounts[mount].router[j]
      BY <3>1
    <3>3. Serves(mount, j) /\ j \in 1 .. Len(Mounts[mount].router)
      BY <1>1, <2>1, <3>2, TakenIsServed DEF Serves
    <3>4. Serves(mount, j)'
      BY <1>2, <2>1, <3>1, <3>3 DEF Serves
    <3>5. OnItsWay'
      BY <1>1, <2>1, <3>1, <3>2, <3>3, <3>4 DEF OnItsWay
    <3> QED BY <3>1, <3>5 DEF DispatchInv, EndpointsAreServed
  <2> QED BY <2>2, <2>3
<1>11. CASE NotFoundHandler
  <2>1. step = "mount" /\ mount = 11 /\ step' = "over" /\ req' = req /\ called' = called
    BY <1>11, MountsAreOK DEF NotFoundHandler, Respond
  <2>2. \A i \in 1 .. 10 : Unserved(i)
    BY <2>1 DEF DispatchInv, OnItsWay
  <2> QED BY <1>1, <2>1, <2>2, NothingIsCalled, NobodyIsAsked
<1>12. CASE Authenticate \/ OptionalAuthenticate \/ ServiceAuth
  <2>1. step = "auth" /\ UNCHANGED <<req, mount, route>> /\ called' = <<>>
    BY <1>1, <1>12 DEF Authenticate, OptionalAuthenticate, ServiceAuth
  <2>2. PICK j \in 1 .. Len(Mounts[mount].router) :
          Serves(mount, j) /\ route = Mounts[mount].router[j]
    BY <2>1 DEF DispatchInv, OnItsWay
  <2>3. mount \in 1 .. 10
    BY <2>1 DEF DispatchInv, OnItsWay
  <2>4. CASE step' = "handler" /\ answers' = answers
    <3>1. Serves(mount, j)'
      BY <1>2, <2>1, <2>2 DEF Serves
    <3>2. OnItsWay'
      BY <1>1, <2>1, <2>2, <2>3, <2>4, <3>1 DEF OnItsWay
    <3> QED BY <2>4, <3>2 DEF DispatchInv, EndpointsAreServed
  <2>5. CASE step' = "over"
    <3>1. \/ AuthenticationFailed'
          \/ route.auth = "user" /\ req.token # "access"
          \/ route.auth = "service" /\ req.token # "service"
      <4>1. CASE route.auth = "user" /\ user' = FALSE /\ Respond(500)
        <5>1. answers' = <<500>>
          BY <1>1, <2>1, <4>1 DEF Respond
        <5>2. route # NoRoute
          <6>1. MountOK(Mounts[mount])
            BY <2>3, MountsAreOK
          <6>2. RouteOK(route)
            BY ONLY <2>2, <6>1 DEF MountOK
          <6> QED BY ONLY <6>2 DEF RouteOK, NoRoute
        <5> QED BY <2>1, <4>1, <5>1, <5>2 DEF AuthenticationFailed
      <4>2. CASE ~(route.auth = "user" /\ user' = FALSE /\ Respond(500))
        BY <1>12, <2>5, <4>2 DEF Authenticate, OptionalAuthenticate, ServiceAuth
      <4> QED BY <4>1, <4>2
    <3>2. route.auth = (IF route.calls = "profile" THEN "service"
                        ELSE IF route.calls = "presence" THEN "optional" ELSE "user")
      BY <2>2, <2>3, MountsKeepTheirIds DEF LetsIn
    <3>3. ASSUME NEW e \in Endpoints, Asked(e), e[3] \notin Misnamed
          PROVE  \/ AuthenticationFailed'
                 \/ req.token # (IF e[3] = "profile" THEN "service" ELSE "access")
      <4>1. e[3] = route.calls
        <5>1. e = Entry(mount, j)
          BY <1>1, <2>1, <2>2, <2>3, <3>3, AskedAtItsRoute
        <5> QED BY ONLY <2>2, <5>1, EntryIs
      <4> QED BY ONLY <3>1, <3>2, <4>1
    <3> QED BY <1>1, <2>1, <2>5, <3>3, NothingIsCalled
  <2> QED BY <1>12, <2>4, <2>5 DEF Authenticate, OptionalAuthenticate, ServiceAuth, Respond
<1>13. CASE Handler
  <2>1. step = "handler" /\ step' = "over" /\ req' = req /\ UNCHANGED <<mount, route>>
    BY <1>13 DEF Handler, Respond
  <2>2. PICK j \in 1 .. Len(Mounts[mount].router) :
          Serves(mount, j) /\ route = Mounts[mount].router[j]
    BY <2>1 DEF DispatchInv, OnItsWay
  <2>3. mount \in 1 .. 10
    BY <2>1 DEF DispatchInv, OnItsWay
  <2>4. ASSUME NEW e \in Endpoints, Asked(e), e[3] \notin Misnamed
        PROVE  e[3] = route.calls /\ ParsesIds(Mounts[mount], route, req.path)
    <3>1. e = Entry(mount, j) /\ ParsesIds(Mounts[mount], Mounts[mount].router[j], req.path)
      BY <1>1, <2>1, <2>2, <2>3, <2>4, AskedAtItsRoute
    <3> QED BY ONLY <2>2, <3>1, EntryIs
  <2>5. CASE ParsesIds(Mounts[mount], route, req.path) /\ Parses(route.schema, req.input)
    <3>1. called' = <<route.calls>>
      BY <1>1, <1>13, <2>1, <2>5 DEF Handler
    <3>2. Asked(Entry(mount, j)) /\ Entry(mount, j)[3] = route.calls
      BY <1>1, <2>1, <2>2, <2>3, <2>5, AskedIsServed, EntryIs
    <3>3. Entry(mount, j) \in Endpoints \/ route.calls \in Misnamed
      BY <2>2, <2>3, <3>2, RoutesAreEndpoints
    <3>4. \A e : Asked(e)' <=> Asked(e)
      BY <2>1 DEF Asked
    <3>5. EndpointsAreServed'
      BY <2>4, <3>1, <3>2, <3>3, <3>4 DEF EndpointsAreServed
    <3>6. OnItsWay'
      BY <1>1, <2>1 DEF OnItsWay
    <3> QED BY <3>5, <3>6 DEF DispatchInv
  <2>6. CASE ~(ParsesIds(Mounts[mount], route, req.path) /\ Parses(route.schema, req.input))
    <3>1. called' = <<>>
      BY <1>1, <1>13, <2>1, <2>6 DEF Handler
    <3>2. req.input = "full" => Parses(route.schema, req.input)
      BY DEF Parses
    <3> QED BY <1>1, <2>1, <2>4, <2>6, <3>1, <3>2, NothingIsCalled
  <2> QED BY <2>5, <2>6
<1>14. CASE PathFails
  <2>1. Malformed /\ step # "over" /\ step # "free" /\ step' = "over" /\ req' = req /\ called' = called
    BY <1>1, <1>14 DEF PathFails, DecodeThrows, Respond
  <2>2. \A e \in Endpoints : ~(Asked(e) /\ e[3] \notin Misnamed)
    BY <1>1, <2>1, AskedDecodes
  <2> QED BY <1>1, <2>1, <2>2, NothingIsCalled
<1> QED BY <1>4, <1>5, <1>6, <1>7, <1>8, <1>9, <1>10, <1>11, <1>12, <1>13, <1>14
        DEF GatewayNext

\* A request for a documented endpoint reaches its operation, through whichever of
\* the overlapping mounts, and no request calls another, for any request and any
\* order of limiters, middleware and errors (api/routes of CustomerManagement).
THEOREM RequestsReachTheirEndpoints == GatewaySpec => []EndpointsAreServed
<1>1. GatewayInit => DispatchInv
  BY DEF GatewayInit, DispatchInv, OnItsWay, EndpointsAreServed
<1>2. DispatchInv /\ [GatewayNext]_gatewayVars => DispatchInv'
  <2>1. ASSUME DispatchInv, UNCHANGED gatewayVars
        PROVE  DispatchInv'
    BY <2>1 DEF gatewayVars, DispatchInv, OnItsWay, EndpointsAreServed, Unserved, Serves,
                Asked, Brings, AuthenticationFailed
  <2> QED BY <2>1, DispatchSteps
<1>3. DispatchInv => EndpointsAreServed
  BY DEF DispatchInv
<1> QED BY <1>1, <1>2, <1>3, PTL DEF GatewaySpec

LEMMA RoutersAreLists ==
  ASSUME NEW i \in 1 .. 10
  PROVE  DOMAIN Mounts[i].router = 1 .. Len(Mounts[i].router)
<1>1. CASE i = 1
  <2>1. Mounts[1].router = CustomersRouter
    BY DEF Mounts, Mount
  <2>2. DOMAIN CustomersRouter = 1 .. Len(CustomersRouter)
    BY DEF CustomersRouter
  <2> QED BY <1>1, <2>1, <2>2
<1>2. CASE i = 2
  <2>1. Mounts[2].router = ContactsRouter
    BY DEF Mounts, Mount
  <2>2. DOMAIN ContactsRouter = 1 .. Len(ContactsRouter)
    BY DEF ContactsRouter
  <2> QED BY <1>2, <2>1, <2>2
<1>3. CASE i = 3
  <2>1. Mounts[3].router = BirthChartsRouter
    BY DEF Mounts, Mount
  <2>2. DOMAIN BirthChartsRouter = 1 .. Len(BirthChartsRouter)
    BY DEF BirthChartsRouter
  <2> QED BY <1>3, <2>1, <2>2
<1>4. CASE i = 4
  <2>1. Mounts[4].router = FinanceRouter
    BY DEF Mounts, Mount
  <2>2. DOMAIN FinanceRouter = 1 .. Len(FinanceRouter)
    BY DEF FinanceRouter
  <2> QED BY <1>4, <2>1, <2>2
<1>5. CASE i = 5
  <2>1. Mounts[5].router = ComplianceRouter
    BY DEF Mounts, Mount
  <2>2. DOMAIN ComplianceRouter = 1 .. Len(ComplianceRouter)
    BY DEF ComplianceRouter
  <2> QED BY <1>5, <2>1, <2>2
<1>6. CASE i = 6
  <2>1. Mounts[6].router = CustomerTagRouter
    BY DEF Mounts, Mount
  <2>2. DOMAIN CustomerTagRouter = 1 .. Len(CustomerTagRouter)
    BY DEF CustomerTagRouter
  <2> QED BY <1>6, <2>1, <2>2
<1>7. CASE i = 7
  <2>1. Mounts[7].router = AddressesRouter
    BY DEF Mounts, Mount
  <2>2. DOMAIN AddressesRouter = 1 .. Len(AddressesRouter)
    BY DEF AddressesRouter
  <2> QED BY <1>7, <2>1, <2>2
<1>8. CASE i = 8
  <2>1. Mounts[8].router = TagsRouter
    BY DEF Mounts, Mount
  <2>2. DOMAIN TagsRouter = 1 .. Len(TagsRouter)
    BY DEF TagsRouter
  <2> QED BY <1>8, <2>1, <2>2
<1>9. CASE i = 9
  <2>1. Mounts[9].router = SessionsRouter
    BY DEF Mounts, Mount
  <2>2. DOMAIN SessionsRouter = 1 .. Len(SessionsRouter)
    BY DEF SessionsRouter
  <2> QED BY <1>9, <2>1, <2>2
<1>10. CASE i = 10
  <2>1. Mounts[10].router = InternalRouter
    BY DEF Mounts, Mount
  <2>2. DOMAIN InternalRouter = 1 .. Len(InternalRouter)
    BY DEF InternalRouter
  <2> QED BY <1>10, <2>1, <2>2
<1> QED BY <1>1, <1>2, <1>3, <1>4, <1>5, <1>6, <1>7, <1>8, <1>9, <1>10

\* No route is taken before a router has found it.
GatewayTypes ==
  GatewayTypeOK /\ (step \notin {"auth", "handler", "over"} => route = NoRoute)

LEMMA GatewayTypesKept ==
  ASSUME GatewayTypes, GatewayInv, GatewayNext
  PROVE  GatewayTypes'
<1>1. GatewayInv'
  BY GatewaySteps
<1>2. counted' \in Seq({"api", "auth"}) /\ Len(called') <= 1
  <2>1. called' = <<>> => Len(called') <= 1
    OBVIOUS
  <2> QED BY <1>1, <2>1 DEF GatewayInv, Reached
<1>3. Len(Mounts) = 10
  BY MountsAreOK
<1> DEFINE RouteIs == \/ route = NoRoute
                      \/ mount \in 1 .. Len(Mounts) /\ route \in Range(Mounts[mount].router)
           Steps == {"free", "parse", "health", "checks", "mount", "router", "auth",
                     "handler", "over"}
<1>4. /\ req' \in Requests \union {NoRequest} /\ step' \in Steps
      /\ user' \in BOOLEAN /\ checks' \in [Checks -> {"idle", "running", "ok", "error"}]
      /\ mount' \in 0 .. Len(Mounts) + 1 /\ RouteIs'
      /\ step' \notin {"auth", "handler", "over"} => route' = NoRoute
  <2>1. CASE Arrive
    BY <2>1 DEF Arrive, GatewayTypes, GatewayTypeOK
  <2>2. CASE Parse
    BY <2>2 DEF Parse, Respond, GatewayTypes, GatewayTypeOK
  <2>3. CASE Health
    <3>1. step = "health" /\ route = NoRoute /\ UNCHANGED <<req, route, user>>
      BY <2>3 DEF Health, GatewayTypes
    <3>2. /\ mount' \in {mount, 1} /\ step' \in {"mount", "checks", "over"}
          /\ checks' \in {checks, [c \in Checks |-> "running"]}
      BY <2>3 DEF Health, Respond
    <3> QED BY <1>3, <3>1, <3>2 DEF GatewayTypes, GatewayTypeOK
  <2>4. CASE \E c \in Checks : CheckSettles(c)
    BY <2>4 DEF CheckSettles, GatewayTypes, GatewayTypeOK
  <2>5. CASE HealthEnds
    BY <2>5 DEF HealthEnds, Respond, GatewayTypes, GatewayTypeOK
  <2>6. CASE EnterMount
    <3>1. step = "mount" /\ mount \in 1 .. 11 /\ route = NoRoute /\ mount <= Len(Mounts)
      BY <1>3, <2>6 DEF EnterMount, GatewayTypes, GatewayInv, Reached
    <3>2. mount' \in {mount, mount + 1}
      BY <2>6 DEF EnterMount
    <3>3. mount' \in 0 .. Len(Mounts) + 1
      BY <1>3, <3>1, <3>2
    <3> QED BY <3>1, <3>3, <2>6 DEF EnterMount, Respond, GatewayTypes, GatewayTypeOK
  <2>7. CASE EnterRouter
    <3>1. step = "router" /\ mount \in 1 .. 10 /\ route = NoRoute
      BY <1>3, <2>7 DEF EnterRouter, GatewayTypes, GatewayInv, Reached
    <3>2. CASE Takes(Mounts[mount], req) = {}
      BY <1>3, <2>7, <3>1, <3>2 DEF EnterRouter, GatewayTypes, GatewayTypeOK
    <3>3. CASE Takes(Mounts[mount], req) # {}
      <4>1. PICK i \in Takes(Mounts[mount], req) : route' = Mounts[mount].router[i]
        BY <2>7, <3>3 DEF EnterRouter
      <4>2. i \in DOMAIN Mounts[mount].router
        BY <3>1, RoutersAreLists DEF Takes
      <4>3. route' \in Range(Mounts[mount].router)
        BY ONLY <4>1, <4>2 DEF Range
      <4> QED BY <1>3, <2>7, <3>1, <3>3, <4>3 DEF EnterRouter, GatewayTypes, GatewayTypeOK
    <3> QED BY <3>2, <3>3
  <2>8. CASE NotFoundHandler
    BY <2>8 DEF NotFoundHandler, Respond, GatewayTypes, GatewayTypeOK
  <2>9. CASE Authenticate \/ OptionalAuthenticate \/ ServiceAuth
    BY <2>9 DEF Authenticate, OptionalAuthenticate, ServiceAuth, Respond, GatewayTypes, GatewayTypeOK
  <2>10. CASE Handler
    BY <2>10 DEF Handler, Respond, GatewayTypes, GatewayTypeOK
  <2>11. CASE PathFails
    BY <2>11 DEF PathFails, Respond, GatewayTypes, GatewayTypeOK
  <2> QED BY <2>1, <2>2, <2>3, <2>4, <2>5, <2>6, <2>7, <2>8, <2>9, <2>10, <2>11 DEF GatewayNext
<1> QED BY <1>2, <1>4 DEF GatewayTypes, GatewayTypeOK

LEMMA GatewayTypeCorrect == GatewaySpec => []GatewayTypeOK
<1>1. GatewayInit => GatewayTypes /\ GatewayInv
  <2> SUFFICES ASSUME GatewayInit PROVE GatewayTypes /\ GatewayInv
    OBVIOUS
  <2>1. GatewayTypes
    <3>1. <<>> \in Seq({"api", "auth"}) /\ Len(<<>>) <= 1 /\ 0 \in 0 .. Len(Mounts) + 1
      BY MountsAreOK
    <3>2. checks \in [Checks -> {"idle", "running", "ok", "error"}]
      BY DEF GatewayInit
    <3>3. req = NoRequest /\ step = "free" /\ mount = 0 /\ route = NoRoute /\ user = FALSE
          /\ counted = <<>> /\ called = <<>>
      BY DEF GatewayInit
    <3> QED BY ONLY <3>1, <3>2, <3>3 DEF GatewayTypes, GatewayTypeOK
  <2>2. Reached
    BY DEF GatewayInit, Reached
  <2>3. AnswersTellTheOutcome
    BY DEF GatewayInit, AnswersTellTheOutcome
  <2> QED BY <2>1, <2>2, <2>3 DEF GatewayInv
<1>2. GatewayTypes /\ GatewayInv /\ [GatewayNext]_gatewayVars => (GatewayTypes /\ GatewayInv)'
  <2>1. ASSUME GatewayTypes, GatewayInv, UNCHANGED gatewayVars
        PROVE  (GatewayTypes /\ GatewayInv)'
    BY <2>1 DEF gatewayVars, GatewayTypes, GatewayTypeOK, GatewayInv, Reached,
                AnswersTellTheOutcome, AuthenticationFailed, Malformed
  <2> QED BY <2>1, GatewayTypesKept, GatewaySteps
<1>3. GatewayTypes => GatewayTypeOK
  BY DEF GatewayTypes
<1> QED BY <1>1, <1>2, <1>3, PTL DEF GatewaySpec

=============================================================================
