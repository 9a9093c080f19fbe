---------------------------- MODULE ServiceTokens ----------------------------
(***************************************************************************)
(* The tokens one service shows another                                    *)
(* (packages/shared/src/services/service-auth.ts): signed with a shared    *)
(* secret, stamped with the clock of the service that makes them, and      *)
(* checked against the clock of the one that gets them.                    *)
(***************************************************************************)
EXTENDS Integers, FiniteSets

CONSTANTS
  Services,
  TtlSeconds,  \* how long a token is good
  MaxSkew,     \* how far the clock of a service may be ahead
  MaxSeconds,  \* bound: the seconds that pass
  MaxTokens    \* bound: the tokens that are made

ASSUME ServiceTokensAssumption ==
  {TtlSeconds, MaxSkew, MaxSeconds, MaxTokens} \subseteq Nat

Secrets == {"shared", "another"}

VARIABLES
  seconds,   \* the time
  ahead,     \* how far each clock is ahead of it
  secret,    \* the secret each service was started with
  made,      \* the tokens made so far; born is history: the time they were made
  asked,     \* who is asked
  header,    \* X-Service-Auth of the request: no token, or one
  outcome    \* "none", "asked", "missing", "invalid" or "let in"

tokenVars == <<seconds, ahead, secret, made, asked, header, outcome>>

Tokens ==
  [service : Services, timestamp : Nat, signedWith : Secrets \union {"nothing"},
   born : Nat]

\* A header that is no token of anybody: not base64, not JSON, or forged.
Forged == [s \in Services |->
             [service |-> s, timestamp |-> MaxSeconds, signedWith |-> "nothing",
              born |-> 0]]

ServiceTokensTypeOK ==
  /\ seconds \in 0 .. MaxSeconds
  /\ ahead \in [Services -> 0 .. MaxSkew]
  /\ secret \in [Services -> Secrets]
  /\ made \subseteq Tokens /\ header \subseteq Tokens
  /\ asked \in Services
  /\ outcome \in {"none", "asked", "missing", "invalid", "let in"}

ServiceTokensInit ==
  /\ seconds = 0
  /\ ahead \in [Services -> 0 .. MaxSkew]
  /\ secret \in [Services -> Secrets]
  /\ made = {} /\ header = {} /\ asked \in Services /\ outcome = "none"

Clock(s) == seconds + ahead[s]

GenerateToken(s) ==
  /\ Cardinality(made) < MaxTokens
  /\ made' = made \union {[service |-> s, timestamp |-> Clock(s),
                           signedWith |-> secret[s], born |-> seconds]}
  /\ UNCHANGED <<seconds, ahead, secret, asked, header, outcome>>

\* A caller shows a token it has made or seen, any number of times, or none.
CallService(s) ==
  /\ outcome # "asked"
  /\ asked' = s /\ outcome' = "asked"
  /\ header' \in {{}} \union {{t} : t \in made \union {Forged[s]}}
  /\ UNCHANGED <<seconds, ahead, secret, made>>

TokenExpired(s, t) == Clock(s) - t.timestamp > TtlSeconds

VerifyToken(s, t) == ~TokenExpired(s, t) /\ t.signedWith = secret[s]

CheckHeader ==
  /\ outcome = "asked"
  /\ outcome' = IF header = {} THEN "missing"
                ELSE IF \A t \in header : VerifyToken(asked, t) THEN "let in"
                ELSE "invalid"
  /\ UNCHANGED <<seconds, ahead, secret, made, asked, header>>

SecondPasses ==
  /\ seconds < MaxSeconds
  /\ seconds' = seconds + 1
  \* What was decided was decided at the time before.
  /\ outcome' = IF outcome = "asked" THEN "asked" ELSE "none"
  /\ UNCHANGED <<ahead, secret, made, asked, header>>

ServiceTokensNext ==
  \/ \E s \in Services : GenerateToken(s) \/ CallService(s)
  \/ CheckHeader
  \/ SecondPasses

ServiceTokensSpec == ServiceTokensInit /\ [][ServiceTokensNext]_tokenVars

-----------------------------------------------------------------------------
\* A service lets in only tokens that a service with its secret has made, no
\* longer ago than the ttl and the difference of their clocks, however often they
\* are shown; and it refuses such a token only when it is older than the ttl less
\* that difference.  A clock that is ahead makes its tokens last longer and those
\* of the others shorter.
TokensLastTheirTime ==
  \A t \in header :
    /\ outcome = "let in" =>
         /\ t \in made /\ secret[t.service] = secret[asked]
         /\ seconds - t.born <= TtlSeconds + MaxSkew
    /\ outcome = "invalid" =>
         \/ t \notin made \/ secret[t.service] # secret[asked]
         \/ seconds - t.born > TtlSeconds - MaxSkew
=============================================================================
