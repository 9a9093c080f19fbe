----------------------------- MODULE RateLimit -----------------------------
(***************************************************************************)
(* The rate limiters: one Redis counter per client, incremented by each    *)
(* request and given its expiry by a second call (cache.incr and           *)
(* createRateLimiter, of CustomerManagement and of TarotReading's backend, *)
(* which differ in when they set the expiry).  Time passes in ticks, which *)
(* are long against a call to Redis.                                       *)
(***************************************************************************)
EXTENDS Naturals, Sequences, FiniteSets

CONSTANTS
  Slots,           \* the requests of one client that may run at the same time
  MaxRequests,     \* the requests a client may make in a window
  Window,          \* the length of a window, in ticks
  MaxCount,        \* bound: where the counter saturates; above MaxRequests
                   \* all its values are alike
  MaxCounterErrors \* bound: how often a Redis call may throw

ASSUME RateLimitAssumption ==
  /\ MaxRequests \in Nat
  /\ Window \in Nat \ {0}
  /\ MaxCount \in Nat /\ MaxCount > MaxRequests
  /\ MaxCounterErrors \in Nat

VARIABLES
  limiter,       \* whose code it is: "customer" or "tarot"
  count,         \* the counter, 0 if there is no key
  ttl,           \* the ticks until the key expires, 0 if it has no expiry
  request,       \* where the request of each slot is
  drawn,         \* the value INCR returned to it
  counterErrors, \* history: the calls that threw
  ages,          \* history: how many ticks ago each INCR of the last Window
                 \* ticks was applied: one for each request, and one more for
                 \* each that was sent again because its answer was lost
  crowd,         \* history: how many there were when a slot's INCR was answered
  orphaned       \* history: nobody is left to make the EXPIRE this key needs:
                 \* it threw, the answer of the INCR before it was lost, or the
                 \* server stopped in between

limitVars == <<limiter, count, ttl, request, drawn, counterErrors, ages, crowd,
               orphaned>>

RateLimitTypeOK ==
  /\ limiter \in {"customer", "tarot"}
  /\ count \in 0 .. MaxCount
  /\ ttl \in 0 .. Window
  /\ request \in [Slots -> {"none", "expire", "check", "admitted", "refused"}]
  /\ drawn \in [Slots -> 0 .. MaxCount]
  /\ counterErrors \in 0 .. MaxCounterErrors
  /\ ages \in Seq(0 .. Window - 1) /\ Len(ages) <= MaxCount
  /\ crowd \in [Slots -> 0 .. MaxCount]
  /\ orphaned \in BOOLEAN

RateLimitInit ==
  /\ limiter \in {"customer", "tarot"}
  /\ count = 0
  /\ ttl = 0
  /\ request = [r \in Slots |-> "none"]
  /\ drawn = [r \in Slots |-> 0]
  /\ counterErrors = 0
  /\ ages = <<>>
  /\ crowd = [r \in Slots |-> 0]
  /\ orphaned = FALSE

Saturated(n) == IF n > MaxCount THEN MaxCount ELSE n

\* mutant: the expiry is set when the limit is reached.
ExpireAtLimit(value) == value = MaxRequests

\* mutant: every request sets the expiry.
ExpireEach(value) == TRUE

\* CustomerManagement sets the expiry when it starts the counter,
ExpireFirst(value) == value = 1

\* TarotReading whenever it increments it.
ExpireAlways(value) == TRUE

SetsExpiry(value) ==
  \/ limiter = "customer" /\ ExpireFirst(value)
  \/ limiter = "tarot" /\ ExpireAlways(value)

\* INCR is applied.
Counted ==
  /\ count' = Saturated(count + 1)
  /\ ages' = SubSeq(<<0>> \o ages, 1, Saturated(Len(ages) + 1))

Incr(r) ==
  /\ request[r] = "none"
  /\ Counted
  /\ drawn' = [drawn EXCEPT ![r] = count']
  /\ request' =
       [request EXCEPT ![r] = IF SetsExpiry(count') THEN "expire" ELSE "check"]
  /\ crowd' = [crowd EXCEPT ![r] = Len(ages')]
  /\ UNCHANGED <<limiter, ttl, counterErrors, orphaned>>

\* EXPIRE starts the window, or starts it again; a key that has gone it leaves
\* alone.
Expire(r) ==
  /\ request[r] = "expire"
  /\ request' = [request EXCEPT ![r] = "check"]
  /\ \/ count > 0 /\ ttl' = Window /\ orphaned' = FALSE
     \/ count = 0 /\ UNCHANGED <<ttl, orphaned>>
  /\ UNCHANGED <<limiter, count, drawn, counterErrors, ages, crowd>>

Trouble ==
  /\ counterErrors < MaxCounterErrors
  /\ counterErrors' = counterErrors + 1

\* The answer of an INCR that was applied is lost.  The client of Redis sends
\* it again, or gives up in IncrThrows.
IncrUnanswered(r) ==
  /\ request[r] = "none"
  /\ Trouble
  /\ Counted
  /\ orphaned' = (orphaned \/ count = 0)
  /\ UNCHANGED <<limiter, ttl, request, drawn, crowd>>

\* A call throws: the limiter lets the request through.
IncrThrows(r) ==
  /\ request[r] = "none"
  /\ Trouble
  /\ request' = [request EXCEPT ![r] = "admitted"]
  /\ UNCHANGED <<limiter, count, ttl, drawn, ages, crowd, orphaned>>

ExpireThrows(r) ==
  /\ request[r] = "expire"
  /\ Trouble
  /\ request' = [request EXCEPT ![r] = "admitted"]
  /\ orphaned' = (orphaned \/ ttl = 0)
  /\ UNCHANGED <<limiter, count, ttl, drawn, ages, crowd>>

\* The server stops; the counters are in Redis and stay.
Stop ==
  /\ Trouble
  /\ request' = [r \in Slots |-> "none"]
  /\ drawn' = [r \in Slots |-> 0]
  /\ crowd' = [r \in Slots |-> 0]
  /\ orphaned' = (orphaned \/ (ttl = 0 /\ \E r \in Slots : request[r] = "expire"))
  /\ UNCHANGED <<limiter, count, ttl, ages>>

OverLimit(value) == value > MaxRequests

Check(r) ==
  /\ request[r] = "check"
  /\ request' = [request EXCEPT ![r] =
                   IF OverLimit(drawn[r]) THEN "refused" ELSE "admitted"]
  /\ UNCHANGED <<limiter, count, ttl, drawn, counterErrors, ages, crowd,
                 orphaned>>

\* The client may make another request.
Answered(r) ==
  /\ request[r] \in {"admitted", "refused"}
  /\ request' = [request EXCEPT ![r] = "none"]
  /\ drawn' = [drawn EXCEPT ![r] = 0]
  /\ crowd' = [crowd EXCEPT ![r] = 0]
  /\ UNCHANGED <<limiter, count, ttl, counterErrors, ages, orphaned>>

\* Time passes, but not between INCR and the EXPIRE that follows it at once;
\* the key expires when its time is over.
Tick ==
  /\ \A r \in Slots : request[r] # "expire"
  /\ ttl' = IF ttl = 0 THEN 0 ELSE ttl - 1
  /\ count' = IF ttl = 1 THEN 0 ELSE count
  /\ ages' = [i \in {j \in DOMAIN ages : ages[j] < Window - 1} |-> ages[i] + 1]
  /\ UNCHANGED <<limiter, request, drawn, counterErrors, crowd, orphaned>>

-----------------------------------------------------------------------------
RateLimitNext ==
  \/ \E r \in Slots : \/ Incr(r)
                      \/ Expire(r)
                      \/ IncrUnanswered(r)
                      \/ IncrThrows(r)
                      \/ ExpireThrows(r)
                      \/ Check(r)
                      \/ Answered(r)
  \/ Stop
  \/ Tick

RateLimitSpec == RateLimitInit /\ [][RateLimitNext]_limitVars

\* Fairness: requests are served, and time passes.  Nobody has to make one.
RateLimitFairness ==
  /\ \A r \in Slots : WF_limitVars(Expire(r) \/ Check(r) \/ Answered(r))
  /\ WF_limitVars(Tick)

-----------------------------------------------------------------------------
(***************************************************************************)
(* Properties                                                              *)
(***************************************************************************)

\* The counter never stays without an expiry, which would refuse its client
\* for ever, unless whoever was to set it has been lost: the EXPIRE threw, the
\* answer of the first INCR did not come, or the server stopped between the two.
\* Otherwise somebody is on the way to set it.
CounterExpires ==
  count > 0 /\ ttl = 0 =>
    orphaned \/ \E r \in Slots : request[r] = "expire"

\* A request is refused only if its client's requests were counted more than
\* MaxRequests times in the last Window, unless the counter was left without
\* an expiry.
RefusedFairly ==
  \A r \in Slots :
    request[r] = "refused" => crowd[r] > MaxRequests \/ orphaned

\* The same, for the limiter that sets the expiry once.
CustomerRefusedFairly == limiter = "customer" => RefusedFairly

\* The window of that limiter ends whatever its client goes on sending.
WindowEnds == limiter = "customer" => []<>(count = 0 \/ orphaned)

\* The limiter refuses nobody without cause: its counter does not stay for ever.
LimiterIsFair == CounterExpires /\ CustomerRefusedFairly

\* What the code says of its errors ("Rate limiting error - failing open"): one
\* that Redis makes lets requests through and refuses none.
FailsOpen ==
  limiter = "customer" =>
    \A r \in Slots : request[r] = "refused" => crowd[r] > MaxRequests
=============================================================================
