----------------------------- MODULE MCServices -----------------------------
(***************************************************************************)
(* Small instances of Sessions, RateLimit, Addresses, ReadingFlow and      *)
(* CardDeck for TLC.  They share no state: a behaviour runs one of them    *)
(* and leaves the others in their initial states.                          *)
(***************************************************************************)
EXTENDS Sessions, RateLimit, Addresses, ReadingFlow, CardDeck, TLC

CONSTANTS s1, s2, u1, r1, r2, a1, a2, a3

TwoSessions == {s1, s2}
OneUser == {u1}
SameOwner == [s \in SessionIds |-> u1]
TwoRequests == {r1, r2}
ThreeAddresses == {a1, a2, a3}

VARIABLE component

vars == <<sessionVars, limitVars, addressVars, readingVars, deckVars,
          component>>

Init ==
  /\ SessionsInit
  /\ RateLimitInit
  /\ AddressesInit
  /\ ReadingInit
  /\ DeckInit
  /\ component \in {"sessions", "limiter", "addresses", "reading", "deck"}
  /\ component # "limiter" => limiter = "customer"
  /\ component # "deck" => seeded = FALSE

Next ==
  \/ /\ component = "sessions" /\ SessionsNext
     /\ UNCHANGED <<limitVars, addressVars, readingVars, deckVars, component>>
  \/ /\ component = "limiter" /\ RateLimitNext
     /\ UNCHANGED <<sessionVars, addressVars, readingVars, deckVars, component>>
  \/ /\ component = "addresses" /\ AddressesNext
     /\ UNCHANGED <<sessionVars, limitVars, readingVars, deckVars, component>>
  \/ /\ component = "reading" /\ ReadingNext
     /\ UNCHANGED <<sessionVars, limitVars, addressVars, deckVars, component>>
  \/ /\ component = "deck" /\ DeckNext
     /\ UNCHANGED <<sessionVars, limitVars, addressVars, readingVars, component>>

Spec == Init /\ [][Next]_vars

FairSpec ==
  Spec /\ SessionsFairness /\ RateLimitFairness /\ ReadingFairness

\* The variables of every component have their types.
ServicesTypeOK ==
  /\ SessionsTypeOK
  /\ RateLimitTypeOK
  /\ AddressesTypeOK
  /\ ReadingTypeOK
  /\ DeckTypeOK

\* What has a time to live goes when nothing renews it: the presence of a silent
\* user, and the window of the limiter that sets its expiry once.
KeysExpire == SilentUsersGoOffline /\ WindowEnds
=============================================================================
