--------------------------- MODULE CustomerProofs ---------------------------
(*****************************************************************************)
(* Proofs about the sessions, the rate limiters and the addresses of         *)
(* CustomerManagement, for any users, clients, limits and windows, and for   *)
(* every interleaving and failure of their calls.                            *)
(*****************************************************************************)
EXTENDS Sessions, RateLimit, Addresses, FiniteSetTheorems, SequenceTheorems,
        WellFoundedInduction, TLAPS

-----------------------------------------------------------------------------
(***************************************************************************)
(* The sessions.                                                           *)
(***************************************************************************)

\* A session is in its set from its login to its logout, which deletes its key
\* first: a key that is there afterwards was brought back.  A session in a set is
\* alive or has run out, but for the logout on its way and for one that threw.
IndexOK ==
  \A s \in SessionIds :
    /\ logout[s] # "idle" => login[s] = "done"
    /\ login[s] \in {"presence", "online"} => s \in index
    /\ login[s] = "done" /\ s \in stored /\ s \notin revived => s \in index
    /\ logout[s] = "srem" => s \notin stored \/ s \in revived
    /\ login[s] = "index" => s \in stored \union expired
    /\ s \in index =>
         s \in stored \union expired \/ logout[s] = "srem" \/ Owner[s] \in broken

\* Somebody is to clear each entry of a user: as long as one is in a set it is
\* the logout to come, else one that has yet to count, or to clear.
ClearedBy(u, places) ==
  \E s \in SessionsOf(u) : s \in index \/ logout[s] \in places

OfflineOK ==
  /\ beating \subseteq late
  /\ \A u \in Users : u \notin broken \union late =>
       /\ u \in present => ClearedBy(u, {"scard", "clear"})
       /\ u \in online => ClearedBy(u, {"scard", "clear", "zrem"})

\* A logout that is about to clear the presence has seen the set empty, and it
\* still is, unless the history says otherwise.
PresenceOK ==
  /\ \A s \in SessionIds : logout[s] = "clear" /\ s \notin uncounted =>
       SessionsOf(Owner[s]) \intersect index = {}
  /\ \A s \in SessionIds : login[s] \in {"online", "done"} /\ s \in index =>
       Owner[s] \in present \union lapsed \union broken

SessionsInv == SessionsTypeOK /\ IndexOK /\ OfflineOK /\ PresenceOK

\* All that can happen, one action at a time.
LEMMA SessionSteps ==
  ASSUME SessionsNext
  PROVE  \/ \E s \in SessionIds :
              \/ StoreSession(s) \/ IndexSession(s) \/ LoginPresence(s)
              \/ LoginOnline(s) \/ FindSession(s) \/ DeleteSession(s)
              \/ UnindexSession(s) \/ CountSessions(s) \/ ClearPresence(s)
              \/ ClearOnline(s) \/ GetSession(s) \/ RefreshSession(s)
              \/ ExpireSession(s) \/ LoginThrows(s) \/ LogoutThrows(s)
         \/ \E u \in Users :
              \/ Heartbeat(u) \/ HeartbeatOnline(u) \/ HeartbeatThrows(u)
              \/ ExpirePresence(u) \/ ForgetOnline(u)
BY DEF SessionsNext, Login, Logout

LEMMA SessionTypesKept ==
  ASSUME SessionsTypeOK, SessionsNext
  PROVE  SessionsTypeOK'
<1> USE SessionsAssumption
    DEF SessionsAssumption, SessionsTypeOK, redisKeys, calls, sessionHistory,
        LoginAt, LogoutAt, SetPresence, Throws
<1>1. ASSUME NEW s \in SessionIds,
             StoreSession(s) \/ IndexSession(s) \/ LoginPresence(s)
             \/ LoginOnline(s) \/ LoginThrows(s)
      PROVE  SessionsTypeOK'
  BY <1>1 DEF StoreSession, IndexSession, CountedWithout, SessionsOf,
              LoginPresence, LoginOnline, LoginThrows
<1>2. ASSUME NEW s \in SessionIds,
             FindSession(s) \/ DeleteSession(s) \/ UnindexSession(s)
             \/ CountSessions(s) \/ ClearOnline(s) \/ LogoutThrows(s)
      PROVE  SessionsTypeOK'
  BY <1>2 DEF FindSession, DeleteSession, UnindexSession, CountSessions,
              ClearOnline, LogoutThrows
<1>3. ASSUME NEW s \in SessionIds, ClearPresence(s)
      PROVE  SessionsTypeOK'
  BY <1>3 DEF ClearPresence
<1>4. ASSUME NEW s \in SessionIds,
             GetSession(s) \/ RefreshSession(s) \/ ExpireSession(s)
      PROVE  SessionsTypeOK'
  BY <1>4 DEF GetSession, RefreshSession, ExpireSession
<1>5. ASSUME NEW u \in Users,
             Heartbeat(u) \/ HeartbeatOnline(u) \/ HeartbeatThrows(u)
             \/ ExpirePresence(u) \/ ForgetOnline(u)
      PROVE  SessionsTypeOK'
  BY <1>5 DEF Heartbeat, HeartbeatOnline, HeartbeatThrows, ExpirePresence,
              ForgetOnline
<1> QED BY <1>1, <1>2, <1>3, <1>4, <1>5, SessionSteps

LEMMA IndexKept ==
  ASSUME SessionsTypeOK, IndexOK, SessionsNext
  PROVE  IndexOK'
<1> USE SessionsAssumption
    DEF SessionsAssumption, SessionsTypeOK, IndexOK, redisKeys, sessionHistory,
        LoginAt, LogoutAt
<1>1. ASSUME NEW s \in SessionIds, StoreSession(s)
      PROVE  IndexOK'
  BY <1>1 DEF StoreSession
<1>2. ASSUME NEW s \in SessionIds, IndexSession(s)
      PROVE  IndexOK'
  BY <1>2 DEF IndexSession
<1>3. ASSUME NEW s \in SessionIds, LoginPresence(s)
      PROVE  IndexOK'
  BY <1>3 DEF LoginPresence
<1>4. ASSUME NEW s \in SessionIds, LoginOnline(s)
      PROVE  IndexOK'
  BY <1>4 DEF LoginOnline
<1>5. ASSUME NEW s \in SessionIds, FindSession(s)
      PROVE  IndexOK'
  BY <1>5 DEF FindSession
<1>6. ASSUME NEW s \in SessionIds, DeleteSession(s)
      PROVE  IndexOK'
  BY <1>6 DEF DeleteSession
<1>7. ASSUME NEW s \in SessionIds, UnindexSession(s)
      PROVE  IndexOK'
  BY <1>7 DEF UnindexSession
<1>8. ASSUME NEW s \in SessionIds,
             CountSessions(s) \/ ClearPresence(s) \/ ClearOnline(s)
      PROVE  IndexOK'
  BY <1>8 DEF CountSessions, ClearPresence, ClearOnline
<1>9. ASSUME NEW s \in SessionIds, GetSession(s) \/ ExpireSession(s)
      PROVE  IndexOK'
  BY <1>9 DEF GetSession, ExpireSession, calls
<1>10. ASSUME NEW s \in SessionIds, RefreshSession(s)
       PROVE  IndexOK'
  BY <1>10 DEF RefreshSession
<1>11. ASSUME NEW s \in SessionIds, LoginThrows(s) \/ LogoutThrows(s)
       PROVE  IndexOK'
  BY <1>11 DEF LoginThrows, LogoutThrows, Throws
<1>12. ASSUME NEW u \in Users,
              Heartbeat(u) \/ HeartbeatOnline(u) \/ HeartbeatThrows(u)
              \/ ExpirePresence(u) \/ ForgetOnline(u)
       PROVE  IndexOK'
  BY <1>12 DEF Heartbeat, HeartbeatOnline, HeartbeatThrows, ExpirePresence,
               ForgetOnline, Throws, calls
<1> QED
  BY <1>1, <1>2, <1>3, <1>4, <1>5, <1>6, <1>7, <1>8, <1>9, <1>10, <1>11, <1>12,
     SessionSteps

LEMMA OfflineKept ==
  ASSUME SessionsTypeOK, IndexOK, OfflineOK, SessionsNext
  PROVE  OfflineOK'
<1> USE SessionsAssumption
    DEF SessionsAssumption, SessionsTypeOK, OfflineOK, ClearedBy, SessionsOf,
        redisKeys, sessionHistory, LoginAt, LogoutAt
<1>1. ASSUME NEW s \in SessionIds, StoreSession(s) \/ IndexSession(s)
      PROVE  OfflineOK'
  BY <1>1 DEF StoreSession, IndexSession
<1>2. ASSUME NEW s \in SessionIds, LoginPresence(s) \/ LoginOnline(s)
      PROVE  OfflineOK'
  <2>1. s \in index
    BY <1>2 DEF LoginPresence, LoginOnline, IndexOK
  <2> QED BY <1>2, <2>1 DEF LoginPresence, LoginOnline, SetPresence
<1>3. ASSUME NEW s \in SessionIds, FindSession(s) \/ DeleteSession(s)
      PROVE  OfflineOK'
  BY <1>3 DEF FindSession, DeleteSession
<1>4. ASSUME NEW s \in SessionIds, UnindexSession(s)
      PROVE  OfflineOK'
  BY <1>4 DEF UnindexSession
<1>5. ASSUME NEW s \in SessionIds, CountSessions(s)
      PROVE  OfflineOK'
  BY <1>5 DEF CountSessions
<1>6. ASSUME NEW s \in SessionIds, ClearPresence(s)
      PROVE  OfflineOK'
  BY <1>6 DEF ClearPresence
<1>7. ASSUME NEW s \in SessionIds, ClearOnline(s)
      PROVE  OfflineOK'
  BY <1>7 DEF ClearOnline
<1>8. ASSUME NEW s \in SessionIds,
             GetSession(s) \/ RefreshSession(s) \/ ExpireSession(s)
      PROVE  OfflineOK'
  BY <1>8 DEF GetSession, RefreshSession, ExpireSession, calls
<1>9. ASSUME NEW s \in SessionIds, LoginThrows(s) \/ LogoutThrows(s)
      PROVE  OfflineOK'
  BY <1>9 DEF LoginThrows, LogoutThrows, Throws
<1>10. ASSUME NEW u \in Users, Heartbeat(u) \/ HeartbeatOnline(u)
       PROVE  OfflineOK'
  BY <1>10 DEF Heartbeat, HeartbeatOnline, SetPresence
<1>11. ASSUME NEW u \in Users,
              HeartbeatThrows(u) \/ ExpirePresence(u) \/ ForgetOnline(u)
       PROVE  OfflineOK'
  BY <1>11 DEF HeartbeatThrows, ExpirePresence, ForgetOnline, Throws, calls
<1> QED
  BY <1>1, <1>2, <1>3, <1>4, <1>5, <1>6, <1>7, <1>8, <1>9, <1>10, <1>11,
     SessionSteps

LEMMA PresenceKept ==
  ASSUME SessionsTypeOK, IndexOK, PresenceOK, SessionsNext
  PROVE  PresenceOK'
<1> USE SessionsAssumption
    DEF SessionsAssumption, SessionsTypeOK, PresenceOK, SessionsOf,
        redisKeys, sessionHistory, LoginAt, LogoutAt
<1>1. ASSUME NEW s \in SessionIds, StoreSession(s)
      PROVE  PresenceOK'
  BY <1>1 DEF StoreSession
<1>2. ASSUME NEW s \in SessionIds, IndexSession(s)
      PROVE  PresenceOK'
  BY <1>2 DEF IndexSession, CountedWithout
<1>3. ASSUME NEW s \in SessionIds, LoginPresence(s) \/ LoginOnline(s)
      PROVE  PresenceOK'
  BY <1>3 DEF LoginPresence, LoginOnline, SetPresence
<1>4. ASSUME NEW s \in SessionIds,
             FindSession(s) \/ DeleteSession(s) \/ UnindexSession(s)
             \/ ClearOnline(s)
      PROVE  PresenceOK'
  BY <1>4 DEF FindSession, DeleteSession, UnindexSession, ClearOnline
<1>5. ASSUME NEW s \in SessionIds, CountSessions(s)
      PROVE  PresenceOK'
  BY <1>5 DEF CountSessions
<1>6. ASSUME NEW s \in SessionIds, ClearPresence(s)
      PROVE  PresenceOK'
  BY <1>6 DEF ClearPresence
<1>7. ASSUME NEW s \in SessionIds,
             GetSession(s) \/ RefreshSession(s) \/ ExpireSession(s)
      PROVE  PresenceOK'
  BY <1>7 DEF GetSession, RefreshSession, ExpireSession, calls
<1>8. ASSUME NEW s \in SessionIds, LoginThrows(s) \/ LogoutThrows(s)
      PROVE  PresenceOK'
  BY <1>8 DEF LoginThrows, LogoutThrows, Throws
<1>9. ASSUME NEW u \in Users,
             Heartbeat(u) \/ HeartbeatOnline(u) \/ HeartbeatThrows(u)
             \/ ExpirePresence(u) \/ ForgetOnline(u)
      PROVE  PresenceOK'
  BY <1>9 DEF Heartbeat, HeartbeatOnline, HeartbeatThrows, ExpirePresence,
              ForgetOnline, SetPresence, Throws, calls
<1> QED
  BY <1>1, <1>2, <1>3, <1>4, <1>5, <1>6, <1>7, <1>8, <1>9, SessionSteps

LEMMA SessionsInvariant == SessionsSpec => []SessionsInv
<1>1. SessionsInit => SessionsInv
  <2> SUFFICES ASSUME SessionsInit
               PROVE  SessionsInv
    OBVIOUS
  <2>1. SessionsTypeOK
    BY SessionsAssumption DEF SessionsAssumption, SessionsInit, SessionsTypeOK
  <2>2. IndexOK /\ OfflineOK /\ PresenceOK
    BY DEF SessionsInit, IndexOK, OfflineOK, PresenceOK
  <2> QED BY <2>1, <2>2 DEF SessionsInv
<1>2. SessionsInv /\ [SessionsNext]_sessionVars => SessionsInv'
  <2>1. SessionsInv /\ SessionsNext => SessionsInv'
    BY SessionTypesKept, IndexKept, OfflineKept, PresenceKept DEF SessionsInv
  <2>2. SessionsInv /\ UNCHANGED sessionVars => SessionsInv'
    BY DEF SessionsInv, SessionsTypeOK, IndexOK, OfflineOK, PresenceOK,
           ClearedBy, sessionVars, redisKeys, calls, sessionHistory
  <2> QED BY <2>1, <2>2
<1> QED BY <1>1, <1>2, PTL DEF SessionsSpec

\* The keys of the sessions, the users' sets and both records of who is online
\* agree, but for the causes the property names, for any number of users and
\* sessions and any interleaving of their Redis calls.
THEOREM SessionsAlwaysAgree == SessionsSpec => []SessionsAgree
<1>1. SessionsInv => SessionsAgree
  <2> SUFFICES ASSUME SessionsInv
               PROVE  SessionsAgree
    OBVIOUS
  <2>1. SessionsAreIndexed
    BY DEF SessionsInv, IndexOK, SessionsAreIndexed
  <2>2. OfflineAfterLastLogout
    <3> SUFFICES ASSUME NEW u \in Users, Logged(u),
                        SessionsOf(u) \intersect stored = {},
                        u \in present \union online, u \notin broken \union late
                 PROVE  SessionsOf(u) \intersect index \intersect expired # {}
      BY DEF OfflineAfterLastLogout
    <3>1. PICK s \in SessionsOf(u) : s \in index
      BY DEF SessionsInv, OfflineOK, ClearedBy, Logged
    <3>2. s \in expired
      BY <3>1 DEF SessionsInv, IndexOK, Logged, SessionsOf
    <3> QED BY <3>1, <3>2
  <2>3. PresentWhileLoggedIn
    BY DEF SessionsInv, PresenceOK, SessionsOf, PresentWhileLoggedIn
  <2> QED BY <2>1, <2>2, <2>3 DEF SessionsAgree
<1> QED BY <1>1, SessionsInvariant, PTL

-----------------------------------------------------------------------------
(***************************************************************************)
(* The rate limiters.                                                      *)
(***************************************************************************)

\* The requests are remembered from the youngest to the oldest.
AgesSorted == \A i, j \in DOMAIN ages : i <= j => ages[i] <= ages[j]

\* How long the window has been open.
Elapsed == IF ttl = 0 THEN 0 ELSE Window - ttl

\* The requests on their way to set the expiry.
Expiring == {r \in Slots : request[r] = "expire"}

\* Every request counted was made in the last n ticks.
Covered(n) ==
  count <= Len(ages) /\ \A i \in 1 .. count : ages[i] <= n

\* The limiter that sets the expiry once counts the requests of its window; when
\* one is on its way to open the window, those of this very tick.
WindowOK ==
  limiter = "customer" =>
    /\ Expiring # {} => count > 0 /\ Covered(0)
    /\ ~orphaned => Covered(Elapsed)

\* One request at a time opens a window, and a counter without one keeps its
\* value for ever (a counter that saturates at 1 tells nothing apart).
OpenerOK ==
  limiter = "customer" /\ MaxCount > 1 =>
    /\ \A r, s \in Expiring : r = s
    /\ orphaned => ttl = 0 /\ count > 0 /\ Expiring = {}

\* What a request has drawn is the crowd it came in, or more for an orphan.
DrawnOK ==
  limiter = "customer" =>
    \A r \in Slots :
      /\ request[r] = "refused" => OverLimit(drawn[r])
      /\ drawn[r] > 0 => crowd[r] > 0
      /\ OverLimit(drawn[r]) => crowd[r] > MaxRequests \/ orphaned

\* Only a counter expires.
TtlOK == ttl > 0 => count > 0

LimiterInv ==
  /\ RateLimitTypeOK
  /\ TtlOK
  /\ AgesSorted
  /\ CounterExpires
  /\ WindowOK
  /\ OpenerOK
  /\ DrawnOK

\* The requests of the last ticks are a prefix of the requests.
LEMMA YoungestFirst ==
  ASSUME RateLimitTypeOK, AgesSorted
  PROVE  \E n \in 0 .. Len(ages) :
           {j \in DOMAIN ages : ages[j] < Window - 1} = 1 .. n
<1>1. /\ ages \in Seq(0 .. Window - 1) /\ Len(ages) \in Nat /\ Window \in Nat
      /\ DOMAIN ages = 1 .. Len(ages)
      /\ \A i \in DOMAIN ages : ages[i] \in Nat
  BY RateLimitAssumption DEF RateLimitTypeOK, RateLimitAssumption
<1> DEFINE T == {j \in 1 .. Len(ages) + 1 :
                   j = Len(ages) + 1 \/ ages[j] >= Window - 1}
<1>2. T \subseteq Nat /\ T # {}
  BY <1>1
<1>3. PICK m \in T : \A j \in T : ~(<<j, m>> \in OpToRel(<, Nat))
  BY <1>2, NatLessThanWellFounded, WFMin
<1>4. \A j \in T : ~(j < m)
  BY <1>2, <1>3 DEF OpToRel
<1>5. /\ m \in 1 .. Len(ages) + 1
      /\ m = Len(ages) + 1 \/ ages[m] >= Window - 1
  BY <1>1
<1>6. \A j \in DOMAIN ages : ages[j] < Window - 1 <=> j < m
  <2> TAKE j \in DOMAIN ages
  <2>1. CASE j < m
    BY <1>1, <1>4, <2>1
  <2>2. CASE j >= m
    <3>1. m \in DOMAIN ages /\ ages[m] >= Window - 1
      BY <1>1, <1>5, <2>2
    <3>2. ages[m] <= ages[j]
      BY <2>2, <3>1 DEF AgesSorted
    <3> QED BY <1>1, <1>5, <2>2, <3>1, <3>2
  <2> QED BY <1>1, <1>5, <2>1, <2>2
<1>7. {j \in DOMAIN ages : ages[j] < Window - 1} = 1 .. (m - 1)
  BY <1>1, <1>5, <1>6
<1>8. m - 1 \in 0 .. Len(ages)
  BY <1>1, <1>5
<1> QED BY <1>7, <1>8

\* A request is the youngest one, and pushes the oldest out when there are too
\* many.
LEMMA AgesAfterIncr ==
  ASSUME RateLimitTypeOK, AgesSorted,
         ages' = SubSeq(<< 0 >> \o ages, 1, Saturated(Len(ages) + 1))
  PROVE  /\ ages' \in Seq(0 .. Window - 1) /\ Len(ages') \in 1 .. MaxCount
         /\ Len(ages') = Saturated(Len(ages) + 1)
         /\ ages'[1] = 0
         /\ \A i \in 2 .. Len(ages') : i - 1 \in DOMAIN ages /\ ages'[i] = ages[i - 1]
         /\ AgesSorted'
<1> DEFINE n == Len(ages)
           s == << 0 >> \o ages
           k == Saturated(n + 1)
<1>1. /\ ages \in Seq(0 .. Window - 1) /\ n \in Nat /\ n <= MaxCount
      /\ MaxCount \in Nat \ {0} /\ 0 \in 0 .. Window - 1
      /\ DOMAIN ages = 1 .. n
      /\ \A i \in DOMAIN ages : ages[i] \in Nat
  BY RateLimitAssumption DEF RateLimitTypeOK, RateLimitAssumption
<1>2. k \in 1 .. MaxCount /\ k <= n + 1
  BY <1>1 DEF Saturated
<1>3. /\ s \in Seq(0 .. Window - 1) /\ Len(s) = n + 1 /\ s[1] = 0
      /\ \A i \in 2 .. n + 1 : s[i] = ages[i - 1]
  BY <1>1
<1>4. ages' = SubSeq(s, 1, k)
  OBVIOUS
<1> HIDE DEF s, k
<1>5. /\ ages' \in Seq(0 .. Window - 1) /\ Len(ages') = k
      /\ \A i \in 1 .. k : ages'[i] = s[i]
  <2>a. \A i \in 1 .. n + 1 : s[i] \in 0 .. Window - 1
    BY ONLY <1>3, ElementOfSeq
  <2>1. /\ 1 \in Int /\ k \in Int /\ 1 <= k /\ k - 1 + 1 = k
        /\ \A i \in 1 .. k : s[i] \in 0 .. Window - 1
    BY <1>1, <1>2, <2>a
  <2>2. /\ SubSeq(s, 1, k) \in Seq(0 .. Window - 1)
        /\ Len(SubSeq(s, 1, k)) = IF 1 <= k THEN k - 1 + 1 ELSE 0
        /\ \A i \in 1 .. k - 1 + 1 : SubSeq(s, 1, k)[i] = s[1 + i - 1]
    BY ONLY <2>1, SubSeqProperties
  <2>3. \A i \in 1 .. k : 1 + i - 1 = i
    BY <1>2
  <2> QED BY ONLY <1>4, <2>1, <2>2, <2>3
<1>6. /\ ages'[1] = 0
      /\ \A i \in 2 .. k : i - 1 \in DOMAIN ages /\ ages'[i] = ages[i - 1]
  BY <1>1, <1>2, <1>3, <1>5
<1>7. AgesSorted'
  <2>1. DOMAIN ages' = 1 .. k
    BY <1>5
  <2> SUFFICES ASSUME NEW i \in 1 .. k, NEW j \in 1 .. k, i <= j
               PROVE  ages'[i] <= ages'[j]
    BY <2>1 DEF AgesSorted
  <2>2. CASE i = 1
    <3>1. j \in 2 .. k => ages'[j] \in Nat
      BY <1>1, <1>6
    <3>2. j = 1 \/ j \in 2 .. k
      BY <1>2
    <3>3. ages'[i] = 0 /\ (ages'[j] = 0 \/ ages'[j] \in Nat)
      BY ONLY <1>6, <2>2, <3>1, <3>2
    <3> QED BY ONLY <3>3
  <2>3. CASE i # 1
    <3>1. i \in 2 .. k /\ j \in 2 .. k /\ i - 1 <= j - 1
      BY <1>2, <2>3
    <3>2. ages[i - 1] <= ages[j - 1]
      BY <1>6, <3>1 DEF AgesSorted
    <3> QED BY <1>6, <3>1, <3>2
  <2> QED BY <2>2, <2>3
<1> QED BY <1>2, <1>5, <1>6, <1>7 DEF k

\* A tick ages the requests, and forgets those that are a window old.
LEMMA AgesAfterTick ==
  ASSUME RateLimitTypeOK, AgesSorted,
         ages' = [i \in {j \in DOMAIN ages : ages[j] < Window - 1} |-> ages[i] + 1]
  PROVE  /\ ages' \in Seq(0 .. Window - 1) /\ Len(ages') \in 0 .. MaxCount
         /\ Len(ages') <= Len(ages)
         /\ \A i \in DOMAIN ages : ages[i] < Window - 1 => i <= Len(ages')
         /\ \A i \in 1 .. Len(ages') : ages'[i] = ages[i] + 1
         /\ AgesSorted'
<1>1. /\ ages \in Seq(0 .. Window - 1) /\ Len(ages) \in Nat /\ Window \in Nat
      /\ DOMAIN ages = 1 .. Len(ages) /\ Len(ages) <= MaxCount
      /\ \A i \in DOMAIN ages : ages[i] \in Nat /\ MaxCount \in Nat
  BY RateLimitAssumption DEF RateLimitTypeOK, RateLimitAssumption
<1>2. PICK n \in 0 .. Len(ages) :
        {j \in DOMAIN ages : ages[j] < Window - 1} = 1 .. n
  BY YoungestFirst
<1>3. ages' = [i \in 1 .. n |-> ages[i] + 1]
  BY <1>2
<1>4. \A i \in 1 .. n : i \in DOMAIN ages /\ ages[i] < Window - 1
  BY <1>2
<1>5. n \in Nat /\ \A i \in 1 .. n : ages[i] + 1 \in 0 .. Window - 1
  BY <1>1, <1>4
<1>6. /\ ages' \in Seq(0 .. Window - 1) /\ Len(ages') = n
      /\ DOMAIN ages' = 1 .. n
  BY ONLY <1>3, <1>5
<1>7. AgesSorted'
  BY <1>1, <1>3, <1>4, <1>6 DEF AgesSorted
<1>8. \A i \in DOMAIN ages : ages[i] < Window - 1 => i <= n
  BY <1>1, <1>2
<1>9. \A i \in 1 .. n : ages'[i] = ages[i] + 1
  BY <1>3
<1>10. n \in 0 .. MaxCount /\ n <= Len(ages)
  BY <1>1
<1> QED BY ONLY <1>6, <1>7, <1>8, <1>9, <1>10

\* INCR counts one request more, the youngest: what was covered still is.
LEMMA CountsTheYoungest ==
  ASSUME RateLimitTypeOK, AgesSorted, Counted
  PROVE  /\ count' \in 1 .. MaxCount
         /\ count' = IF count = MaxCount THEN count ELSE count + 1
         /\ ages' \in Seq(0 .. Window - 1) /\ Len(ages') \in 1 .. MaxCount
         /\ ages'[1] = 0
         /\ AgesSorted'
         /\ \A n \in Nat : Covered(n) => Covered(n)'
<1> USE RateLimitAssumption DEF RateLimitAssumption
<1>1. /\ count' = Saturated(count + 1)
      /\ ages' = SubSeq(<< 0 >> \o ages, 1, Saturated(Len(ages) + 1))
  BY DEF Counted
<1>2. /\ count \in Nat /\ count <= MaxCount /\ ages \in Seq(0 .. Window - 1)
      /\ Len(ages) \in Nat
  BY DEF RateLimitTypeOK
<1>3. /\ count' \in 1 .. MaxCount
      /\ count' = IF count = MaxCount THEN count ELSE count + 1
  BY <1>1, <1>2 DEF Saturated
<1>4. /\ ages' \in Seq(0 .. Window - 1) /\ Len(ages') \in 1 .. MaxCount
      /\ Len(ages') = Saturated(Len(ages) + 1)
      /\ ages'[1] = 0
      /\ \A i \in 2 .. Len(ages') : i - 1 \in DOMAIN ages /\ ages'[i] = ages[i - 1]
      /\ AgesSorted'
  BY <1>1, AgesAfterIncr
<1>5. ASSUME NEW n \in Nat, Covered(n) PROVE Covered(n)'
  <2>1. count <= Len(ages) /\ \A i \in 1 .. count : ages[i] <= n
    BY <1>5 DEF Covered
  <2>2. count' <= Len(ages')
    BY <1>2, <1>3, <1>4, <2>1 DEF Saturated
  <2>3. ASSUME NEW i \in 1 .. count' PROVE ages'[i] <= n
    <3>1. CASE i = 1
      BY <1>4, <3>1
    <3>2. CASE i # 1
      <4>1. i \in 2 .. Len(ages') /\ i - 1 \in 1 .. count
        BY <1>2, <1>3, <1>4, <2>2, <3>2
      <4>2. ages'[i] = ages[i - 1] /\ ages[i - 1] <= n
        BY <1>4, <2>1, <4>1
      <4> QED BY <4>2
    <3> QED BY <3>1, <3>2
  <2> QED BY <2>2, <2>3 DEF Covered
<1> QED BY <1>3, <1>4, <1>5

\* A request that goes on leaves the way to the expiry, or was not on it.
LEMMA SlotMoves ==
  ASSUME RateLimitTypeOK, NEW r \in Slots,
         NEW place \in {"none", "check", "admitted", "refused"},
         request' = [request EXCEPT ![r] = place]
  PROVE  /\ Expiring' = Expiring \ {r}
         /\ request' \in [Slots -> {"none", "expire", "check", "admitted", "refused"}]
         /\ request'[r] = place
         /\ \A q \in Slots \ {r} : request'[q] = request[q]
BY DEF RateLimitTypeOK, Expiring

\* INCR counts its request and makes it the youngest.
LEMMA IncrKeeps ==
  ASSUME LimiterInv, NEW r \in Slots, Incr(r)
  PROVE  LimiterInv'
<1> USE RateLimitAssumption DEF RateLimitAssumption
<1>1. /\ RateLimitTypeOK /\ AgesSorted /\ CounterExpires /\ WindowOK
      /\ OpenerOK /\ DrawnOK /\ TtlOK
  BY DEF LimiterInv
<1>2. /\ request[r] = "none" /\ Counted
      /\ drawn' = [drawn EXCEPT ![r] = count']
      /\ crowd' = [crowd EXCEPT ![r] = Len(ages')]
      /\ UNCHANGED <<limiter, ttl, counterErrors, orphaned>>
  BY DEF Incr
<1>3. /\ count \in Nat /\ count <= MaxCount /\ ages \in Seq(0 .. Window - 1)
      /\ Len(ages) \in Nat /\ ttl \in 0 .. Window
      /\ limiter \in {"customer", "tarot"}
  BY <1>1 DEF RateLimitTypeOK
<1>4. /\ count' \in 1 .. MaxCount
      /\ count' = IF count = MaxCount THEN count ELSE count + 1
  BY <1>1, <1>2, CountsTheYoungest
<1>5. /\ ages' \in Seq(0 .. Window - 1) /\ Len(ages') \in 1 .. MaxCount
      /\ ages'[1] = 0
      /\ AgesSorted'
  BY <1>1, <1>2, CountsTheYoungest
<1>6. /\ request'[r] \in {"expire", "check"}
      /\ request'[r] = "expire" <=> SetsExpiry(count')
      /\ \A q \in Slots \ {r} : request'[q] = request[q]
      /\ request' \in [Slots -> {"none", "expire", "check", "admitted", "refused"}]
  <2>1. request' = [request EXCEPT ![r] =
                      IF SetsExpiry(count') THEN "expire" ELSE "check"]
    BY DEF Incr
  <2> QED BY <1>1, <2>1 DEF RateLimitTypeOK, SetsExpiry
<1>7. Expiring' = Expiring \union {q \in {r} : SetsExpiry(count')}
  BY <1>2, <1>6 DEF Expiring
<1>8. /\ drawn' \in [Slots -> 0 .. MaxCount] /\ crowd' \in [Slots -> 0 .. MaxCount]
      /\ drawn'[r] = count' /\ crowd'[r] = Len(ages')
      /\ \A q \in Slots \ {r} : drawn'[q] = drawn[q] /\ crowd'[q] = crowd[q]
  BY <1>1, <1>2, <1>4, <1>5 DEF RateLimitTypeOK
<1>9. RateLimitTypeOK'
  BY <1>1, <1>2, <1>4, <1>5, <1>6, <1>8 DEF RateLimitTypeOK
<1>10. limiter = "customer" => (SetsExpiry(count') <=> count' = 1)
  BY DEF SetsExpiry, ExpireFirst
<1>11. limiter = "tarot" => SetsExpiry(count')
  BY DEF SetsExpiry, ExpireAlways
<1>12. CounterExpires'
  <2> SUFFICES ASSUME ttl = 0, ~orphaned
               PROVE  \E q \in Slots : request'[q] = "expire"
    BY <1>2 DEF CounterExpires
  <2>1. CASE count = 0
    BY <1>3, <1>4, <1>6, <1>10, <1>11, <2>1
  <2>2. CASE count # 0
    <3>1. PICK q \in Slots : request[q] = "expire"
      BY <1>1, <1>3, <2>2 DEF CounterExpires
    <3> QED BY <1>2, <1>6, <3>1
  <2> QED BY <2>1, <2>2
<1>13. \A n \in Nat : Covered(n) => Covered(n)'
  BY <1>1, <1>2, CountsTheYoungest
<1>14. WindowOK'
  <2> SUFFICES ASSUME limiter = "customer"
               PROVE  /\ Expiring' # {} => count' > 0 /\ Covered(0)'
                      /\ ~orphaned => Covered(Elapsed)'
    BY <1>2 DEF WindowOK
  <2>1. CASE Expiring # {}
    <3>1. Covered(0)'
      BY <1>1, <1>13, <2>1 DEF WindowOK
    <3>2. Elapsed \in Nat /\ Elapsed' = Elapsed
      BY <1>2, <1>3 DEF Elapsed
    <3>3. ~orphaned => Covered(Elapsed)'
      BY <1>1, <1>13, <3>2 DEF WindowOK
    <3> QED BY <1>4, <3>1, <3>3
  <2>2. CASE Expiring = {}
    <3>1. Expiring' # {} => count' = 1
      BY <1>7, <1>10, <2>2
    <3>2. count' = 1 => Covered(0)'
      BY <1>5 DEF Covered
    <3>3. Elapsed \in Nat /\ Elapsed' = Elapsed
      BY <1>2, <1>3 DEF Elapsed
    <3>4. ~orphaned => Covered(Elapsed)'
      BY <1>1, <1>13, <3>3 DEF WindowOK
    <3> QED BY <1>4, <3>1, <3>2, <3>4
  <2> QED BY <2>1, <2>2
<1>15. OpenerOK'
  <2> SUFFICES ASSUME limiter = "customer", MaxCount > 1
               PROVE  /\ \A q, s \in Expiring' : q = s
                      /\ orphaned => ttl = 0 /\ count' > 0 /\ Expiring' = {}
    BY <1>2 DEF OpenerOK
  <2>1. count > 0 => Expiring' = Expiring
    <3>1. count > 0 => count' # 1
      BY <1>3, <1>4
    <3> QED BY <1>7, <1>10, <3>1
  <2>2. count = 0 => Expiring = {} /\ ~orphaned
    BY <1>1 DEF WindowOK, OpenerOK
  <2>3. CASE count = 0
    BY <1>7, <2>2, <2>3
  <2>4. CASE count > 0
    BY <1>1, <1>4, <2>1, <2>4 DEF OpenerOK
  <2> QED BY <1>3, <2>3, <2>4
<1>16. DrawnOK'
  <2> SUFFICES ASSUME limiter = "customer", NEW q \in Slots
               PROVE  /\ request'[q] = "refused" => OverLimit(drawn'[q])
                      /\ drawn'[q] > 0 => crowd'[q] > 0
                      /\ OverLimit(drawn'[q]) => crowd'[q] > MaxRequests \/ orphaned
    BY <1>2 DEF DrawnOK, OverLimit
  <2>1. CASE q # r
    BY <1>1, <1>6, <1>8, <2>1 DEF DrawnOK
  <2>2. CASE q = r
    <3>1. request'[q] # "refused" /\ crowd'[q] > 0
      BY <1>5, <1>6, <1>8, <2>2
    <3>2. ~orphaned => count' <= Len(ages')
      BY <1>14, <1>2 DEF WindowOK, Covered
    <3> QED BY <1>4, <1>5, <1>8, <2>2, <3>1, <3>2 DEF OverLimit
  <2> QED BY <2>1, <2>2
<1> QED BY <1>2, <1>4, <1>5, <1>9, <1>12, <1>14, <1>15, <1>16 DEF LimiterInv, TtlOK

\* INCR is applied and its answer lost: nobody sets the expiry of a counter that
\* it starts.
LEMMA UnansweredKeeps ==
  ASSUME LimiterInv, NEW r \in Slots, IncrUnanswered(r)
  PROVE  LimiterInv'
<1> USE RateLimitAssumption DEF RateLimitAssumption
<1>1. /\ RateLimitTypeOK /\ AgesSorted /\ CounterExpires /\ WindowOK
      /\ OpenerOK /\ DrawnOK /\ TtlOK
  BY DEF LimiterInv
<1>2. /\ Counted /\ orphaned' = (orphaned \/ count = 0)
      /\ counterErrors' \in 0 .. MaxCounterErrors
      /\ UNCHANGED <<limiter, ttl, request, drawn, crowd>>
  BY <1>1 DEF IncrUnanswered, Trouble, RateLimitTypeOK
<1>3. /\ count \in Nat /\ ttl \in 0 .. Window
      /\ limiter \in {"customer", "tarot"} /\ orphaned \in BOOLEAN
  BY <1>1 DEF RateLimitTypeOK
<1>4. /\ count' \in 1 .. MaxCount
      /\ ages' \in Seq(0 .. Window - 1) /\ Len(ages') \in 1 .. MaxCount
      /\ ages'[1] = 0
      /\ AgesSorted'
      /\ \A n \in Nat : Covered(n) => Covered(n)'
  BY <1>1, <1>2, CountsTheYoungest
<1>5. /\ orphaned' \in BOOLEAN /\ (orphaned => orphaned')
      /\ count = 0 => orphaned'
      /\ count > 0 => orphaned' = orphaned
  <2>1. /\ orphaned' \in BOOLEAN /\ (orphaned => orphaned')
        /\ count = 0 => orphaned'
        /\ count # 0 => orphaned' = orphaned
    BY <1>2, <1>3, Zenon
  <2>2. count > 0 => count # 0
    BY <1>3
  <2> QED BY <2>1, <2>2, Zenon
<1>6. RateLimitTypeOK'
  BY <1>1, <1>2, <1>4, <1>5 DEF RateLimitTypeOK
<1>7. CounterExpires'
  <2> SUFFICES ASSUME ttl = 0, ~orphaned'
               PROVE  \E q \in Slots : request[q] = "expire"
    BY <1>2 DEF CounterExpires
  <2> QED BY <1>1, <1>3, <1>5 DEF CounterExpires
<1>8. Expiring' = Expiring /\ Elapsed' = Elapsed /\ Elapsed \in Nat
  BY <1>2, <1>3 DEF Expiring, Elapsed
<1>9. WindowOK'
  BY <1>1, <1>2, <1>4, <1>5, <1>8 DEF WindowOK
<1>10. OpenerOK'
  <2>1. limiter = "customer" /\ count = 0 => ttl = 0 /\ Expiring = {}
    BY <1>1, <1>3 DEF TtlOK, WindowOK
  <2> QED BY <1>1, <1>2, <1>3, <1>4, <1>5, <1>8, <2>1 DEF OpenerOK
<1>11. DrawnOK'
  BY <1>1, <1>2, <1>5 DEF DrawnOK, OverLimit
<1> QED BY <1>2, <1>4, <1>6, <1>7, <1>9, <1>10, <1>11 DEF LimiterInv, TtlOK

\* The server stops, and with it whoever was to set an expiry.
LEMMA StopKeeps ==
  ASSUME LimiterInv, Stop
  PROVE  LimiterInv'
<1> USE RateLimitAssumption DEF RateLimitAssumption
<1>1. /\ RateLimitTypeOK /\ AgesSorted /\ CounterExpires /\ WindowOK
      /\ OpenerOK /\ DrawnOK /\ TtlOK
  BY DEF LimiterInv
<1>2. /\ request' = [q \in Slots |-> "none"]
      /\ drawn' = [q \in Slots |-> 0] /\ crowd' = [q \in Slots |-> 0]
      /\ orphaned' = (orphaned \/ (ttl = 0 /\ Expiring # {}))
      /\ counterErrors' \in 0 .. MaxCounterErrors
      /\ UNCHANGED <<limiter, count, ttl, ages>>
  BY <1>1 DEF Stop, Trouble, RateLimitTypeOK, Expiring
<1>3. Expiring' = {} /\ 0 \in 0 .. MaxCount /\ orphaned \in BOOLEAN
  BY <1>1, <1>2 DEF Expiring, RateLimitTypeOK
<1>4. /\ orphaned' \in BOOLEAN /\ (orphaned => orphaned')
      /\ ttl = 0 /\ Expiring # {} => orphaned'
      /\ orphaned' => orphaned \/ (ttl = 0 /\ Expiring # {})
  BY <1>2, <1>3, Zenon
<1>5. RateLimitTypeOK' /\ AgesSorted' /\ TtlOK'
  BY <1>1, <1>2, <1>3, <1>4 DEF RateLimitTypeOK, AgesSorted, TtlOK
<1>6. CounterExpires'
  BY <1>1, <1>2, <1>4 DEF CounterExpires, Expiring
<1>7. WindowOK'
  BY <1>1, <1>2, <1>3, <1>4 DEF WindowOK, Covered, Elapsed
<1>8. OpenerOK'
  BY <1>1, <1>2, <1>3, <1>4 DEF OpenerOK, WindowOK
<1>9. DrawnOK'
  BY <1>2 DEF DrawnOK, OverLimit
<1> QED BY <1>5, <1>6, <1>7, <1>8, <1>9 DEF LimiterInv

\* EXPIRE opens the window of the requests counted, all of this tick.
LEMMA ExpireKeeps ==
  ASSUME LimiterInv, NEW r \in Slots, Expire(r)
  PROVE  LimiterInv'
<1> USE RateLimitAssumption DEF RateLimitAssumption
<1>1. /\ RateLimitTypeOK /\ AgesSorted /\ CounterExpires /\ WindowOK
      /\ OpenerOK /\ DrawnOK /\ TtlOK
  BY DEF LimiterInv
<1>2. /\ request[r] = "expire" /\ request' = [request EXCEPT ![r] = "check"]
      /\ \/ count > 0 /\ ttl' = Window /\ orphaned' = FALSE
         \/ count = 0 /\ UNCHANGED <<ttl, orphaned>>
      /\ UNCHANGED <<limiter, count, drawn, counterErrors, ages, crowd>>
  BY DEF Expire
<1>3. /\ Expiring' = Expiring \ {r} /\ r \in Expiring
      /\ request' \in [Slots -> {"none", "expire", "check", "admitted", "refused"}]
      /\ request'[r] = "check"
      /\ \A q \in Slots \ {r} : request'[q] = request[q]
  BY <1>1, <1>2, SlotMoves DEF Expiring
<1>4. count \in Nat /\ crowd \in [Slots -> Nat] /\ drawn \in [Slots -> Nat]
  BY <1>1 DEF RateLimitTypeOK
<1>5. RateLimitTypeOK' /\ AgesSorted'
  <2>a. ttl \in 0 .. Window /\ orphaned \in BOOLEAN
    BY <1>1 DEF RateLimitTypeOK
  <2>1. ttl' \in 0 .. Window /\ orphaned' \in BOOLEAN
    <3>1. CASE ttl' = Window /\ orphaned' = FALSE
      <4>1. Window \in 0 .. Window
        OBVIOUS
      <4> QED BY <3>1, <4>1, Zenon
    <3>2. CASE ttl' = ttl /\ orphaned' = orphaned
      BY <2>a, <3>2
    <3> QED BY <1>2, <3>1, <3>2
  <2> QED BY <1>1, <1>2, <1>3, <2>1 DEF RateLimitTypeOK, AgesSorted
<1>6. CounterExpires'
  BY <1>2, <1>4 DEF CounterExpires
<1>7. limiter = "customer" => count > 0 /\ Covered(0)
  BY <1>1, <1>3 DEF WindowOK
<1>8. limiter = "customer" => ttl' = Window /\ ~orphaned' /\ Elapsed' = 0
  BY <1>2, <1>7 DEF Elapsed
<1>9. WindowOK'
  BY <1>2, <1>7, <1>8 DEF WindowOK, Covered
<1>10. OpenerOK'
  BY <1>1, <1>2, <1>3, <1>8 DEF OpenerOK
<1>11. limiter = "customer" /\ MaxCount > 1 => ~orphaned
  BY <1>1, <1>3 DEF OpenerOK
<1>12. MaxCount > 1 \/ MaxRequests = 0
  OBVIOUS
<1>13. DrawnOK'
  BY <1>1, <1>2, <1>3, <1>4, <1>11, <1>12 DEF DrawnOK, OverLimit
<1>14. TtlOK'
  BY <1>1, <1>2 DEF TtlOK
<1> QED BY <1>5, <1>6, <1>9, <1>10, <1>13, <1>14 DEF LimiterInv

\* A call to Redis that throws lets its request through; without the EXPIRE of
\* the only one to send it the counter is orphaned.
LEMMA ThrowKeeps ==
  ASSUME LimiterInv, NEW r \in Slots, IncrThrows(r) \/ ExpireThrows(r)
  PROVE  LimiterInv'
<1> USE RateLimitAssumption DEF RateLimitAssumption
<1>1. /\ RateLimitTypeOK /\ AgesSorted /\ CounterExpires /\ WindowOK
      /\ OpenerOK /\ DrawnOK /\ TtlOK
  BY DEF LimiterInv
<1>2. /\ request' = [request EXCEPT ![r] = "admitted"]
      /\ counterErrors < MaxCounterErrors /\ counterErrors' = counterErrors + 1
      /\ UNCHANGED <<limiter, count, ttl, drawn, ages, crowd>>
      /\ \/ request[r] = "none" /\ UNCHANGED orphaned
         \/ request[r] = "expire" /\ orphaned' = (orphaned \/ ttl = 0)
  BY DEF IncrThrows, ExpireThrows, Trouble
<1>3. /\ Expiring' = Expiring \ {r}
      /\ request' \in [Slots -> {"none", "expire", "check", "admitted", "refused"}]
      /\ request'[r] = "admitted"
      /\ \A q \in Slots \ {r} : request'[q] = request[q]
  BY <1>1, <1>2, SlotMoves
<1>4. /\ orphaned' \in BOOLEAN /\ (orphaned => orphaned')
      /\ ttl # 0 \/ request[r] = "none" => (orphaned' => orphaned)
      /\ ttl = 0 /\ request[r] = "expire" => orphaned'
  <2>1. orphaned \in BOOLEAN
    BY <1>1 DEF RateLimitTypeOK
  <2>2. CASE request[r] = "none" /\ orphaned' = orphaned
    BY <2>1, <2>2
  <2>3. CASE request[r] = "expire" /\ orphaned' = (orphaned \/ ttl = 0)
    BY <2>1, <2>3, Zenon
  <2> QED BY <1>2, <2>2, <2>3
<1>5. RateLimitTypeOK' /\ AgesSorted'
  BY <1>1, <1>2, <1>3, <1>4 DEF RateLimitTypeOK, AgesSorted
<1>6. CounterExpires'
  <2> SUFFICES ASSUME count > 0, ttl = 0, ~orphaned'
               PROVE  \E q \in Slots : request'[q] = "expire"
    BY <1>2 DEF CounterExpires
  <2>1. PICK q \in Slots : request[q] = "expire"
    BY <1>1, <1>4 DEF CounterExpires
  <2>2. q # r
    BY <1>4, <2>1
  <2> QED BY <1>3, <2>1, <2>2
<1>7. WindowOK'
  BY <1>1, <1>2, <1>3, <1>4 DEF WindowOK, Covered, Elapsed
<1>8. OpenerOK'
  <2> SUFFICES ASSUME limiter = "customer", MaxCount > 1
               PROVE  /\ \A q, s \in Expiring' : q = s
                      /\ orphaned' => ttl = 0 /\ count > 0 /\ Expiring' = {}
    BY <1>2 DEF OpenerOK
  <2>1. CASE UNCHANGED orphaned
    BY <1>1, <1>3, <2>1 DEF OpenerOK
  <2>2. CASE request[r] = "expire" /\ ttl = 0
    BY <1>1, <1>3, <2>2 DEF OpenerOK, WindowOK, Expiring
  <2>3. CASE request[r] = "expire" /\ ttl # 0
    BY <1>1, <1>3, <1>4, <2>3 DEF OpenerOK
  <2> QED BY <1>2, <2>1, <2>2, <2>3
<1>9. DrawnOK'
  BY <1>1, <1>2, <1>3, <1>4 DEF DrawnOK, OverLimit
<1>10. TtlOK'
  BY <1>1, <1>2 DEF TtlOK
<1> QED BY <1>5, <1>6, <1>7, <1>8, <1>9, <1>10 DEF LimiterInv

\* The answer to a request, and the end of it.
LEMMA AnswerKeeps ==
  ASSUME LimiterInv, NEW r \in Slots, Check(r) \/ Answered(r)
  PROVE  LimiterInv'
<1> USE RateLimitAssumption DEF RateLimitAssumption
<1>1. /\ RateLimitTypeOK /\ AgesSorted /\ CounterExpires /\ WindowOK
      /\ OpenerOK /\ DrawnOK /\ TtlOK
  BY DEF LimiterInv
<1>2. /\ request[r] # "expire"
      /\ UNCHANGED <<limiter, count, ttl, counterErrors, ages, orphaned>>
  BY DEF Check, Answered
<1>3. PICK place \in {"none", "admitted", "refused"} :
        /\ request' = [request EXCEPT ![r] = place]
        /\ place = "refused" => OverLimit(drawn[r]) /\ UNCHANGED drawn
  BY DEF Check, Answered
<1>4. /\ Expiring' = Expiring
      /\ request' \in [Slots -> {"none", "expire", "check", "admitted", "refused"}]
      /\ request'[r] = place
      /\ \A q \in Slots \ {r} : request'[q] = request[q]
  BY <1>1, <1>2, <1>3, SlotMoves DEF Expiring
<1>5. /\ drawn' \in [Slots -> 0 .. MaxCount] /\ crowd' \in [Slots -> 0 .. MaxCount]
      /\ \A q \in Slots \ {r} : drawn'[q] = drawn[q] /\ crowd'[q] = crowd[q]
      /\ \/ drawn'[r] = drawn[r] /\ crowd'[r] = crowd[r]
         \/ drawn'[r] = 0 /\ crowd'[r] = 0
  <2>1. /\ drawn \in [Slots -> 0 .. MaxCount] /\ crowd \in [Slots -> 0 .. MaxCount]
        /\ 0 \in 0 .. MaxCount
    BY <1>1 DEF RateLimitTypeOK
  <2>2. CASE Check(r)
    BY <2>1, <2>2 DEF Check
  <2>3. CASE Answered(r)
    BY <2>1, <2>3 DEF Answered
  <2> QED BY <2>2, <2>3
<1>6. RateLimitTypeOK' /\ AgesSorted'
  BY <1>1, <1>2, <1>4, <1>5 DEF RateLimitTypeOK, AgesSorted
<1>7. CounterExpires'
  BY <1>1, <1>2, <1>4 DEF CounterExpires, Expiring
<1>8. WindowOK' /\ OpenerOK'
  BY <1>1, <1>2, <1>4 DEF WindowOK, OpenerOK, Covered, Elapsed
<1>9. DrawnOK'
  BY <1>1, <1>2, <1>3, <1>4, <1>5 DEF DrawnOK, OverLimit
<1>10. TtlOK'
  BY <1>1, <1>2 DEF TtlOK
<1> QED BY <1>6, <1>7, <1>8, <1>9, <1>10 DEF LimiterInv

\* Time passes for the window as for the requests counted in it.
LEMMA TickKeeps ==
  ASSUME LimiterInv, Tick
  PROVE  LimiterInv'
<1> USE RateLimitAssumption DEF RateLimitAssumption
<1>1. /\ RateLimitTypeOK /\ AgesSorted /\ CounterExpires /\ WindowOK
      /\ OpenerOK /\ DrawnOK /\ TtlOK
  BY DEF LimiterInv
<1>2. /\ Expiring = {}
      /\ ttl' = IF ttl = 0 THEN 0 ELSE ttl - 1
      /\ count' = IF ttl = 1 THEN 0 ELSE count
      /\ UNCHANGED <<limiter, request, drawn, counterErrors, crowd, orphaned>>
  BY DEF Tick, Expiring
<1>3. /\ ages' \in Seq(0 .. Window - 1) /\ Len(ages') \in 0 .. MaxCount
      /\ \A i \in DOMAIN ages : ages[i] < Window - 1 => i <= Len(ages')
      /\ \A i \in 1 .. Len(ages') : ages'[i] = ages[i] + 1
      /\ AgesSorted'
  BY <1>1, AgesAfterTick DEF Tick
<1>4. /\ ttl \in 0 .. Window /\ count \in 0 .. MaxCount
      /\ ages \in Seq(0 .. Window - 1) /\ Expiring' = {}
  BY <1>1, <1>2 DEF RateLimitTypeOK, Expiring
<1>5. RateLimitTypeOK'
  BY <1>1, <1>2, <1>3, <1>4 DEF RateLimitTypeOK
<1>6. CounterExpires'
  BY <1>1, <1>2, <1>4 DEF CounterExpires, Expiring
<1>7. WindowOK'
  <2> SUFFICES ASSUME limiter = "customer", ~orphaned
               PROVE  Covered(Elapsed)'
    BY <1>2, <1>4 DEF WindowOK
  <2>1. CASE count' = 0
    BY <1>3, <2>1 DEF Covered
  <2>2. CASE count' # 0
    <3>1. ttl > 1 /\ count' = count /\ Elapsed' = Elapsed + 1
          /\ Elapsed \in 0 .. Window - 2
      <4>1. ttl # 0
        BY <1>1, <1>2, <1>4, <2>2 DEF CounterExpires, Expiring
      <4> QED BY <1>2, <1>4, <2>2, <4>1 DEF Elapsed
    <3>2. count <= Len(ages) /\ \A i \in 1 .. count : ages[i] <= Elapsed
      BY <1>1 DEF WindowOK, Covered
    <3>3. \A i \in 1 .. count : i \in DOMAIN ages /\ ages[i] \in Nat
      BY <1>4, <3>2
    <3>4. count <= Len(ages')
      <4>1. count \in 1 .. count
        BY <1>2, <1>4, <2>2
      <4>2. count \in DOMAIN ages /\ ages[count] < Window - 1
        BY <3>1, <3>2, <3>3, <4>1
      <4> QED BY <1>3, <4>2
    <3>5. ASSUME NEW i \in 1 .. count PROVE ages'[i] <= Elapsed'
      <4>1. i \in 1 .. Len(ages')
        BY <1>3, <1>4, <3>4
      <4>2. ages'[i] = ages[i] + 1 /\ ages[i] <= Elapsed /\ ages[i] \in Nat
        BY <1>3, <3>2, <3>3, <4>1
      <4> QED BY <3>1, <4>2
    <3> QED BY <3>1, <3>4, <3>5 DEF Covered
  <2> QED BY <2>1, <2>2
<1>8. OpenerOK'
  BY <1>1, <1>2, <1>4 DEF OpenerOK
<1>9. DrawnOK'
  BY <1>1, <1>2 DEF DrawnOK, OverLimit
<1>10. TtlOK'
  BY <1>1, <1>2, <1>4 DEF TtlOK
<1> QED BY <1>3, <1>5, <1>6, <1>7, <1>8, <1>9, <1>10 DEF LimiterInv

LEMMA LimiterInductive == RateLimitSpec => []LimiterInv
<1>1. RateLimitInit => LimiterInv
  <2> SUFFICES ASSUME RateLimitInit PROVE LimiterInv
    OBVIOUS
  <2>1. /\ count = 0 /\ ttl = 0 /\ request = [r \in Slots |-> "none"]
        /\ drawn = [r \in Slots |-> 0] /\ counterErrors = 0 /\ ages = <<>>
        /\ crowd = [r \in Slots |-> 0] /\ orphaned = FALSE
        /\ limiter \in {"customer", "tarot"}
    BY DEF RateLimitInit
  <2>2. RateLimitTypeOK
    <3>1. /\ limiter \in {"customer", "tarot"} /\ count \in 0 .. MaxCount
          /\ ttl \in 0 .. Window /\ counterErrors \in 0 .. MaxCounterErrors
          /\ 0 \in 0 .. MaxCount
      BY <2>1, RateLimitAssumption DEF RateLimitAssumption
    <3>2. ages \in Seq(0 .. Window - 1) /\ Len(ages) <= MaxCount
      BY <2>1, RateLimitAssumption DEF RateLimitAssumption
    <3>3. /\ request \in [Slots -> {"none", "expire", "check", "admitted", "refused"}]
          /\ drawn \in [Slots -> 0 .. MaxCount] /\ crowd \in [Slots -> 0 .. MaxCount]
      BY <2>1, <3>1
    <3>4. orphaned \in BOOLEAN
      BY <2>1
    <3> QED BY <3>1, <3>2, <3>3, <3>4 DEF RateLimitTypeOK
  <2>3. AgesSorted /\ CounterExpires /\ TtlOK
    BY <2>1 DEF AgesSorted, CounterExpires, TtlOK
  <2>4. Expiring = {}
    BY <2>1 DEF Expiring
  <2>5. WindowOK /\ OpenerOK
    BY <2>1, <2>4 DEF WindowOK, OpenerOK, Covered
  <2>6. DrawnOK
    BY <2>1, RateLimitAssumption DEF DrawnOK, OverLimit, RateLimitAssumption
  <2> QED BY <2>2, <2>3, <2>5, <2>6 DEF LimiterInv
<1>2. LimiterInv /\ [RateLimitNext]_limitVars => LimiterInv'
  <2> SUFFICES ASSUME LimiterInv, [RateLimitNext]_limitVars PROVE LimiterInv'
    OBVIOUS
  <2>1. CASE UNCHANGED limitVars
    BY <2>1 DEF limitVars, LimiterInv, RateLimitTypeOK, AgesSorted,
                CounterExpires, WindowOK, OpenerOK, DrawnOK, Covered, Elapsed,
                Expiring, OverLimit, TtlOK
  <2> QED BY <2>1, IncrKeeps, ExpireKeeps, UnansweredKeeps, StopKeeps,
            ThrowKeeps, AnswerKeeps, TickKeeps
          DEF RateLimitNext
<1> QED BY <1>1, <1>2, PTL DEF RateLimitSpec

\* The counter never stays without an expiry unless whoever was to set it has been
\* lost, by an EXPIRE that threw, an INCR whose answer did not come or the end of
\* the server, whichever limiter's code it is; and the one that sets the expiry once
\* refuses only a client who has made more than MaxRequests requests within the
\* last Window.  For every number of requests at a time, limit and window.
THEOREM LimitIsFair == RateLimitSpec => []LimiterIsFair
<1>1. LimiterInv => LimiterIsFair
  BY DEF LimiterInv, DrawnOK, LimiterIsFair, CustomerRefusedFairly, RefusedFairly
<1> QED BY <1>1, LimiterInductive, PTL

-----------------------------------------------------------------------------
(***************************************************************************)
(* The default address.                                                    *)
(***************************************************************************)

\* The statements of a call: only one that sets a default unsets the others
\* first, and a deletion sets none.
CallsOK ==
  \A c \in Calls : call[c] # Idle =>
    /\ call[c].at = "unset" => call[c].flag = "true"
    /\ call[c].kind = "delete" => call[c].flag # "true"

\* Until two calls race, a call that is about to set its default has left no
\* other one.
RoomForDefault ==
  ~raced => /\ \A a, b \in default : a = b
            /\ \A c \in Calls : Sets(c) => default \subseteq {call[c].on}

AddressesInv == AddressesTypeOK /\ CallsOK /\ RoomForDefault /\ DefaultIsKept

LEMMA CallFields ==
  ASSUME AddressesTypeOK, NEW c \in Calls
  PROVE  /\ Idle.at = "none"
         /\ call[c] # Idle <=> call[c].at # "none"
         /\ call[c].at \in {"none", "unset", "write"}
         /\ call[c] # Idle => /\ call[c].on \in AddressIds
                              /\ call[c].flag \in Flags
                              /\ call[c].kind \in {"create", "update", "delete"}
BY DEF AddressesTypeOK, Idle, Busy

LEMMA AddressTypesKept ==
  ASSUME AddressesInv, AddressesNext
  PROVE  AddressesTypeOK' /\ CallsOK'
<1> USE AddressesAssumption DEF AddressesAssumption
<1>a. AddressesTypeOK /\ CallsOK
  BY DEF AddressesInv
<1>1. ASSUME NEW c \in Calls, NEW a \in AddressIds, NEW flag \in Flags,
             NEW kind \in {"create", "update", "delete"},
             Begin(c, kind, a, flag), kind = "delete" => flag # "true"
      PROVE  AddressesTypeOK' /\ CallsOK'
  <2> DEFINE new == [at |-> First(kind, flag), kind |-> kind, on |-> a,
                     flag |-> flag]
  <2>1. call' = [call EXCEPT ![c] = new]
        /\ UNCHANGED <<rows, default, dbErrors, raced, chosen, lost>>
    BY <1>1 DEF Begin
  <2>2. new \in Busy
    BY DEF Busy, First
  <2>3. /\ new.at = "unset" => new.flag = "true"
        /\ new.kind = "delete" => new.flag # "true"
    BY <1>1 DEF First
  <2> HIDE DEF new
  <2>4. AddressesTypeOK'
    BY <1>a, <2>1, <2>2 DEF AddressesTypeOK
  <2>5. CallsOK'
    BY <1>a, <2>1, <2>3 DEF AddressesTypeOK, CallsOK
  <2> QED BY <2>4, <2>5
<1>2. ASSUME NEW c \in Calls, NEW a \in AddressIds, NEW flag \in Flags,
             Create(c, a, flag) \/ Update(c, a, flag)
      PROVE  AddressesTypeOK' /\ CallsOK'
  BY <1>1, <1>2 DEF Create, Update
<1>3. ASSUME NEW c \in Calls, NEW a \in AddressIds, Delete(c, a)
      PROVE  AddressesTypeOK' /\ CallsOK'
  <2>1. "absent" \in Flags /\ Begin(c, "delete", a, "absent")
    BY <1>3 DEF Delete, Flags
  <2> QED BY <1>1, <2>1
<1>4. ASSUME NEW c \in Calls, UnsetOthers(c)
      PROVE  AddressesTypeOK' /\ CallsOK'
  <2>1. /\ call[c].at = "unset" /\ default' = Kept(c)
        /\ call' = [call EXCEPT ![c].at = "write"]
        /\ raced' = (raced /\ OtherSets(c))
        /\ UNCHANGED <<rows, dbErrors, chosen, lost>>
    BY <1>4 DEF UnsetOthers
  <2>2. call[c] \in Busy
    BY <1>a, <2>1 DEF AddressesTypeOK, Idle
  <2>3. call'[c] = [call[c] EXCEPT !.at = "write"] /\ call'[c] \in Busy
    BY <1>a, <2>1, <2>2 DEF AddressesTypeOK, Busy
  <2>4. /\ call' \in [Calls -> {Idle} \union Busy]
        /\ \A d \in Calls \ {c} : call'[d] = call[d]
    BY <1>a, <2>1, <2>3 DEF AddressesTypeOK
  <2>5. default' \in SUBSET rows
    BY <1>a, <2>1 DEF AddressesTypeOK, Kept
  <2>6. raced' \in BOOLEAN
    BY <2>1
  <2>7. AddressesTypeOK'
    BY <1>a, <2>1, <2>4, <2>5, <2>6 DEF AddressesTypeOK
  <2>8. /\ call'[c].at = "write" /\ call'[c].kind = call[c].kind
        /\ call'[c].flag = call[c].flag /\ call[c] # Idle
    BY <2>1, <2>2, <2>3 DEF Busy, Idle
  <2>9. CallsOK'
    BY <1>a, <2>4, <2>8 DEF CallsOK
  <2> QED BY <2>7, <2>9
<1>5. ASSUME NEW c \in Calls, Write(c)
      PROVE  AddressesTypeOK' /\ CallsOK'
  <2>1. /\ call[c].at = "write" /\ StillThere(c)
        /\ call' = [call EXCEPT ![c] = Idle] /\ UNCHANGED dbErrors
    BY <1>5 DEF Write
  <2>2. /\ call[c].kind \in {"create", "update", "delete"}
        /\ call[c].on \in AddressIds
        /\ call[c].kind = "delete" => call[c].flag # "true"
    BY <1>a, <2>1, CallFields DEF CallsOK
  <2>3. rows' \in SUBSET AddressIds
    BY <1>5, <1>a, <2>2 DEF Write, AddressesTypeOK
  <2>4. default' \in SUBSET rows'
    <3>1. CASE Sets(c)
      <4>1. call[c].kind # "delete" /\ default' = default \union {call[c].on}
        BY <1>5, <2>1, <2>2, <3>1 DEF Write, Sets
      <4>2. call[c].on \in rows' /\ rows \subseteq rows'
        BY <1>5, <2>1, <2>2, <4>1 DEF Write, StillThere
      <4> QED BY <1>a, <4>1, <4>2 DEF AddressesTypeOK
    <3>2. CASE ~Sets(c)
      BY <1>5, <1>a, <2>2, <3>2 DEF Write, AddressesTypeOK
    <3> QED BY <3>1, <3>2
  <2>5. raced' \in BOOLEAN /\ chosen' \in BOOLEAN /\ lost' \in BOOLEAN
    BY <1>5 DEF Write
  <2>6. AddressesTypeOK'
    BY <1>a, <2>1, <2>3, <2>4, <2>5 DEF AddressesTypeOK
  <2>7. CallsOK'
    BY <1>a, <2>1 DEF AddressesTypeOK, CallsOK
  <2> QED BY <2>6, <2>7
<1>6. ASSUME NEW c \in Calls, Throw(c)
      PROVE  AddressesTypeOK' /\ CallsOK'
  <2>1. call' = [call EXCEPT ![c] = Idle] /\ UNCHANGED <<rows, default, raced, chosen>>
        /\ lost' \in BOOLEAN /\ dbErrors' \in 0 .. MaxDbErrors
    BY <1>6, <1>a DEF Throw, AddressesTypeOK
  <2> QED BY <1>a, <2>1 DEF AddressesTypeOK, CallsOK
<1> QED BY <1>2, <1>3, <1>4, <1>5, <1>6 DEF AddressesNext

\* A call that does not write yet, or has ended, leaves who sets a default as it
\* was, but for itself.
LEMMA OthersSet ==
  ASSUME AddressesTypeOK, NEW c \in Calls, NEW new,
         call' = [call EXCEPT ![c] = new]
  PROVE  /\ \A d \in Calls \ {c} : Sets(d)' = Sets(d) /\ call'[d] = call[d]
         /\ call'[c] = new
BY DEF AddressesTypeOK, Sets

LEMMA DefaultKept ==
  ASSUME AddressesInv, AddressesNext
  PROVE  RoomForDefault' /\ DefaultIsKept'
<1>a. AddressesTypeOK /\ CallsOK /\ RoomForDefault /\ DefaultIsKept
  BY DEF AddressesInv
<1>b. raced \in BOOLEAN /\ chosen \in BOOLEAN /\ lost \in BOOLEAN
  BY <1>a DEF AddressesTypeOK
<1>1. ASSUME NEW c \in Calls, NEW a, NEW flag, NEW kind, Begin(c, kind, a, flag)
      PROVE  RoomForDefault' /\ DefaultIsKept'
  <2> DEFINE new == [at |-> First(kind, flag), kind |-> kind, on |-> a,
                     flag |-> flag]
  <2>1. /\ call[c] = Idle /\ call' = [call EXCEPT ![c] = new]
        /\ UNCHANGED <<rows, default, dbErrors, raced, chosen, lost>>
    BY <1>1 DEF Begin
  <2>2. ~(new.at = "write" /\ new.flag = "true")
    BY DEF First
  <2>3. ~Sets(c)
    BY <2>1 DEF Sets, Idle
  <2> HIDE DEF new
  <2>4. /\ \A d \in Calls \ {c} : Sets(d)' = Sets(d) /\ call'[d] = call[d]
        /\ ~Sets(c)'
    BY <1>a, <2>1, <2>2, OthersSet DEF Sets
  <2>5. RoomForDefault'
    BY <1>a, <2>1, <2>4 DEF RoomForDefault
  <2>6. DefaultIsKept'
    BY <1>a, <2>1, <2>3, <2>4 DEF DefaultIsKept
  <2> QED BY <2>5, <2>6
<1>2. ASSUME NEW c \in Calls, NEW a \in AddressIds, NEW flag \in Flags,
             Create(c, a, flag) \/ Update(c, a, flag) \/ Delete(c, a)
      PROVE  RoomForDefault' /\ DefaultIsKept'
  BY <1>1, <1>2 DEF Create, Update, Delete
<1>3. ASSUME NEW c \in Calls, UnsetOthers(c)
      PROVE  RoomForDefault' /\ DefaultIsKept'
  <2>1. /\ call[c].at = "unset" /\ default' = Kept(c)
        /\ call' = [call EXCEPT ![c] = [call[c] EXCEPT !.at = "write"]]
        /\ raced' = (raced /\ OtherSets(c))
        /\ UNCHANGED <<rows, dbErrors, chosen, lost>>
    BY <1>3, <1>a DEF UnsetOthers, AddressesTypeOK
  <2>2. /\ call[c] \in Busy /\ call[c].flag = "true"
    BY <1>a, <2>1 DEF AddressesTypeOK, CallsOK, Idle
  <2>3. /\ \A d \in Calls \ {c} : Sets(d)' = Sets(d) /\ call'[d] = call[d]
        /\ call'[c] = [call[c] EXCEPT !.at = "write"]
    BY <1>a, <2>1, OthersSet
  <2>4. Sets(c)' /\ call'[c].on = call[c].on
    BY <2>2, <2>3 DEF Sets, Busy
  <2>5. default' \subseteq default /\ default' \subseteq {call[c].on}
    BY <2>1 DEF Kept
  <2>6. RoomForDefault'
    <3> SUFFICES ASSUME ~raced'
                 PROVE  /\ \A a, b \in default' : a = b
                        /\ \A d \in Calls : Sets(d)' => default' \subseteq {call'[d].on}
      BY DEF RoomForDefault
    <3>1. ASSUME NEW d \in Calls \ {c}, Sets(d)'
          PROVE  default' \subseteq {call'[d].on}
      <4>1. OtherSets(c) /\ Sets(d) /\ call'[d] = call[d]
        BY <2>3, <3>1 DEF OtherSets
      <4>2. ~raced
        BY <2>1, <4>1
      <4> QED BY <1>a, <2>5, <4>1, <4>2 DEF RoomForDefault
    <3> QED BY <2>4, <2>5, <3>1
  <2>7. DefaultIsKept'
    BY <2>4 DEF DefaultIsKept
  <2> QED BY <2>6, <2>7
<1>4. ASSUME NEW c \in Calls, Write(c)
      PROVE  RoomForDefault' /\ DefaultIsKept'
  <2>1. /\ call[c].at = "write"
        /\ call' = [call EXCEPT ![c] = Idle]
        /\ raced' = (raced \/ (Sets(c) /\ OtherSets(c)))
        /\ chosen' = (Sets(c) \/ (chosen /\ (default = {} \/ default' # {})))
        /\ lost' = (lost /\ ~Sets(c))
    BY <1>4 DEF Write
  <2>2. /\ \A d \in Calls \ {c} : Sets(d)' = Sets(d) /\ call'[d] = call[d]
        /\ ~Sets(c)'
    <3>1. /\ \A d \in Calls \ {c} : Sets(d)' = Sets(d) /\ call'[d] = call[d]
          /\ call'[c] = Idle
      BY <1>a, <2>1, OthersSet
    <3> QED BY <3>1 DEF Sets, Idle
  <2>3. CASE Sets(c)
    <3>1. default' = default \union {call[c].on}
      BY <1>4, <1>a, <2>1, <2>3, CallFields DEF Write, Sets, CallsOK
    <3>2. ASSUME ~raced'
          PROVE  default' = {call[c].on} /\ \A d \in Calls : ~Sets(d)'
      <4>1. ~raced /\ ~OtherSets(c)
        BY <2>1, <2>3, <3>2
      <4>2. default \subseteq {call[c].on}
        BY <1>a, <2>3, <4>1 DEF RoomForDefault
      <4>3. \A d \in Calls : ~Sets(d)'
        BY <2>2, <4>1 DEF OtherSets
      <4> QED BY <3>1, <4>2, <4>3
    <3>3. RoomForDefault'
      BY <3>2 DEF RoomForDefault
    <3>4. DefaultIsKept'
      BY <3>1 DEF DefaultIsKept
    <3> QED BY <3>3, <3>4
  <2>4. CASE ~Sets(c)
    <3>1. default' \subseteq default
      BY <1>4, <2>4 DEF Write
    <3>2. raced' = raced /\ lost' = lost
      BY <1>b, <2>1, <2>4
    <3>3. RoomForDefault'
      BY <1>a, <2>2, <3>1, <3>2 DEF RoomForDefault
    <3>4. DefaultIsKept'
      <4> SUFFICES ASSUME chosen', default' = {}
                   PROVE  lost' \/ \E d \in Calls : Sets(d)'
        BY DEF DefaultIsKept
      <4>1. chosen /\ default = {}
        BY <2>1, <2>4
      <4> QED BY <1>a, <2>2, <2>4, <3>2, <4>1 DEF DefaultIsKept
    <3> QED BY <3>3, <3>4
  <2> QED BY <2>3, <2>4
<1>5. ASSUME NEW c \in Calls, Throw(c)
      PROVE  RoomForDefault' /\ DefaultIsKept'
  <2>1. /\ call' = [call EXCEPT ![c] = Idle] /\ lost' = (lost \/ Sets(c))
        /\ UNCHANGED <<default, raced, chosen>>
    BY <1>5 DEF Throw
  <2>2. /\ \A d \in Calls \ {c} : Sets(d)' = Sets(d) /\ call'[d] = call[d]
        /\ ~Sets(c)'
    <3>1. /\ \A d \in Calls \ {c} : Sets(d)' = Sets(d) /\ call'[d] = call[d]
          /\ call'[c] = Idle
      BY <1>a, <2>1, OthersSet
    <3> QED BY <3>1 DEF Sets, Idle
  <2>3. RoomForDefault'
    BY <1>a, <2>1, <2>2 DEF RoomForDefault
  <2>4. DefaultIsKept'
    BY <1>a, <2>1, <2>2 DEF DefaultIsKept
  <2> QED BY <2>3, <2>4
<1>6. CASE \E c \in Calls, a \in AddressIds : Delete(c, a)
  <2>1. "absent" \in Flags
    BY DEF Flags
  <2> QED BY <1>2, <1>6, <2>1
<1> QED BY <1>2, <1>3, <1>4, <1>5, <1>6 DEF AddressesNext

LEMMA AddressesInvariant == AddressesSpec => []AddressesInv
<1>1. AddressesInit => AddressesInv
  <2> SUFFICES ASSUME AddressesInit
               PROVE  AddressesInv
    OBVIOUS
  <2>1. AddressesTypeOK
    <3>1. call \in [Calls -> {Idle} \union Busy]
      BY DEF AddressesInit
    <3>2. dbErrors \in 0 .. MaxDbErrors
      BY AddressesAssumption DEF AddressesAssumption, AddressesInit
    <3> QED BY <3>1, <3>2 DEF AddressesInit, AddressesTypeOK
  <2>2. CallsOK /\ RoomForDefault /\ DefaultIsKept
    BY DEF AddressesInit, CallsOK, RoomForDefault, DefaultIsKept, Sets, Idle
  <2> QED BY <2>1, <2>2 DEF AddressesInv
<1>2. AddressesInv /\ [AddressesNext]_addressVars => AddressesInv'
  <2>1. AddressesInv /\ AddressesNext => AddressesInv'
    BY AddressTypesKept, DefaultKept DEF AddressesInv
  <2>2. AddressesInv /\ UNCHANGED addressVars => AddressesInv'
    BY DEF AddressesInv, AddressesTypeOK, CallsOK, RoomForDefault,
           DefaultIsKept, Sets, addressVars
  <2> QED BY <2>1, <2>2
<1> QED BY <1>1, <1>2, PTL DEF AddressesSpec

\* However the calls of any number of clients overlap and fail, a customer has
\* two default addresses only after a race, and none only after a failure
\* between two statements or while a call is changing it.
THEOREM OneDefaultIsKept == AddressesSpec => []OneDefaultAddress
<1>1. AddressesInv => OneDefaultAddress
  <2> SUFFICES ASSUME AddressesInv, ~raced
               PROVE  Cardinality(default) <= 1
    BY DEF AddressesInv, OneDefaultAddress, OneDefaultUnlessRaced
  <2>1. \A a, b \in default : a = b
    BY DEF AddressesInv, RoomForDefault
  <2>2. CASE default = {}
    BY <2>2, FS_EmptySet
  <2>3. ASSUME NEW a \in default
        PROVE  Cardinality(default) <= 1
    <3>1. default = {a}
      BY <2>1
    <3>2. Cardinality({a}) = 1
      BY FS_Singleton
    <3> QED BY <3>1, <3>2
  <2> QED BY <2>2, <2>3
<1> QED BY <1>1, AddressesInvariant, PTL

=============================================================================
