------------------------------ MODULE Sessions ------------------------------
(***************************************************************************)
(* Sessions and presence of the customer management service                *)
(* (CustomerManagement/src/services/session.service.ts): login, logout,    *)
(* refresh and heartbeat are asynchronous functions that make one Redis    *)
(* call after another, and any of them may run between two calls of        *)
(* another.  The HyperLogLog of daily users, which nothing else reads or   *)
(* writes, is left out.                                                    *)
(***************************************************************************)
EXTENDS Naturals, FiniteSets

CONSTANTS
  SessionIds,      \* the ids that createSession may draw
  Users,
  Owner,           \* the user who logs in with each of them
  MaxRedisErrors   \* bound: how often a Redis call may throw

ASSUME SessionsAssumption ==
  /\ Owner \in [SessionIds -> Users]
  /\ SessionIds \intersect Users = {}
  /\ MaxRedisErrors \in Nat

VARIABLES
  stored,       \* the keys session:<id>
  index,        \* the members of the sets customer:sessions:<user>
  present,      \* the keys presence:<user>
  online,       \* the members of the sorted set customer:online
  login,        \* where the createSession of each session is
  logout,       \* where its destroySession is
  refresh,      \* where its getSession is
  beating,      \* the users whose updatePresence has yet to write customer:online
  redisErrors,  \* history: the calls that threw
  expired,      \* history: the sessions whose key has run out
  revived,      \* history: sessions a refresh wrote after their key had gone
  broken,       \* history: users one of whose operations threw half way
  uncounted,    \* history: logouts that had counted the sessions when another
                \* one was added to the index
  lapsed,       \* history: users whose presence expired, or was cleared by a
                \* logout in uncounted
  late          \* history: users whose heartbeat came after the last logout

redisKeys == <<stored, index, present, online>>
calls == <<login, logout, refresh, beating>>
sessionHistory == <<redisErrors, expired, revived, broken, uncounted, lapsed, late>>
sessionVars == <<redisKeys, calls, sessionHistory>>

SessionsOf(u) == {s \in SessionIds : Owner[s] = u}

SessionsTypeOK ==
  /\ stored \in SUBSET SessionIds
  /\ index \in SUBSET SessionIds
  /\ present \in SUBSET Users
  /\ online \in SUBSET Users
  /\ login \in [SessionIds ->
       {"none", "index", "presence", "online", "done", "failed"}]
  /\ logout \in [SessionIds -> {"idle", "del", "srem", "scard", "clear", "zrem"}]
  /\ refresh \in [SessionIds -> {"idle", "set"}]
  /\ beating \in SUBSET Users
  /\ redisErrors \in 0 .. MaxRedisErrors
  /\ expired \in SUBSET SessionIds
  /\ revived \in SUBSET SessionIds
  /\ broken \in SUBSET Users
  /\ uncounted \in SUBSET SessionIds
  /\ lapsed \in SUBSET Users
  /\ late \in SUBSET Users

SessionsInit ==
  /\ stored = {} /\ index = {} /\ present = {} /\ online = {}
  /\ login = [s \in SessionIds |-> "none"]
  /\ logout = [s \in SessionIds |-> "idle"]
  /\ refresh = [s \in SessionIds |-> "idle"]
  /\ beating = {}
  /\ redisErrors = 0
  /\ expired = {} /\ revived = {} /\ broken = {} /\ uncounted = {} /\ lapsed = {} /\ late = {}

-----------------------------------------------------------------------------
(***************************************************************************)
(* createSession.                                                          *)
(***************************************************************************)
LoginAt(s, here, there) ==
  /\ login[s] = here
  /\ login' = [login EXCEPT ![s] = there]
  /\ UNCHANGED <<logout, refresh, beating>>

StoreSession(s) ==
  /\ LoginAt(s, "none", "index")
  /\ stored' = stored \union {s}
  /\ UNCHANGED <<index, present, online, sessionHistory>>

CountedWithout(s) ==
  uncounted' = uncounted \union
                 {t \in SessionsOf(Owner[s]) : logout[t] = "clear"}

IndexSession(s) ==
  /\ LoginAt(s, "index", "presence")
  /\ index' = index \union {s}
  /\ CountedWithout(s)
  /\ UNCHANGED <<stored, present, online, redisErrors, expired, revived, broken,
                 lapsed, late>>

\* The presence key of a user is set, with a new TTL.
SetPresence(u) ==
  /\ present' = present \union {u}
  /\ lapsed' = lapsed \ {u}

LoginPresence(s) ==
  /\ LoginAt(s, "presence", "online")
  /\ SetPresence(Owner[s])
  /\ UNCHANGED <<stored, index, online, redisErrors, expired, revived, broken,
                 uncounted, late>>

LoginOnline(s) ==
  /\ LoginAt(s, "online", "done")
  /\ online' = online \union {Owner[s]}
  /\ UNCHANGED <<stored, index, present, sessionHistory>>

-----------------------------------------------------------------------------
(***************************************************************************)
(* updatePresence, called by the heartbeat of a client.                    *)
(***************************************************************************)
Heartbeat(u) ==
  /\ u \notin beating
  /\ SetPresence(u)
  /\ late' = late \union {u}
  /\ beating' = beating \union {u}
  /\ UNCHANGED <<stored, index, online, login, logout, refresh, redisErrors,
                 expired, revived, broken, uncounted>>

HeartbeatOnline(u) ==
  /\ u \in beating
  /\ online' = online \union {u}
  /\ beating' = beating \ {u}
  /\ UNCHANGED <<stored, index, present, login, logout, refresh,
                 sessionHistory>>

-----------------------------------------------------------------------------
(***************************************************************************)
(* getSession reads the key and writes it back with a new TTL.             *)
(***************************************************************************)
GetSession(s) ==
  /\ login[s] = "done" /\ refresh[s] = "idle"
  /\ s \in stored
  /\ refresh' = [refresh EXCEPT ![s] = "set"]
  /\ UNCHANGED <<redisKeys, login, logout, beating, sessionHistory>>

RefreshSession(s) ==
  /\ refresh[s] = "set"
  /\ refresh' = [refresh EXCEPT ![s] = "idle"]
  /\ stored' = stored \union {s}
  /\ expired' = expired \ {s}
  /\ revived' = IF s \in stored THEN revived ELSE revived \union {s}
  /\ UNCHANGED <<index, present, online, login, logout, beating, redisErrors,
                 broken, uncounted, lapsed, late>>

-----------------------------------------------------------------------------
(***************************************************************************)
(* destroySession: the client knows the id once createSession has          *)
(* returned, and may call again.                                           *)
(***************************************************************************)
LogoutAt(s, here, there) ==
  /\ logout[s] = here
  /\ logout' = [logout EXCEPT ![s] = there]
  /\ UNCHANGED <<login, refresh, beating>>

FindSession(s) ==
  /\ login[s] = "done"
  /\ s \in stored
  /\ LogoutAt(s, "idle", "del")
  /\ UNCHANGED <<redisKeys, sessionHistory>>

DeleteSession(s) ==
  /\ LogoutAt(s, "del", "srem")
  /\ stored' = stored \ {s}
  /\ UNCHANGED <<index, present, online, sessionHistory>>

UnindexSession(s) ==
  /\ LogoutAt(s, "srem", "scard")
  /\ index' = index \ {s}
  /\ UNCHANGED <<stored, present, online, sessionHistory>>

\* mutant: the presence is cleared by every logout.
CountNothing(s) ==
  /\ LogoutAt(s, "scard", "clear")
  /\ UNCHANGED <<redisKeys, sessionHistory>>

\* Presence is cleared only by the logout of the user's last session.
CountSessions(s) ==
  /\ LogoutAt(s, "scard",
       IF SessionsOf(Owner[s]) \intersect index = {} THEN "clear" ELSE "idle")
  /\ UNCHANGED <<redisKeys, sessionHistory>>

ClearPresence(s) ==
  LET u == Owner[s]
  IN /\ LogoutAt(s, "clear", "zrem")
     /\ present' = present \ {u}
     /\ lapsed' = IF s \in uncounted THEN lapsed \union {u} ELSE lapsed
     /\ uncounted' = uncounted \ {s}
     /\ late' = IF u \in beating THEN late ELSE late \ {u}
     /\ UNCHANGED <<stored, index, online, redisErrors, expired, revived, broken>>

ClearOnline(s) ==
  /\ LogoutAt(s, "zrem", "idle")
  /\ online' = online \ {Owner[s]}
  /\ UNCHANGED <<stored, index, present, sessionHistory>>

-----------------------------------------------------------------------------
(***************************************************************************)
(* A Redis call throws, and with it the function that made it.  One that    *)
(* was applied and whose answer was lost leaves what the next one leaves    *)
(* when it throws unapplied.                                                *)
(***************************************************************************)
\* mutant: the call is retried without end.
ThrowsOn(u) ==
  /\ redisErrors' = redisErrors + 1
  /\ broken' = broken \union {u}
  /\ UNCHANGED <<redisKeys, expired, revived, lapsed, late>>

Throws(u) ==
  /\ redisErrors < MaxRedisErrors
  /\ redisErrors' = redisErrors + 1
  /\ broken' = broken \union {u}
  /\ UNCHANGED <<redisKeys, expired, revived, lapsed, late>>

LoginThrows(s) ==
  /\ login[s] \in {"index", "presence", "online"}
  /\ login' = [login EXCEPT ![s] = "failed"]
  /\ Throws(Owner[s])
  /\ UNCHANGED <<logout, refresh, beating, uncounted>>

LogoutThrows(s) ==
  /\ logout[s] # "idle"
  /\ logout' = [logout EXCEPT ![s] = "idle"]
  /\ uncounted' = uncounted \ {s}
  /\ Throws(Owner[s])
  /\ UNCHANGED <<login, refresh, beating>>

HeartbeatThrows(u) ==
  /\ u \in beating
  /\ beating' = beating \ {u}
  /\ Throws(u)
  /\ UNCHANGED <<login, logout, refresh, uncounted>>

-----------------------------------------------------------------------------
(***************************************************************************)
(* Time.                                                                   *)
(***************************************************************************)

\* The set of the user keeps the id: nothing but a logout removes it, and none
\* finds the session any more.
ExpireSession(s) ==
  /\ s \in stored
  /\ stored' = stored \ {s}
  /\ expired' = expired \union {s}
  /\ UNCHANGED <<index, present, online, calls, redisErrors, revived, broken,
                 uncounted, lapsed, late>>

ExpirePresence(u) ==
  /\ u \in present
  /\ present' = present \ {u}
  /\ lapsed' = lapsed \union {u}
  /\ UNCHANGED <<stored, index, online, calls, redisErrors, expired, revived,
                 broken, uncounted, late>>

\* getOnlineCount finds an entry older than PRESENCE_TTL.
ForgetOnline(u) ==
  /\ u \in online
  /\ online' = online \ {u}
  /\ UNCHANGED <<stored, index, present, calls, sessionHistory>>

-----------------------------------------------------------------------------
Login(s) ==
  StoreSession(s) \/ IndexSession(s) \/ LoginPresence(s) \/ LoginOnline(s)

Logout(s) ==
  \/ FindSession(s) \/ DeleteSession(s) \/ UnindexSession(s)
  \/ CountSessions(s) \/ ClearPresence(s) \/ ClearOnline(s)

SessionsNext ==
  \/ \E s \in SessionIds : \/ Login(s)
                           \/ Logout(s)
                           \/ GetSession(s)
                           \/ RefreshSession(s)
                           \/ ExpireSession(s)
                           \/ LoginThrows(s)
                           \/ LogoutThrows(s)
  \/ \E u \in Users : \/ Heartbeat(u)
                      \/ HeartbeatOnline(u)
                      \/ HeartbeatThrows(u)
                      \/ ExpirePresence(u)
                      \/ ForgetOnline(u)

SessionsSpec == SessionsInit /\ [][SessionsNext]_sessionVars

\* Fairness: a presence that is not set again expires.  No call has to be made,
\* to go on or to end.
SessionsFairness == \A u \in Users : WF_sessionVars(ExpirePresence(u))

-----------------------------------------------------------------------------
(***************************************************************************)
(* Properties                                                              *)
(***************************************************************************)

\* A session that a client can use is in its user's set, where the user's
\* list of sessions and every logout find it, unless it is being logged out or
\* a refresh that overlapped a logout or an expiry brought its key back.  And
\* what is in the set is such a session, unless its key has run out or is just
\* being deleted, or a call that was to remove it threw.
SessionsAreIndexed ==
  \A s \in SessionIds :
    /\ login[s] = "done" /\ s \in stored /\ s \notin revived => s \in index
    /\ s \in index =>
         s \in stored \union expired \/ logout[s] = "srem" \/ Owner[s] \in broken

\* When no session of a user is alive, and none is on its way in or out, the
\* user is offline in both places, however the logins and logouts overlapped,
\* unless a session that has run out is still in the set, a Redis call threw or
\* a heartbeat came late.
Logged(u) ==
  \A s \in SessionsOf(u) :
    logout[s] = "idle" /\ login[s] \in {"none", "done"}

OfflineAfterLastLogout ==
  \A u \in Users :
    Logged(u) /\ SessionsOf(u) \intersect stored = {} =>
      \/ u \notin present \union online
      \/ SessionsOf(u) \intersect index \intersect expired # {}
      \/ u \in broken \union late

\* A user with a session in its set is present, unless the heartbeats stopped
\* for PRESENCE_TTL, a Redis call threw, or a logout that had counted the
\* sessions before this one was added cleared the presence after it.
PresentWhileLoggedIn ==
  \A u \in Users :
    (\E s \in SessionsOf(u) : login[s] = "done" /\ s \in index) =>
      u \in present \union lapsed \union broken

\* The keys of the sessions, the users' sets and both records of who is online
\* agree, but for these causes, whatever logins, logouts and heartbeats overlap.
SessionsAgree ==
  SessionsAreIndexed /\ OfflineAfterLastLogout /\ PresentWhileLoggedIn

\* Whatever overlapping logins, logouts and heartbeats, or calls that threw, have
\* left of the presence goes when no more heartbeats come; and what is left in
\* customer:online goes if somebody goes on asking how many are online, which
\* no part of the program does by itself.
NoHeartbeat == \A u \in Users : ~Heartbeat(u)

OnlineIsCounted == \A u \in Users : WF_sessionVars(ForgetOnline(u))

SilentUsersGoOffline ==
  <>[][NoHeartbeat]_sessionVars =>
    <>[](present = {}) /\ (OnlineIsCounted => <>[](online = {}))

\* What the comments say ("Get all active sessions for a customer", "List all
\* active sessions for the current user"): an id that is listed, and that
\* nobody is just adding or removing, is that of a session that is alive.
ListedIsAlive ==
  \A s \in index : login[s] = "done" /\ logout[s] = "idle" => s \in stored

\* What a logout is to find out ("Check if user has other active sessions"), if
\* none of the other sessions is coming or going: that there is none if none is
\* alive, so that it clears the presence.
LastLogoutClears ==
  [][\A s \in SessionIds :
       /\ CountSessions(s)
       /\ \A t \in SessionsOf(Owner[s]) \ {s} :
            t \notin stored /\ login[t] \in {"none", "done"} /\ logout[t] = "idle"
       => logout'[s] = "clear"]_sessionVars

\* And that there is one if one is: no logout clears the presence of a user who
\* has another active session.
ClearedOnlyByTheLast ==
  [][\A s \in SessionIds :
       ClearPresence(s) =>
         \A t \in SessionsOf(Owner[s]) \ {s} :
           ~(t \in stored \intersect index /\ login[t] = "done")]_sessionVars

\* What a client is told ("Session destroyed"): a session that its logout has
\* taken out of the set, and whose logout has returned, cannot be used again.
DestroyedIsGone ==
  \A s \in SessionIds :
    login[s] = "done" /\ logout[s] = "idle" /\ s \notin index => s \notin stored
=============================================================================
