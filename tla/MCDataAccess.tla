---------------------------- MODULE MCDataAccess ----------------------------
(***************************************************************************)
(* A small instance of WriteBehind and EntityCache under fairness.  They   *)
(* share no state: a behaviour runs one of them and leaves the other in an *)
(* initial state.                                                          *)
(***************************************************************************)
EXTENDS WriteBehind, TLC

CONSTANTS h1, h2, w1, w2, w3, r1, u1, i1, q1, q2, k1, k2
CONSTANTS Strategies, MaxWrites, RedisFails

TwoHandlers == {h1, h2}
ThreeWrites == {w1, w2, w3}

\* Two queries with different filters, both of which select the one record.
OwnKeys == q1 :> k1 @@ q2 :> k2
SameWindow == q1 :> {i1} @@ q2 :> {i1}

VARIABLES db, writes, lists, records, undeleted, buffered, place, query, policy,
          snap, raced, served, target, wrote, todo, strategy
VARIABLE component

Cache ==
  INSTANCE EntityCache WITH
    at <- place, Readers <- {r1}, Writers <- {u1}, Ids <- {i1},
    Queries <- {q1, q2}, Keys <- {k1, k2}, KeyOf <- OwnKeys, Window <- SameWindow

\* Cache!vars, which TLC does not take in UNCHANGED.
cacheVars ==
  <<db, writes, lists, records, undeleted, buffered, place, query, policy,
    snap, raced, served, target, wrote, todo, strategy>>

DataAccessInit ==
  /\ Init
  /\ Cache!Init
  /\ component \in {"buffer", "cache"}
  /\ component = "buffer" => strategy = "write_behind"

DataAccessNext ==
  /\ UNCHANGED component
  /\ \/ component = "buffer" /\ Next /\ UNCHANGED cacheVars
     \/ component = "cache" /\ Cache!Next /\ UNCHANGED vars

\* The fairness of both; the ticker of a buffer that rests does not fire, and
\* nothing else of a component in its initial state is owed a step.
DataAccessSpec ==
  /\ DataAccessInit
  /\ [][DataAccessNext]_<<vars, cacheVars, component>>
  /\ GoroutinesRun /\ WF_vars(component = "buffer" /\ Tick)
  /\ Cache!Fairness

\* No cached list stays stale for ever (EntityCache).
StaleListsGoAway == Cache!StaleListsGoAway
=============================================================================
