---------------------------- MODULE CustomerView ----------------------------
(***************************************************************************)
(* The customer view of the data access layer                              *)
(* (internal/service/customer_view.go): a fan-out of one query to each of  *)
(* six engines within 400 ms, whose answers, empty where a query failed,   *)
(* make one view.                                                          *)
(*                                                                         *)
(* What an engine has of the customer is a version; 0 stands for nothing,  *)
(* which the view shows as null, an empty list or "offline".               *)
(***************************************************************************)
EXTENDS Naturals

CONSTANTS
  Engines,     \* bound: the engines whose part is shown, besides the cached ones
  MaxVersion   \* bound: the versions of a part

ASSUME CustomerViewAssumption ==
  Engines \subseteq {"behavior_profile", "engagement_trends", "memory_summaries",
                     "relationship_graph"} /\ MaxVersion \in Nat

Parts == Engines \union {"profile", "session_presence"}
Versions == 0 .. MaxVersion

VARIABLES
  source,      \* what each engine has
  listed,      \* the profile in the list cache of QueryService
  cachedView,  \* the view in the record cache
  view,        \* the view of the request under way, part by part
  fanOut,      \* "idle", "running" or "answered"
  during,      \* history: what each part was while the queries of the view ran
  holes        \* history: the parts whose query failed

viewVars == <<source, listed, cachedView, view, fanOut, during, holes>>

NotThere == MaxVersion + 1   \* not in a cache, or not answered yet

CustomerViewTypeOK ==
  /\ source \in [Parts -> Versions]
  /\ listed \in Versions \union {NotThere}
  /\ {cachedView, view} \subseteq [Parts -> Versions \union {NotThere}]
  /\ fanOut \in {"idle", "running", "answered"}
  /\ during \in [Parts -> SUBSET Versions] /\ holes \subseteq Parts

Unanswered == [p \in Parts |-> NotThere]

CustomerViewInit ==
  /\ source = [p \in Parts |-> 0] /\ listed = NotThere
  /\ cachedView = Unanswered /\ view = Unanswered
  /\ fanOut = "idle" /\ during = [p \in Parts |-> {}] /\ holes = {}

\* The entities of the view that configs/cache_config.yaml names.  Manager.Set
\* does nothing for another.
Configured == {"customer"}

\* No program writes the key the presence is read from.
Changes(p) ==
  /\ p # "session_presence" /\ source[p] < MaxVersion
  /\ source' = [source EXCEPT ![p] = @ + 1]
  /\ during' = [during EXCEPT ![p] =
                  @ \union IF fanOut = "running" THEN {source'[p]} ELSE {}]
  /\ UNCHANGED <<listed, cachedView, view, fanOut, holes>>

\* The list of the profile expires, or a write has invalidated it.
ListGoes ==
  /\ listed # NotThere /\ listed' = NotThere
  /\ UNCHANGED <<source, cachedView, view, fanOut, during, holes>>

\* What there is to be seen as the queries start.
Seen == [p \in Parts |->
  {source[p]} \union IF p = "profile" THEN {listed} \ {NotThere} ELSE {}]

\* A view found in the cache is the answer; otherwise the queries start.
GetFullView ==
  /\ fanOut # "running"
  /\ view' = cachedView
  /\ fanOut' = IF cachedView = Unanswered THEN "running" ELSE "answered"
  /\ during' = IF cachedView = Unanswered THEN Seen ELSE during
  /\ holes' = IF cachedView = Unanswered THEN {} ELSE holes
  /\ UNCHANGED <<source, listed, cachedView>>

Pending(p) == fanOut = "running" /\ view[p] = NotThere
Shows(p, version) == view' = [view EXCEPT ![p] = version]

\* The only query that goes by the cache, and past it when Redis fails.  It
\* leaves there what it found, but for nothing.
QueryProfile ==
  /\ Pending("profile")
  /\ \E version \in {source["profile"], listed} \ {NotThere} :
       /\ Shows("profile", version)
       /\ listed' \in {listed, IF version = 0 THEN listed ELSE version}
  /\ UNCHANGED <<source, cachedView, fanOut, during, holes>>

ReadPresence ==
  /\ Pending("session_presence")
  /\ Shows("session_presence", 0)
  /\ UNCHANGED <<source, listed, cachedView, fanOut, during, holes>>

QueryEngine(p) ==
  /\ p \in Engines /\ Pending(p)
  /\ Shows(p, source[p])
  /\ UNCHANGED <<source, listed, cachedView, fanOut, during, holes>>

\* mutant: a query's goroutine returns its error, and the group's context, which
\* ends with the first error, takes the queries still running with it.
QueryFailsForAll(p) ==
  /\ p # "session_presence" /\ Pending(p)
  /\ view' = [q \in Parts |-> IF Pending(q) THEN 0 ELSE view[q]]
  /\ holes' = holes \union {p}
  /\ UNCHANGED <<source, listed, cachedView, fanOut, during>>

\* An error, or the 400 ms are over: not fatal.
QueryFails(p) ==
  /\ p # "session_presence" /\ Pending(p)
  /\ Shows(p, 0)
  /\ holes' = holes \union {p}
  /\ UNCHANGED <<source, listed, cachedView, fanOut, during>>

\* All have returned: the view is handed to the cache, holes and all.
Answer ==
  /\ fanOut = "running" /\ NotThere \notin {view[p] : p \in Parts}
  /\ fanOut' = "answered"
  /\ cachedView' = IF "customer_view" \in Configured THEN view ELSE cachedView
  /\ UNCHANGED <<source, listed, view, during, holes>>

CustomerViewNext ==
  \/ \E p \in Parts : Changes(p) \/ QueryEngine(p) \/ QueryFails(p)
  \/ ListGoes \/ GetFullView \/ QueryProfile \/ ReadPresence \/ Answer

CustomerViewSpec == CustomerViewInit /\ [][CustomerViewNext]_viewVars

-----------------------------------------------------------------------------
(***************************************************************************)
(* Properties                                                              *)
(***************************************************************************)

\* Each part of an answered view is what its engine had at some time while the
\* view was put together (the profile may be what the list cache had then), or
\* empty because its own query failed: one engine's failure shows in no other part.
\* A view that had been found in the cache would have to be such a view, too.
ViewTellsItsSources ==
  fanOut = "answered" =>
    \A p \in Parts : view[p] \in during[p] \union {0 : h \in holes \intersect {p}}

\* What the comment of GetFullView promises ("Results are cached for 2 minutes"):
\* a request leaves its view in the cache for those that come after it.
ViewIsCached == fanOut = "answered" => cachedView = view
=============================================================================
