---------------------------- MODULE EntityCache ----------------------------
(***************************************************************************)
(* Reads and writes of one entity through the data access layer: the       *)
(* backend, the Redis list and record caches beside it, and the requests   *)
(* that move data between them (DataAccessLayer/internal/service/query.go, *)
(* write.go and internal/cache/manager.go).                                *)
(*                                                                         *)
(* A request is a sequence of steps, one for each call it makes to Redis   *)
(* or to the backend: between two of them other requests run.  A record is *)
(* abstracted to the version its last write gave it, 0 when there is none. *)
(***************************************************************************)
EXTENDS Naturals, Sequences, FiniteSets

CONSTANTS
  Readers,     \* the Query requests that may be running at once
  Writers,     \* the Write requests that may be running at once
  Ids,         \* the records of the entity
  Queries,     \* what a client may ask: filters, limit, offset and order
  Keys,        \* the list keys of the entity
  KeyOf,       \* [Queries -> Keys]: the key of a query's list.  It hashes the
               \* filters only, so the pages of one list share a key
  Window,      \* [Queries -> SUBSET Ids]: the records a query selects
  Strategies,  \* the strategies cache_config.yaml may give the entity
  MaxWrites,   \* bound: the number of writes in a behaviour
  RedisFails   \* may calls to Redis fail?

Policies == {"CACHE_FIRST", "DB_FIRST", "CACHE_ONLY", "NO_CACHE"}

ASSUME EntityCacheAssumption ==
  /\ Readers \intersect Writers = {}
  /\ Queries # {} /\ Ids # {}
  /\ KeyOf \in [Queries -> Keys]
  /\ Window \in [Queries -> SUBSET Ids]
  /\ Strategies \subseteq {"read_through", "write_through", "write_behind"}
  /\ MaxWrites \in Nat
  /\ RedisFails \in BOOLEAN

Versions == 0 .. MaxWrites

\* The records query q selects in database d, with their versions.
Answer(q, d) == [i \in {j \in Window[q] : d[j] # 0} |-> d[i]]

\* Answers, those from stale data included.
Answers == UNION {[S -> Versions] : S \in SUBSET Ids}

VARIABLES
  db,        \* the backend's records
  writes,    \* the number of writes the backend has taken
  lists,     \* the list cache: for each key no list, or the query it answers,
             \* its data, and whether it is excused for being stale (below)
  records,   \* the record cache, 0 for no entry
  undeleted, \* history: the cached records whose deletion failed
  buffered,  \* the write-behind buffer: <<id, operation>> of each write
  at,        \* where each request is
  query,     \* the query of each reader
  policy,    \* the cache policy of each reader
  snap,      \* the records a reader has from the backend, not yet cached
  raced,     \* has the backend been written since a reader's snap?
  served,    \* the last answer of each reader
  target,    \* the record of each writer
  wrote,     \* the version its write gave it
  todo,      \* the list keys a writer's scan has not yet dealt with
  strategy   \* the entity's strategy, read when the server starts

vars == <<db, writes, lists, records, undeleted, buffered, at, query, policy,
          snap, raced, served, target, wrote, todo, strategy>>

NoList == [query |-> "none"]
NoAnswer == [query |-> "none"]

Lists == {NoList} \union [query : Queries, data : Answers, excused : BOOLEAN]

TypeOK ==
  /\ db \in [Ids -> Versions]
  /\ writes \in Versions
  /\ lists \in [Keys -> Lists]
  /\ records \in [Ids -> Versions]
  /\ undeleted \in SUBSET Ids
  /\ buffered \in Seq(Ids \X {"create", "update", "delete"})
  /\ at \in [Readers \union Writers ->
               {"idle", "get", "query", "set", "cache", "record", "scan"}]
  /\ query \in [Readers -> Queries]
  /\ policy \in [Readers -> Policies]
  /\ snap \in [Readers -> Answers]
  /\ raced \in [Readers -> BOOLEAN]
  /\ served \in [Readers ->
                   {NoAnswer} \union [query : Queries, data : Answers]]
  /\ target \in [Writers -> Ids]
  /\ wrote \in [Writers -> Versions]
  /\ todo \in [Writers -> SUBSET Keys]
  /\ strategy \in Strategies

Init ==
  /\ db = [i \in Ids |-> 0]
  /\ writes = 0
  /\ lists = [k \in Keys |-> NoList]
  /\ records = [i \in Ids |-> 0]
  /\ undeleted = {}
  /\ buffered = <<>>
  /\ at = [x \in Readers \union Writers |-> "idle"]
  /\ query \in [Readers -> {CHOOSE q \in Queries : TRUE}]
  /\ policy = [r \in Readers |-> "NO_CACHE"]
  /\ snap = [r \in Readers |-> [i \in {} |-> 0]]
  /\ raced = [r \in Readers |-> FALSE]
  /\ served = [r \in Readers |-> NoAnswer]
  /\ target \in [Writers -> {CHOOSE i \in Ids : TRUE}]
  /\ wrote = [w \in Writers |-> 0]
  /\ todo = [w \in Writers |-> {}]
  /\ strategy \in Strategies

Go(x, place) == at' = [at EXCEPT ![x] = place]
Serve(r, data) ==
  /\ served' = [served EXCEPT ![r] = [query |-> query[r], data |-> data]]
  /\ Go(r, "idle")

reader == <<query, policy, snap, raced, served>>
writer == <<target, wrote, todo>>
backend == <<db, writes, buffered>>
recordCache == <<records, undeleted>>
redis == <<lists, recordCache>>

-----------------------------------------------------------------------------
(***************************************************************************)
(* QueryService.Execute                                                    *)
(***************************************************************************)

\* CACHE_ONLY never reaches the storage; neither does it look into the cache.
Ask(r, q, p) ==
  /\ at[r] = "idle"
  /\ query' = [query EXCEPT ![r] = q]
  /\ policy' = [policy EXCEPT ![r] = p]
  /\ \/ /\ p = "CACHE_FIRST"
        /\ Go(r, "get")
        /\ served' = [served EXCEPT ![r] = NoAnswer]
     \/ /\ p = "CACHE_ONLY"
        /\ served' = [served EXCEPT ![r] = [query |-> q,
                                            data |-> [i \in {} |-> 0]]]
        /\ UNCHANGED at
     \/ /\ p \in {"DB_FIRST", "NO_CACHE"}
        /\ Go(r, "query")
        /\ served' = [served EXCEPT ![r] = NoAnswer]
  /\ UNCHANGED <<backend, redis, writer, snap, raced, strategy>>

\* mutant: the key leaves the filters out.
GetListOfEntity(r) ==
  /\ at[r] = "get"
  /\ \E k \in Keys : lists[k] # NoList /\ Serve(r, lists[k].data)
  /\ UNCHANGED <<backend, redis, writer, query, policy, snap, raced, strategy>>

\* Manager.GetList: a hit is served as it is; a miss or an error of Redis
\* falls through to the storage.
GetList(r) ==
  /\ at[r] = "get"
  /\ LET e == lists[KeyOf[query[r]]] IN
       \/ /\ e # NoList
          /\ Serve(r, e.data)
       \/ /\ e = NoList \/ RedisFails
          /\ Go(r, "query")
          /\ UNCHANGED served
  /\ UNCHANGED <<backend, redis, writer, query, policy, snap, raced, strategy>>

FillsCache(r) == policy[r] # "NO_CACHE" /\ DOMAIN snap'[r] # {}

\* queryBackend.  Without a fill to come the answer goes out at once; the
\* backend may also fail, and the request with it.
QueryBackend(r) ==
  /\ at[r] = "query"
  /\ \/ /\ snap' = [snap EXCEPT ![r] = Answer(query[r], db)]
        /\ raced' = [raced EXCEPT ![r] = FALSE]
        /\ \/ FillsCache(r) /\ Go(r, "set") /\ UNCHANGED served
           \/ ~FillsCache(r) /\ Serve(r, snap'[r])
     \/ Go(r, "idle") /\ UNCHANGED <<snap, raced, served>>
  /\ UNCHANGED <<backend, redis, writer, query, policy, strategy>>

\* Manager.SetList, with the entity's TTL; an error is logged.  The answer
\* is the storage's either way.
SetList(r) ==
  /\ at[r] = "set"
  /\ \/ lists' = [lists EXCEPT ![KeyOf[query[r]]] =
                    [query |-> query[r], data |-> snap[r],
                     excused |-> raced[r]]]
     \/ RedisFails /\ UNCHANGED lists
  /\ Serve(r, snap[r])
  /\ UNCHANGED <<backend, recordCache, writer, query, policy, snap, raced,
                 strategy>>

-----------------------------------------------------------------------------
(***************************************************************************)
(* WriteService.Execute                                                    *)
(***************************************************************************)

\* The database after the next write, op on record i.
Written(i, op) ==
  [db EXCEPT ![i] = IF op = "delete" THEN 0 ELSE writes + 1]

\* The operations the backend accepts: it refuses to update or delete a
\* record that is not there (no rows) and to create one that is (its key).
Possible(i, op) == op = "create" <=> db[i] = 0

\* A write reaches the backend: whoever is between reading it and caching
\* what it read now holds old data.
Commit(i, op) ==
  /\ writes < MaxWrites
  /\ Possible(i, op)
  /\ db' = Written(i, op)
  /\ writes' = writes + 1
  /\ raced' = [r \in Readers |-> raced[r] \/ at[r] = "set"]

\* WriteRecord fails: the cache is left alone, the request returns.
\* (Nothing changes, so this is no action of its own.)

\* WriteRecord succeeds; write_through caches the record before invalidating.
WriteRecord(w, i, op) ==
  /\ strategy # "write_behind"
  /\ at[w] = "idle"
  /\ Commit(i, op)
  /\ target' = [target EXCEPT ![w] = i]
  /\ wrote' = [wrote EXCEPT ![w] = db'[i]]
  /\ Go(w, IF strategy = "write_through" /\ op # "delete" THEN "cache"
           ELSE "record")
  /\ UNCHANGED <<redis, buffered, query, policy, snap, served, todo, strategy>>

\* Manager.Set of the payload; an error is logged.
SetRecord(w) ==
  /\ at[w] = "cache"
  /\ \/ records' = [records EXCEPT ![target[w]] = wrote[w]]
     \/ RedisFails /\ UNCHANGED records
  /\ Go(w, "record")
  /\ UNCHANGED <<backend, lists, undeleted, reader, writer, strategy>>

\* mutant: the pattern lacks the entity and matches another's lists.
OthersKeys == Keys \union {"another entity's list"}

ScannedKeys == Keys

\* Manager.Invalidate, first half: Del of the record key; an error is logged.
DelRecord(w) ==
  /\ at[w] = "record"
  /\ \/ /\ records' = [records EXCEPT ![target[w]] = 0]
        /\ undeleted' = undeleted \ {target[w]}
     \/ /\ RedisFails
        /\ undeleted' = undeleted \union {target[w]}
        /\ UNCHANGED records
  /\ todo' = [todo EXCEPT ![w] = ScannedKeys]
  /\ Go(w, "scan")
  /\ UNCHANGED <<backend, lists, reader, target, wrote, strategy>>

\* The lists in S whose deletion failed stay, excused by the failure.
Excused(S) ==
  [k \in Keys |-> IF k \in S /\ lists[k] # NoList
                  THEN [lists[k] EXCEPT !.excused = TRUE] ELSE lists[k]]

\* deleteByPattern: SCAN returns the keys of the pattern in pages, each page
\* is deleted by one Del.  A key that is there throughout is returned; one
\* that comes while the scan runs may be missed, and is not waited for.  A
\* failed Del is logged and the scan goes on.
DelPage(w, page) ==
  /\ at[w] = "scan"
  /\ page # {} /\ page \subseteq todo[w]
  /\ \/ lists' = [k \in Keys |-> IF k \in page THEN NoList ELSE lists[k]]
     \/ RedisFails /\ lists' = Excused(page)
  /\ todo' = [todo EXCEPT ![w] = @ \ page]
  /\ UNCHANGED <<backend, recordCache, at, reader, target, wrote, strategy>>

\* mutant: the scan stops after the page at cursor 0.
OnePageScanned(w) == TRUE

ScanComplete(w) == todo[w] = {}

\* The scan has come round to cursor 0, or SCAN failed; the request returns
\* its success.
ScanDone(w) ==
  /\ at[w] = "scan"
  /\ \/ ScanComplete(w) /\ UNCHANGED lists
     \/ RedisFails /\ ~ScanComplete(w) /\ lists' = Excused(todo[w])
  /\ todo' = [todo EXCEPT ![w] = {}]
  /\ Go(w, "idle")
  /\ UNCHANGED <<backend, recordCache, reader, target, wrote, strategy>>

\* writeBehind: the write is buffered and acknowledged; no cache is touched.
BufferWrite(i, op) ==
  /\ strategy = "write_behind"
  /\ writes + Len(buffered) < MaxWrites
  /\ buffered' = Append(buffered, <<i, op>>)
  /\ UNCHANGED <<db, writes, redis, at, reader, writer, strategy>>

\* The flush function writes the next buffered item, or fails to and drops
\* it (module WriteBehind has the flush in full).  No cache is touched.
FlushItem ==
  /\ buffered # <<>>
  /\ buffered' = Tail(buffered)
  /\ \/ Commit(Head(buffered)[1], Head(buffered)[2])
     \/ UNCHANGED <<db, writes, raced>>
  /\ UNCHANGED <<redis, at, query, policy, snap, served, writer, strategy>>

-----------------------------------------------------------------------------
(***************************************************************************)
(* Redis drops an entry at the end of its TTL.                             *)
(***************************************************************************)

\* mutant: lists are stored without a TTL.
NeverExpire(k) == FALSE /\ UNCHANGED vars

ExpireList(k) ==
  /\ lists[k] # NoList
  /\ lists' = [lists EXCEPT ![k] = NoList]
  /\ UNCHANGED <<backend, recordCache, at, reader, writer, strategy>>

ExpireRecord(i) ==
  /\ records[i] # 0
  /\ records' = [records EXCEPT ![i] = 0]
  /\ undeleted' = undeleted \ {i}
  /\ UNCHANGED <<backend, lists, at, reader, writer, strategy>>

-----------------------------------------------------------------------------
Reader(r) == GetList(r) \/ QueryBackend(r) \/ SetList(r)

Writer(w) ==
  \/ SetRecord(w)
  \/ DelRecord(w)
  \/ \E page \in SUBSET Keys : DelPage(w, page)
  \/ ScanDone(w)

Next ==
  \/ \E r \in Readers : \E q \in Queries, p \in Policies : Ask(r, q, p)
  \/ \E r \in Readers : Reader(r)
  \/ \E i \in Ids, op \in {"create", "update", "delete"} :
       BufferWrite(i, op) \/ \E w \in Writers : WriteRecord(w, i, op)
  \/ \E w \in Writers : Writer(w)
  \/ FlushItem
  \/ \E k \in Keys : ExpireList(k)
  \/ \E i \in Ids : ExpireRecord(i)

Spec == Init /\ [][Next]_vars

(***************************************************************************)
(* Fairness: a request that was started goes on (every call it makes has a *)
(* timeout), the buffer is flushed, and a TTL runs out.                    *)
(***************************************************************************)
Fairness ==
  /\ \A r \in Readers : WF_vars(Reader(r))
  /\ \A w \in Writers : WF_vars(Writer(w))
  /\ WF_vars(FlushItem)
  /\ \A k \in Keys : WF_vars(ExpireList(k))
  /\ \A i \in Ids : WF_vars(ExpireRecord(i))

FairSpec == Spec /\ Fairness

-----------------------------------------------------------------------------
(***************************************************************************)
(* Properties                                                              *)
(***************************************************************************)

\* Does key k hold a list that is no longer what its query would select?
Stale(k) == lists[k] # NoList /\ lists[k].data # Answer(lists[k].query, db)

\* Some writer has yet to delete key k: it has written but not begun its
\* scan, or the scan has not come to k.
Owed(k) ==
  \E w \in Writers :
    at[w] \in {"cache", "record"} \/ (at[w] = "scan" /\ k \in todo[w])

\* Unless writes are buffered, a cached list is stale only while the write
\* that made it so is still invalidating, or if it is excused: its reader
\* cached what it had read before a write it ran beside, or Redis failed
\* during the invalidation.  No other interleaving of readers, writers, pages
\* of a scan and expiries leaves a stale list behind.
StaleOnlyIfOwedOrExcused ==
  strategy # "write_behind" =>
    \A k \in Keys : Stale(k) => Owed(k) \/ lists[k].excused

\* Whatever was missed, the TTL repairs: no list stays stale for ever.
StaleListsGoAway == \A k \in Keys : Stale(k) ~> ~Stale(k)

\* What write.go says of write_through ("Sync write to cache + invalidate
\* lists"): no call of a request takes the record it has cached away again.
\* The code's own Invalidate does, so the request ends with nothing cached.
WrittenIsCached ==
  [][\A w \in Writers :
       /\ strategy = "write_through"
       /\ wrote[w] # 0 /\ records[target[w]] = wrote[w]
       /\ Writer(w)
       => records'[target[w]] = wrote[w]]_vars

\* What happens instead: a record is in the record cache only while the
\* write_through request that put it there has not yet invalidated it, or
\* after Redis failed to delete it.
RecordsAreTransient ==
  \A i \in Ids :
    records[i] # 0 =>
      \/ i \in undeleted
      \/ \E w \in Writers : at[w] = "record" /\ target[w] = i

\* A request is answered with records that its own filters select, from the
\* backend or from a list that whoever shares its key has cached: from another
\* page of its list, at worst.
AnswersTheFilters ==
  \A r \in Readers : served[r] # NoAnswer =>
    DOMAIN served[r].data \subseteq
      UNION {Window[q] : q \in {p \in Queries :
                                  KeyOf[p] = KeyOf[served[r].query]}}
=============================================================================
